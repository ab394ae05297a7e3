SPECIFICATION HandlerSpec
CONSTANTS
  Sessions = {s1}
  Ending = {s1}
  Hooks = {h1}
  Runs = {r1, r2}
  MaxOrders = 1
  NoSession = NoSession
  Attempts = 1
  Batch = 1
  DelayedPay = FALSE
  DbFaults = FALSE
  MaxCrashes = 0
PROPERTY CancelledIsRevoked
CHECK_DEADLOCK FALSE
