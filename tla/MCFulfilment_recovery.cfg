SPECIFICATION SweepSpec
CONSTANTS
  Sessions = {s1, s2}
  Ending = {}
  Hooks = {h1}
  Runs = {r1}
  MaxOrders = 2
  NoSession = NoSession
  Attempts = 1
  Batch = 2
  DelayedPay = FALSE
  DbFaults = FALSE
  MaxCrashes = 1
PROPERTIES PaidOrderNoticed
CHECK_DEADLOCK FALSE
