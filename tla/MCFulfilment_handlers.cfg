SPECIFICATION HandlerSpec
CONSTANTS
  Sessions = {s1}
  Ending = {s1}
  Hooks = {h1}
  Runs = {r1}
  MaxOrders = 1
  NoSession = NoSession
  Attempts = 2
  Batch = 1
  DelayedPay = TRUE
  DbFaults = FALSE
  MaxCrashes = 0
PROPERTIES ProvisioningEnds EventAcknowledged
CHECK_DEADLOCK FALSE
