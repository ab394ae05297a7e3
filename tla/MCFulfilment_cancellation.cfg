SPECIFICATION CancellationSpec
CONSTANTS
  Sessions = {s1, s2}
  Ending = {s1}
  Hooks = {h1, h2}
  Runs = {r1}
  MaxOrders = 2
  NoSession = NoSession
  Attempts = 1
  Batch = 1
  DelayedPay = FALSE
  DbFaults = TRUE
  MaxCrashes = 1
SYMMETRY Symmetry
INVARIANTS ActiveIsFulfilled RecordedPaymentKept
PROPERTY StatusFollowsMachine
CHECK_DEADLOCK FALSE
