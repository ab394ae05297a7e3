SPECIFICATION OrderSpec
CONSTANTS
  Sessions = {s1, s2}
  Ending = {}
  Hooks = {h1, h2}
  Runs = {r1, r2}
  MaxOrders = 2
  NoSession = NoSession
  Attempts = 1
  Batch = 1
  DelayedPay = FALSE
  DbFaults = TRUE
  MaxCrashes = 1
SYMMETRY SymmetryWithSessions
INVARIANTS AnnouncedOnce OneProvisioner OneServicePerPayment
CHECK_DEADLOCK FALSE
