SPECIFICATION PartSpec
CONSTANTS
  Orders = {o1, o2}
  Sessions = {s1, s2}
  Requests = {r1}
  Processors = {p1, p2}
  Deliverers = {d1}
  Operators = {u1}
  BadMailboxes = {o2}
  NoOrder = NoOrder
  NoSession = NoSession
  Batch = 2
  AchEnabled = TRUE
  Reversals = {"refunded", "dispute"}
  MaxRestarts = 1
INVARIANTS AuditTrail PaidOrdersArePaid ReversalCaught JobFollowsOrder
PROPERTY ImplementsPromise
SYMMETRY Symmetry
CHECK_DEADLOCK FALSE
