SPECIFICATION FairSpec
CONSTANTS
  Orders = {o1}
  Sessions = {s1, s2}
  Requests = {r1}
  Processors = {p1}
  Deliverers = {d1}
  Operators = {}
  BadMailboxes = {}
  NoOrder = NoOrder
  NoSession = NoSession
  Batch = 1
  AchEnabled = FALSE
  Reversals = {"refunded"}
  MaxRestarts = 1
PROPERTIES PaidIsReviewed ReversedIsHeld GuideDelivered
CHECK_DEADLOCK FALSE
