SPECIFICATION PartSpec
CONSTANTS
  Plans = {p1, p2}
  Subs = {s1, s2}
  Buyers = {b1, b2}
  Deliveries = {d1, d2}
  MaxMoves = 1
  NoPlan = NoPlan
  NoSub = NoSub
  NoEvent = NoEvent
  Workspaces = {w1, w2}
  Names = {n1, n2}
  PublicNames = {n2}
  DomainCalls = {c1, c2}
  MaxProofs = 2
  NoName = NoName
  NoWorkspace = NoWorkspace
  Orgs = {o1, o2}
  Cycles = {m, y}
  NoCycle = NoCycle
  NoOrg = NoOrg
INVARIANTS SecondOnlyWhenBlind MirrorKept ProofsKept DecisionsGrounded
SYMMETRY Symmetry
CHECK_DEADLOCK FALSE
