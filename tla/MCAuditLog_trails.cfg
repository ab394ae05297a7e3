SPECIFICATION PartSpec
CONSTANTS
  Targets = {t1, x}
  NoLookup = {x}
  Orgs = {g1}
  MaxLog = 4
  MaxTime = 2
  Writers = {w1, w2}
  Sweeps = {b1, b2}
  Readers = {c1}
  BatchSize = 2
  MaxRows = 3
  PageLimit = 1
  NoOrg = NoOrg
  NoTarget = NoTarget
  MaxPlaced = 3
  Customers = {u1, u2}
  Pollers = {p1, p2}
  ScanBatch = 1
  ScanMax = 2
  NoCustomer = NoCustomer
INVARIANTS CompleteReports LoggedOnce PagesWhole DeployedIsServed
SYMMETRY Symmetry
CHECK_DEADLOCK FALSE
