CONSTANTS
  None = None
  Admin = admin
  Jobs = {j1, j2, j3}
  Requests = {r1}
  Orders = {o1}
  Customers = {c1}
  Providers = {p1, p2}
  Uploads = {}
  MaxClock = 3
  AckLoss = TRUE
  ClosureDelay = 1
  ApprovalDelay = 1
  MaxFaults = 1
SPECIFICATION Races
SYMMETRY Symmetry
INVARIANTS
  AcceptedApplied
  StatusHasCause
  StatusHasDate
PROPERTIES
  Finality
  OrderFinality
CHECK_DEADLOCK FALSE
