CONSTANTS
  None = None
  Admin = admin
  Jobs = {j1, j2}
  Orders = {1, 2}
  Requests = {r1}
  Customers = {c1}
  Providers = {p1, p2}
  Uploads = {}
  MaxClock = 1
  AckLoss = FALSE
  ClosureDelay = 0
  ApprovalDelay = 0
  MaxFaults = 1
SPECIFICATION MCSpec
INVARIANTS
  TypeOK
  PartiesMatch
  SerialHandover
PROPERTY AcceptedGetsOrder
CHECK_DEADLOCK FALSE
