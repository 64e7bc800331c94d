CONSTANTS
  None = None
  Admin = admin
  Jobs = {j1}
  Orders = {1, 2}
  Requests = {r1}
  Customers = {c1}
  Providers = {p1}
  Uploads = {}
  MaxClock = 1
  AckLoss = FALSE
  ClosureDelay = 0
  ApprovalDelay = 0
  MaxFaults = 0
SPECIFICATION Spec
INVARIANT ChatClosesWithOrder
CHECK_DEADLOCK FALSE
