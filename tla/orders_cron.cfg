CONSTANTS
  None = None
  Admin = admin
  Jobs = {j1, j2}
  Orders = {o1, o2}
  Requests = {r1}
  Customers = {c1}
  Providers = {p1}
  MaxClock = 0
  ApprovalDelay = 0
  MaxFaults = 1
SPECIFICATION FairOrderSpec
PROPERTY SilenceApproves
CHECK_DEADLOCK FALSE
