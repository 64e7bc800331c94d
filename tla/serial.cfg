CONSTANTS
  None = None
  Admin = admin
  Jobs = {j1}
  Requests = {r1}
  Orders = {o1}
  Customers = {c1, c2}
  Providers = {p1, p2}
  Uploads = {u1, u2}
  MaxClock = 3
  AckLoss = FALSE
  ClosureDelay = 1
  ApprovalDelay = 1
  MaxFaults = 2
SPECIFICATION MCSpec
INVARIANT ClosedWasNoticed
PROPERTIES
  Promise
  KeepsOrderPromise
CHECK_DEADLOCK FALSE
