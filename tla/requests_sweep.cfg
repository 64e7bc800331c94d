CONSTANTS
  None = None
  Jobs = {j1, j2}
  Requests = {r1, r2}
  Customers = {c1}
  Providers = {p1}
  Uploads = {u1}
  MaxClock = 1
  AckLoss = TRUE
  ClosureDelay = 0
  MaxFaults = 1
SPECIFICATION FairRequestSpec
INVARIANT RequestTypeOK
PROPERTY OverdueSettles
