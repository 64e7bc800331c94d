CONSTANTS
  None = None
  Jobs = {j1, j2, j3}
  Requests = {}
  Customers = {}
  Providers = {}
  MaxClock = 0
  MaxFaults = 0
SPECIFICATION ArrivalSpec
PROPERTY NoPrematureRedirect
CHECK_DEADLOCK FALSE
