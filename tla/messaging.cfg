CONSTANTS
  None = None
  Jobs = {j1, j2}
  Requests = {}
  Customers = {}
  Providers = {}
  Peers = {me, peer}
  Watchers = {me}
  Window = 1
  Limit = 1
  Grace = 0
  MaxMessages = 2
  MaxClock = 1
  MaxFaults = 1
SPECIFICATION FairMCSpec
INVARIANTS
  RateLimited
  ShownOnce
PROPERTIES
  ArchivedStays
  WidgetBackInRoom
CHECK_DEADLOCK FALSE
