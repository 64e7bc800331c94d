CONSTANTS
  None = None
  Jobs = {j1, j2, j3}
  Requests = {}
  Customers = {}
  Providers = {}
  Notes = {n1, n2}
  Streams = {s1, s2}
  MaxWire = 2
  PageSize = 1
  MaxRows = 2
  MaxCalls = 2
  Threads = {t1, t2}
  MaxTexts = 2
  MaxClock = 0
  MaxFaults = 1
SPECIFICATION MCSpec
SYMMETRY Symmetry
INVARIANTS
  BadgeNotAbove
  StreamIsLive
  OneByOneReadIsRead
  SignedInIsShown
  FormsFit
  TakenOnce
  ShownIsAsked
  ButtonsWork
  DeskFollowsThread
CHECK_DEADLOCK FALSE
