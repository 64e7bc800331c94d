CONSTANTS
  None = None
  Gone = Gone
  Admin = admin
  c1 = c1
  p1 = p1
  o1 = o1
  Jobs = {j1}
  Requests = {}
  Customers = {c1}
  Providers = {p1}
  Orders = {o1}
  Parties <- MCParties
  Invoices = {1}
  Drafts <- MCDrafts
  Addressees = {None}
  Edits <- MCEdits
  StatusInputs = {"draft"}
  Dtos <- MCDtos
  Fraction = 2
  MaxCalls = 1
  MaxAttempts = 1
  MaxFaults = 0
  MaxClock = 0
SPECIFICATION MCSpec
INVARIANT ProviderMayCancel
CHECK_DEADLOCK FALSE
