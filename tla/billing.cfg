CONSTANTS
  None = None
  Gone = Gone
  Admin = admin
  c1 = c1
  p1 = p1
  o1 = o1
  Jobs = {j1, j2}
  Requests = {}
  Customers = {c1}
  Providers = {p1}
  Orders = {o1}
  Parties <- MCParties
  Invoices = {1, 2, 3}
  Drafts <- MCDrafts
  Addressees = {None}
  Edits <- MCEdits
  StatusInputs = {"draft"}
  Dtos <- MCDtos
  Fraction = 2
  MaxAttempts = 2
  MaxCalls = 4
  MaxFaults = 1
  MaxClock = 0
SPECIFICATION MCSpec
INVARIANTS
  InvoiceTypeOK
  Contiguous
  LinkedInvoice
  SerialAmounts
PROPERTIES
  NumberingEnds
  KeepsBooks
CHECK_DEADLOCK FALSE
