CONSTANTS
  None = None
  Jobs = {j1, j2}
  Requests = {}
  Customers = {c1}
  Providers = {p1, p2}
  p1 = p1
  p2 = p2
  MaxFaults = 1
  MaxClock = 0
  Emails = {e1}
  Passwords = {w1, w2}
  Unguessable = w0
  Tokens = {1, 2, 3, 4}
  Letters = {1}
  LockAfter = 3
  MaxFailures = 5
  Applicants = {c1}
  MaxApplications = 2
  Reviews = {1, 2}
  Bookings = {1, 2, 3}
  BookedProvider <- MCBooked
  Ratings = {2, 5}
  Deleted = Deleted
  OwnRatings <- MCOwnRatings
  Offers = {f1}
  Withdrawn = Withdrawn
  Prices = {1, 2}
  Nothing = Nothing
SPECIFICATION MCSpec
INVARIANTS
  ServicesTypeOK
  StoredTokenLives
  ApprovedIsProvider
  RatedByAll
  
PROPERTY GuessesBounded
SYMMETRY Symmetry
CHECK_DEADLOCK FALSE
