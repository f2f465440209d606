SPECIFICATION MCSpec
CONSTANTS
  Minute = 2
  Limits = {0, 1, 2}
  MaxTime = 3
  MaxInFlight = 1
  MaxRequests = 4
CHECK_DEADLOCK FALSE
INVARIANT DiscussionsHavePartners
