\* Immediate answers and a rate limit without headers: the wait alone decides.
CONSTANTS
  NLists = 2
  PageSize = 2
  MaxPages = 2
  MaxRows = 3
  MaxRequests = 5
  Durations = {0}
  Headers <- MCHeaders
  Deadline = 55
SPECIFICATION Spec
INVARIANT PreservesObservations
CHECK_DEADLOCK FALSE
