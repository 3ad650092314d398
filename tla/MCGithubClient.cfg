\* Two lists of up to two pages of two rows, five requests and three rows for
\* both: every budget runs out in some behaviour, in each list.
CONSTANTS
  NLists = 2
  PageSize = 2
  MaxPages = 2
  MaxRows = 3
  MaxRequests = 5
  Durations = {0, 15}
  Headers <- MCHeaders
  Deadline = 55
SPECIFICATION Spec
INVARIANTS TypeOK ListsAreFaithful BudgetsAreKept
CHECK_DEADLOCK FALSE
