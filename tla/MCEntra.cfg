\* Two objects; lists of up to two pages, four rows and seven requests in all.
CONSTANTS
  IncludeServicePrincipals = TRUE
  Ids = {"a", "b"}
  Pages <- MCPages
  Urls = {"u1", "u2"}
  MaxPages = 2
  MaxRows = 4
  MaxRequests = 7
SPECIFICATION Spec
INVARIANTS TypeOK ListsAreWhole OneKind MembershipsAreExact NothingLost
CHECK_DEADLOCK FALSE
