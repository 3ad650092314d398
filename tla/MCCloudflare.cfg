\* Lists of up to two pages of two rows, six rows and eight requests in all.
CONSTANTS
  MemberIds = {"a", "b"}
  ZoneIds = {"z"}
  GroupIds = {"g", "h"}
  Pages <- MCPages
  Infos <- MCInfos
  PageSize = 2
  MaxPages = 2
  MaxRows = 6
  MaxRequests = 8
SPECIFICATION Spec
INVARIANTS TypeOK ListsAreWhole AccessIsExact NothingLost
CHECK_DEADLOCK FALSE
