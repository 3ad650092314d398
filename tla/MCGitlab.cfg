\* A group, which may name itself or an unknown group as its parent, and a project
\* found in it; four rows over all lists, pages of at most two rows.
CONSTANTS
  GroupIds = {1}
  ProjectIds = {}
  Namespaces = {1, 8}
  ProjectPages <- MCProjectPages
  MemberPages <- MCMemberPages
  Headers <- MCHeaders
  PageSize = 2
  MaxPages = 2
  MaxRows = 4
  MaxRecords = 8
  MaxRequests = 8
SPECIFICATION Spec
INVARIANTS TypeOK ListsAreWhole NothingLost Uncontradicted ScopeIsKept
CHECK_DEADLOCK FALSE
