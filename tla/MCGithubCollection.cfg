\* Two organizations that may have one id, one user, one repository and one
\* team, each described in two or three ways; four rows over all lists.
CONSTANTS
  Organizations <- MCOrganizations
  OrganizationIds = {1}
  AccountRows <- MCAccountRows
  RepositoryRows <- MCRepositoryRows
  TeamRows <- MCTeamRows
  Roles = {"read", "admin"}
  MaxRows = 4
  MaxList = 2
SPECIFICATION Spec
INVARIANTS TypeOK NeverMalformed NothingLost Uncontradicted
CHECK_DEADLOCK FALSE
