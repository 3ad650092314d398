\* Two configured names that answer with the same organization; no rows.
CONSTANTS
  Organizations <- MCOrganizations
  OrganizationIds = {1}
  AccountRows <- MCAccountRows
  RepositoryRows <- MCRepositoryRows
  TeamRows <- MCTeamRows
  Roles = {"read", "admin"}
  MaxRows = 1
  MaxList = 1
SPECIFICATION Spec
INVARIANT OrganizationsAgree
CHECK_DEADLOCK FALSE
