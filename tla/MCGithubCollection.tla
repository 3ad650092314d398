------------------------- MODULE MCGithubCollection -------------------------
(***************************************************************************)
(* GithubCollection on a small instance.                                   *)
(***************************************************************************)
EXTENDS GithubCollection

MCOrganizations == <<"acme", "other">>

User(id, login, type, role) ==
  [id |-> id, login |-> login, type |-> type, role |-> role]

\* One user as GitHub may describe it, and a row without an id.
MCAccountRows ==
  { User(1, "ann", "absent", "read"), User(1, "ann", "User", "admin"),
    User(1, "anna", "User", "read"), User(0, "ann", "User", "read") }

MCRepositoryRows ==
  { [id |-> 1, owner |-> "acme", name |-> "app"],
    [id |-> 1, owner |-> "other", name |-> "app"],
    [id |-> 1, owner |-> Bad, name |-> ""] }

MCTeamRows ==
  { [id |-> 1, slug |-> "dev", name |-> "Dev"],
    [id |-> 1, slug |-> Bad, name |-> "Dev"] }

=============================================================================
