-------------------------- MODULE GithubCollection --------------------------
(***************************************************************************)
(* GithubProvider::collect and Collection: the traversal of the configured *)
(* organizations and the records it keeps.                                 *)
(*                                                                         *)
(* Nothing is transactional: GitHub changes while it is read, so any list  *)
(* may hold any rows, the same entity may be described differently in two  *)
(* of them, and a list may fail half way.  GithubClient models how a list  *)
(* is read; here it is its outcome.  The rows of a list are handled one    *)
(* step each.                                                              *)
(***************************************************************************)
EXTENDS Naturals, Sequences

CONSTANTS
  Organizations,   \* the configured names, in order
  OrganizationIds, \* native ids an organization may turn out to have
  AccountRows,     \* rows of a list of users
  RepositoryRows,  \* rows of a list of repositories
  TeamRows,        \* rows of a list of teams
  Roles,           \* results of repository_role other than "unknown"
  MaxRows,         \* MAX_ROWS
  MaxList          \* bound: rows of one list

\* A field that field(), native_id() or safe_segment() refuses; an id of 0 is
\* refused as well.
Bad == "bad"

ASSUME GithubCollectionAssumption ==
  /\ Organizations \in Seq(STRING)
  /\ OrganizationIds \subseteq Nat \ {0}
  /\ AccountRows \subseteq [id : Nat, login : STRING, type : STRING, role : Roles \cup {"unknown"}]
  /\ RepositoryRows \subseteq [id : Nat, owner : STRING, name : STRING]
  /\ TeamRows \subseteq [id : Nat, slug : STRING, name : STRING]
  /\ Roles \subseteq STRING
  /\ MaxRows \in Nat /\ MaxList \in Nat

VARIABLES
  \* collect
  stage,        \* the list being read, or "organizations", "permission", an end
  fetched,      \* the list of this stage has been read
  orgs,         \* the organizations not yet done
  org,          \* the one in progress: its name and its key
  teams,        \* rows of the teams list not yet handled
  team,         \* the team in progress
  items,        \* rows of the inner list not yet handled
  repositories, \* repositories whose collaborators are to be read
  repository,   \* the one whose collaborators are being read
  rows,         \* Budget.rows
  spent,        \* Budget.requests has reached MAX_REQUESTS
  \* Collection
  accounts, resources, groups, memberships, grants, teamMetadata,
  blockedAccounts, blockedResources, blockedGroups, blockedGrants,
  complete,     \* snapshot.complete
  success,
  seen          \* history: every row handled, and the list it came from

walk   == <<orgs, org, teams, team, items, repositories, repository, rows, spent>>
people == <<accounts, blockedAccounts>>
things == <<resources, blockedResources>>
sets   == <<groups, teamMetadata, blockedGroups>>
claims == <<memberships, grants, blockedGrants>>
vars   == <<stage, fetched, walk, people, things, sets, claims, complete,
            success, seen>>

-----------------------------------------------------------------------------
OrganizationKey(id) == <<"organization", id>>
RepositoryKey(id)   == <<"repository", id>>
TeamKey(id)         == <<"team", id>>
AccountKey(id)      == <<"account", id>>

Nobody == <<"none", 0>>

Put(f, x, v) == [y \in DOMAIN f \cup {x} |-> IF y = x THEN v ELSE f[y]]

Drop(f, x) == [y \in DOMAIN f \ {x} |-> f[y]]

Empty == [x \in {} |-> x]

Init ==
  /\ stage = "organizations" /\ fetched = FALSE
  /\ orgs = Organizations /\ org = [name |-> "", key |-> Nobody]
  /\ teams = <<>> /\ team = [key |-> Nobody, slug |-> ""] /\ items = <<>>
  /\ repositories = {} /\ repository = Nobody
  /\ rows = 0 /\ spent = FALSE
  /\ accounts = Empty /\ resources = Empty /\ groups = Empty
  /\ memberships = {} /\ grants = Empty /\ teamMetadata = Empty
  /\ blockedAccounts = {} /\ blockedResources = {} /\ blockedGroups = {}
  /\ blockedGrants = {}
  /\ complete = TRUE /\ success = FALSE
  /\ seen = {}

-----------------------------------------------------------------------------
(***************************************************************************)
(* Collection: what a row does to the records.                             *)
(***************************************************************************)
\* "nameless" rows leave no trace, "refused" ones block their entity for the
\* rest of the collection, whatever later rows say of it.
AccountVerdict(row) ==
  LET key == AccountKey(row.id)
      conflict == /\ key \in DOMAIN accounts
                  /\ \/ accounts[key].login # row.login
                     \/ /\ "absent" \notin {accounts[key].type, row.type}
                        /\ accounts[key].type # row.type
  IN IF row.id = 0 THEN "nameless"
     ELSE IF key \in blockedAccounts THEN "blocked"
     ELSE IF Bad \in {row.login, row.type} \/ conflict THEN "refused"
     ELSE "accepted"

\* A type that is left out is no contrary claim, and does not erase one.
Refined(row) ==
  LET key == AccountKey(row.id) IN
  [ login |-> row.login,
    type  |-> IF row.type = "absent" /\ key \in DOMAIN accounts
              THEN accounts[key].type ELSE row.type ]

Account(row) ==
  LET key == AccountKey(row.id) IN
  \/ /\ AccountVerdict(row) = "accepted"
     /\ accounts' = Put(accounts, key, Refined(row)) /\ UNCHANGED blockedAccounts
  \/ /\ AccountVerdict(row) = "refused"
     /\ accounts' = Drop(accounts, key)
     /\ blockedAccounts' = blockedAccounts \cup {key}
  \/ AccountVerdict(row) \in {"nameless", "blocked"} /\ UNCHANGED people

RepositoryVerdict(row) ==
  LET key == RepositoryKey(row.id)
      conflict == key \in DOMAIN resources
                    /\ resources[key].name # <<row.owner, row.name>>
  IN IF row.id = 0 THEN "nameless"
     ELSE IF key \in blockedResources THEN "blocked"
     ELSE IF row.owner = Bad \/ conflict THEN "refused"
     ELSE "accepted"

\* A repository of the organization in progress gets it as its parent.
Repository(row) ==
  LET key == RepositoryKey(row.id)
      old == IF key \in DOMAIN resources THEN resources[key].parent ELSE Nobody
      parent == IF row.owner = org.name THEN org.key ELSE old
  IN \/ /\ RepositoryVerdict(row) = "accepted"
        /\ resources' = Put(resources, key,
                            [name |-> <<row.owner, row.name>>, parent |-> parent])
        /\ UNCHANGED blockedResources
     \/ /\ RepositoryVerdict(row) = "refused"
        /\ resources' = Drop(resources, key)
        /\ blockedResources' = blockedResources \cup {key}
     \/ RepositoryVerdict(row) \in {"nameless", "blocked"} /\ UNCHANGED things

Metadata(row) == <<org.name, row.slug, row.name>>

\* "repeated": the same metadata again, which need no second traversal.
TeamVerdict(row) ==
  LET key == TeamKey(row.id) IN
  IF row.id = 0 THEN "nameless"
  ELSE IF key \in blockedGroups THEN "blocked"
  ELSE IF Bad \in {row.slug, row.name} THEN "refused"
  ELSE IF key \notin DOMAIN teamMetadata THEN "accepted"
  ELSE IF teamMetadata[key] = Metadata(row) THEN "repeated" ELSE "refused"

Team(row) ==
  LET key == TeamKey(row.id) IN
  \/ /\ TeamVerdict(row) = "accepted"
     /\ teamMetadata' = Put(teamMetadata, key, Metadata(row))
     /\ groups' = Put(groups, key, <<org.name, row.name>>)
     /\ UNCHANGED blockedGroups
  \/ /\ TeamVerdict(row) = "refused"
     /\ groups' = Drop(groups, key)
     /\ blockedGroups' = blockedGroups \cup {key}
     /\ UNCHANGED teamMetadata
  \/ TeamVerdict(row) \in {"nameless", "blocked", "repeated"} /\ UNCHANGED sets

\* One role per subject, resource and evidence method; a second one removes the
\* first and blocks the claim.
Conflicting(claim, role) ==
  claim \notin blockedGrants /\ claim \in DOMAIN grants /\ grants[claim] # role

\* Mutant of Grant: a conflict is forgotten, and a third row decides it.
GrantAgain(claim, role) ==
  /\ grants' = IF Conflicting(claim, role) THEN Drop(grants, claim)
               ELSE IF claim \in DOMAIN grants THEN grants ELSE Put(grants, claim, role)
  /\ UNCHANGED blockedGrants

Grant(claim, role) ==
  IF Conflicting(claim, role)
  THEN /\ grants' = Drop(grants, claim)
       /\ blockedGrants' = blockedGrants \cup {claim}
  ELSE /\ grants' = IF claim \in blockedGrants \cup DOMAIN grants THEN grants
                    ELSE Put(grants, claim, role)
       /\ UNCHANGED blockedGrants

\* Mutant of Failed: blocking an entity leaves the snapshot complete.
FailedNameless(verdict) == verdict = "nameless"

Failed(verdict) == verdict \in {"nameless", "refused"}

See(list, about, row) == seen' = seen \cup {[list |-> list, about |-> about, row |-> row]}

-----------------------------------------------------------------------------
(***************************************************************************)
(* collect.                                                                *)
(***************************************************************************)
OutOfBudget == spent \/ rows >= MaxRows

\* Any request may be the last the budget allows.
Spend == spent' \in {spent, TRUE}

NoMoreOrganizations ==
  /\ stage = "organizations" /\ orgs = <<>>
  /\ stage' = "finish"
  /\ UNCHANGED <<fetched, walk, people, things, sets, claims, complete, success, seen>>

BudgetEndsOrganizations ==
  /\ stage = "organizations" /\ orgs # <<>> /\ OutOfBudget
  /\ stage' = "finish"
  /\ complete' = FALSE
  /\ UNCHANGED <<fetched, walk, people, things, sets, claims, success, seen>>

\* The organization is refused, or has no usable id.
OrganizationFails ==
  /\ stage = "organizations" /\ orgs # <<>> /\ ~OutOfBudget
  /\ orgs' = Tail(orgs)
  /\ complete' = FALSE
  /\ Spend
  /\ UNCHANGED <<stage, fetched, org, teams, team, items, repositories, repository,
                 rows, people, things, sets, claims, success, seen>>

Organization(id) ==
  /\ stage = "organizations" /\ orgs # <<>> /\ ~OutOfBudget
  /\ LET key == OrganizationKey(id) IN
       /\ org' = [name |-> Head(orgs), key |-> key]
       /\ resources' = Put(resources, key, [name |-> <<Head(orgs)>>, parent |-> Nobody])
       /\ groups' = Put(groups, key, <<Head(orgs)>>)
       /\ See("organizations", key, [id |-> id, name |-> Head(orgs)])
  /\ orgs' = Tail(orgs)
  /\ success' = TRUE
  /\ stage' = "members" /\ fetched' = FALSE
  /\ repositories' = {}
  /\ Spend
  /\ UNCHANGED <<teams, team, items, repository, rows, people, blockedResources,
                 teamMetadata, blockedGroups, claims, complete>>

\* Mutant of Fits: each list has the whole budget.
FitsAlone(n) == n <= MaxRows

Fits(n) == n <= MaxRows - rows

\* A list of users, repositories or teams, whole or up to an error.
Rows(list) ==
  CASE list \in {"members", "admins", "team members", "collaborators"} -> AccountRows
    [] list \in {"repositories", "team repositories"}                  -> RepositoryRows
    [] list = "teams"                                                  -> TeamRows

Lists == {"members", "admins", "repositories", "teams", "team members",
          "team repositories", "collaborators"}

Fetch ==
  /\ stage \in Lists /\ ~fetched
  /\ stage = "collaborators" => repository # Nobody
  /\ \E n \in 0 .. MaxList : \E list \in [1 .. n -> Rows(stage)], error \in BOOLEAN :
       /\ Fits(n)
       /\ spent => n = 0 /\ error
       /\ IF stage = "teams" THEN teams' = list /\ UNCHANGED items
                             ELSE items' = list /\ UNCHANGED teams
       /\ rows' = rows + n
       /\ complete' = (complete /\ ~error)
       /\ success' = (success \/ ~error \/ n > 0)
  /\ fetched' = TRUE
  /\ Spend
  /\ UNCHANGED <<stage, orgs, org, team, repositories, repository, people, things,
                 sets, claims, seen>>

\* A row of members, read twice: once for each role.
Member ==
  /\ stage \in {"members", "admins"} /\ fetched /\ items # <<>>
  /\ LET row == Head(items)
         key == AccountKey(row.id)
         claim == <<"organization_role", key, org.key>>
         role == IF stage = "admins" THEN "admin" ELSE "member"
     IN
       /\ Account(row)
       /\ IF AccountVerdict(row) = "accepted"
          THEN /\ memberships' = memberships \cup {<<key, org.key>>}
               /\ Grant(claim, role)
               /\ complete' = (complete /\ ~Conflicting(claim, role))
          ELSE /\ complete' = (complete /\ ~Failed(AccountVerdict(row)))
               /\ UNCHANGED claims
       /\ See(stage, org.key, row)
  /\ items' = Tail(items)
  /\ UNCHANGED <<stage, fetched, orgs, org, teams, team, repositories, repository,
                 rows, spent, things, sets, success>>

OrganizationRepository ==
  /\ stage = "repositories" /\ fetched /\ items # <<>>
  /\ LET row == Head(items) IN
       /\ Repository(row)
       /\ repositories' = IF RepositoryVerdict(row) = "accepted"
                          THEN repositories \cup {RepositoryKey(row.id)} ELSE repositories
       /\ complete' = (complete /\ ~Failed(RepositoryVerdict(row)))
       /\ See(stage, org.key, row)
  /\ items' = Tail(items)
  /\ UNCHANGED <<stage, fetched, orgs, org, teams, team, repository, rows, spent,
                 people, sets, claims, success>>

\* An accepted team is traversed before the next one is looked at.
TeamRow ==
  /\ stage = "teams" /\ fetched /\ teams # <<>>
  /\ LET row == Head(teams) IN
       /\ Team(row)
       /\ complete' = (complete /\ ~Failed(TeamVerdict(row)))
       /\ See(stage, org.key, row)
       /\ IF TeamVerdict(row) = "accepted"
          THEN /\ team' = [key |-> TeamKey(row.id), slug |-> row.slug]
               /\ stage' = "team members" /\ fetched' = FALSE
          ELSE UNCHANGED <<team, stage, fetched>>
  /\ teams' = Tail(teams)
  /\ UNCHANGED <<orgs, org, items, repositories, repository, rows, spent, people,
                 things, claims, success>>

TeamMember ==
  /\ stage = "team members" /\ fetched /\ items # <<>>
  /\ LET row == Head(items) IN
       /\ Account(row)
       /\ memberships' = IF AccountVerdict(row) = "accepted"
                         THEN memberships \cup {<<AccountKey(row.id), team.key>>}
                         ELSE memberships
       /\ complete' = (complete /\ ~Failed(AccountVerdict(row)))
       /\ See(stage, team.key, row)
  /\ items' = Tail(items)
  /\ UNCHANGED <<stage, fetched, orgs, org, teams, team, repositories, repository,
                 rows, spent, things, sets, grants, blockedGrants, success>>

\* An accepted repository stays at the head of the list until its permissions
\* have been asked for.
TeamRepository ==
  /\ stage = "team repositories" /\ fetched /\ items # <<>>
  /\ LET row == Head(items) IN
       /\ Repository(row)
       /\ complete' = (complete /\ ~Failed(RepositoryVerdict(row)))
       /\ See(stage, team.key, row)
       /\ IF RepositoryVerdict(row) = "accepted"
          THEN stage' = "permission" /\ UNCHANGED items
          ELSE items' = Tail(items) /\ UNCHANGED stage
  /\ UNCHANGED <<fetched, orgs, org, teams, team, repositories, repository, rows,
                 spent, people, sets, claims, success>>

\* A lookup that fails, or answers for another repository, leaves the relation
\* with an unknown role.
Permission ==
  /\ stage = "permission"
  /\ \E role \in Roles \cup {"unknown"}, error \in BOOLEAN :
       /\ error => role = "unknown"
       /\ spent => error
       /\ LET key == RepositoryKey(Head(items).id)
              claim == <<"team_repository", team.key, key>>
          IN
            /\ Grant(claim, role)
            /\ complete' = (complete /\ ~error /\ ~Conflicting(claim, role))
            /\ repositories' = repositories \cup {key}
            /\ See(stage, team.key, [id |-> Head(items).id, role |-> role])
  /\ items' = Tail(items)
  /\ stage' = "team repositories"
  /\ Spend
  /\ UNCHANGED <<fetched, orgs, org, teams, team, repository, rows, people, things,
                 sets, memberships, success>>

\* The loop over the repositories of this organization.
NextRepository(key) ==
  /\ stage = "collaborators" /\ repository = Nobody
  /\ key \in repositories
  /\ IF OutOfBudget
     THEN complete' = FALSE /\ repositories' = {} /\ UNCHANGED repository
     ELSE /\ repository' = key
          /\ repositories' = repositories \ {key}
          /\ UNCHANGED complete
  /\ UNCHANGED <<stage, fetched, orgs, org, teams, team, items, rows, spent, people,
                 things, sets, claims, success, seen>>

Collaborator ==
  /\ stage = "collaborators" /\ fetched /\ items # <<>>
  /\ LET row == Head(items)
         key == AccountKey(row.id)
         claim == <<"collaborator", key, repository>>
     IN
       /\ Account(row)
       /\ IF AccountVerdict(row) = "accepted"
          THEN /\ Grant(claim, row.role)
               /\ complete' = (complete /\ ~Conflicting(claim, row.role))
          ELSE /\ complete' = (complete /\ ~Failed(AccountVerdict(row)))
               /\ UNCHANGED <<grants, blockedGrants>>
       /\ See(stage, repository, row)
  /\ items' = Tail(items)
  /\ UNCHANGED <<stage, fetched, orgs, org, teams, team, repositories, repository,
                 rows, spent, things, sets, memberships, success>>

\* The end of a list, and where collect goes from there.
Step(from, to) ==
  /\ stage = from /\ fetched /\ items = <<>>
  /\ from = "teams" => teams = <<>>
  /\ stage' = to
  /\ fetched' = (from = "team repositories")   \* back in the teams list
  /\ UNCHANGED <<walk, people, things, sets, claims, complete, success, seen>>

RepositoryDone ==
  /\ stage = "collaborators" /\ fetched /\ items = <<>>
  /\ repository' = Nobody /\ fetched' = FALSE
  /\ UNCHANGED <<stage, orgs, org, teams, team, items, repositories, rows, spent,
                 people, things, sets, claims, complete, success, seen>>

OrganizationDone ==
  /\ stage = "collaborators" /\ repository = Nobody /\ repositories = {}
  /\ stage' = "organizations"
  /\ UNCHANGED <<fetched, walk, people, things, sets, claims, complete, success, seen>>

-----------------------------------------------------------------------------
(***************************************************************************)
(* finish.                                                                 *)
(***************************************************************************)
\* Mutant of ValidSubject: accounts are not looked up.
ValidGroup(key) == key \notin blockedGroups

ValidSubject(key) == key \notin blockedAccounts \cup blockedGroups

Memberships ==
  {m \in memberships : ValidSubject(m[1]) /\ m[2] \notin blockedGroups}

Grants ==
  {c \in DOMAIN grants : ValidSubject(c[2]) /\ c[3] \notin blockedResources}

\* validate_snapshot (the SDK's): every reference has its record.
Closed ==
  /\ \A m \in Memberships :
       m[1] \in DOMAIN accounts \cup DOMAIN groups /\ m[2] \in DOMAIN groups
  /\ \A c \in Grants :
       c[2] \in DOMAIN accounts \cup DOMAIN groups /\ c[3] \in DOMAIN resources
  /\ \A r \in DOMAIN resources :
       resources[r].parent \in {Nobody} \cup DOMAIN resources

Finish ==
  /\ stage = "finish"
  /\ stage' = IF ~success THEN "failed" ELSE IF Closed THEN "done" ELSE "malformed"
  /\ UNCHANGED <<fetched, walk, people, things, sets, claims, complete, success, seen>>

Next ==
  \/ NoMoreOrganizations \/ BudgetEndsOrganizations \/ OrganizationFails
  \/ \E id \in OrganizationIds : Organization(id)
  \/ Fetch
  \/ Member \/ OrganizationRepository
  \/ TeamRow \/ TeamMember \/ TeamRepository \/ Permission
  \/ \E key \in repositories : NextRepository(key)
  \/ Collaborator
  \/ Step("members", "admins") \/ Step("admins", "repositories")
  \/ Step("repositories", "teams") \/ Step("team members", "team repositories")
  \/ Step("team repositories", "teams") \/ Step("teams", "collaborators")
  \/ RepositoryDone \/ OrganizationDone
  \/ Finish

Spec == Init /\ [][Next]_vars

-----------------------------------------------------------------------------
(***************************************************************************)
(* Properties.                                                             *)
(***************************************************************************)
AccountLists == {"members", "admins", "team members", "collaborators"}

AccountKeys == {AccountKey(row.id) : row \in AccountRows}

ResourceKeys == {RepositoryKey(row.id) : row \in RepositoryRows}
                  \cup {OrganizationKey(id) : id \in OrganizationIds}

GroupKeys == {TeamKey(row.id) : row \in TeamRows}
               \cup {OrganizationKey(id) : id \in OrganizationIds}

Stages == Lists \cup {"organizations", "permission", "finish", "done", "failed",
                      "malformed"}

TypeOK ==
  /\ stage \in Stages /\ fetched \in BOOLEAN
  /\ teams \in Seq(TeamRows)
  /\ items \in Seq(AccountRows) \cup Seq(RepositoryRows)
  /\ repositories \subseteq ResourceKeys /\ repository \in ResourceKeys \cup {Nobody}
  /\ rows \in 0 .. MaxRows /\ spent \in BOOLEAN
  /\ DOMAIN accounts \subseteq AccountKeys /\ blockedAccounts \subseteq AccountKeys
  /\ DOMAIN resources \subseteq ResourceKeys /\ blockedResources \subseteq ResourceKeys
  /\ DOMAIN groups \subseteq GroupKeys /\ blockedGroups \subseteq GroupKeys
  /\ memberships \subseteq AccountKeys \X GroupKeys
  /\ complete \in BOOLEAN /\ success \in BOOLEAN

\* "Final snapshots pass the shared SDK validator" (docs/github.md 35): whatever
\* is blocked after claims about it were recorded, finish leaves no claim
\* without its records (records.rs 268-290), so no discovery is lost to it.
NeverMalformed == stage # "malformed"

\* What a row claims: a grant with its role, or nothing.
ClaimOf(s) ==
  CASE s.list = "members" ->
         {<<<<"organization_role", AccountKey(s.row.id), s.about>>, "member">>}
    [] s.list = "admins" ->
         {<<<<"organization_role", AccountKey(s.row.id), s.about>>, "admin">>}
    [] s.list = "permission" ->
         {<<<<"team_repository", s.about, RepositoryKey(s.row.id)>>, s.row.role>>}
    [] s.list = "collaborators" ->
         {<<<<"collaborator", AccountKey(s.row.id), s.about>>, s.row.role>>}
    [] OTHER -> {}

\* complete=true loses nothing: every row of every list is in the snapshot with
\* its membership and its role (each early return of account, repository, team
\* and grant has called fail, records.rs 75-267).
NothingLost ==
  stage = "done" /\ complete =>
    \A s \in seen :
      /\ s.list \in AccountLists => AccountKey(s.row.id) \in DOMAIN accounts
      /\ s.list \in {"members", "admins", "team members"} =>
           <<AccountKey(s.row.id), s.about>> \in Memberships
      /\ s.list \in {"repositories", "team repositories"} =>
           RepositoryKey(s.row.id) \in DOMAIN resources
      /\ s.list = "teams" => TeamKey(s.row.id) \in DOMAIN groups
      /\ \A c \in ClaimOf(s) : c[1] \in Grants /\ grants[c[1]] = c[2]

\* No record of the snapshot is contradicted by any row that was read, before or
\* after the record was made and whichever row came first: "Conflicting roles for
\* the same subject, resource and API evidence method exclude" the claim
\* (docs/github.md 43), and likewise for accounts, repositories and teams.
Uncontradicted ==
  stage = "done" =>
    \A s \in seen :
      /\ s.list \in AccountLists /\ AccountKey(s.row.id) \in DOMAIN accounts =>
           LET account == accounts[AccountKey(s.row.id)] IN
             s.row.login = account.login /\ s.row.type \in {"absent", account.type}
      /\ s.list \in {"repositories", "team repositories"}
           /\ RepositoryKey(s.row.id) \in DOMAIN resources =>
             resources[RepositoryKey(s.row.id)].name = <<s.row.owner, s.row.name>>
      /\ s.list = "teams" /\ TeamKey(s.row.id) \in DOMAIN groups =>
             groups[TeamKey(s.row.id)][2] = s.row.name
      /\ \A c \in ClaimOf(s) : c[1] \in Grants => grants[c[1]] = c[2]

\* "Conflicting observations for the same native entity" are excluded, and
\* "malformed or conflicting records" leave complete=false (lib.rs 106 and
\* docs/github.md 35).  An organization is the one entity whose record is
\* inserted over an earlier one without a comparison (discovery.rs 32-47): of two
\* configured names that answer with one id, as around a rename, the first
\* silently disappears.
OrganizationsAgree ==
  stage = "done" /\ complete =>
    \A s \in seen :
      s.list = "organizations" => resources[s.about].name = <<s.row.name>>

=============================================================================
