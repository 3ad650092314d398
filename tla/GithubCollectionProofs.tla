----------------------- MODULE GithubCollectionProofs -----------------------
(***************************************************************************)
(* Theorems about GithubCollection: whatever the lists of a discovery      *)
(* hold, in whichever order rows disagree and wherever a list or a budget  *)
(* ends, the snapshot is well formed, no record of it is contradicted, and *)
(* it loses nothing if it calls itself complete.                           *)
(* Types rest on the rows in hand being rows of the list that is read.     *)
(*                                                                         *)
(* One invariant for each kind of record relates it to the rows seen; the  *)
(* last, for claims, rests on the three others.                            *)
(***************************************************************************)
EXTENDS GithubCollection, TLAPS

RepositoryLists == {"repositories", "team repositories"}

LEMMA KeysDiffer ==
  /\ \A a, b : AccountKey(a) = AccountKey(b) <=> a = b
  /\ \A a, b : RepositoryKey(a) = RepositoryKey(b) <=> a = b
  /\ \A a, b : TeamKey(a) = TeamKey(b) <=> a = b
  /\ \A a, b : OrganizationKey(a) = OrganizationKey(b) <=> a = b
  /\ \A a, b : /\ AccountKey(a) # TeamKey(b) /\ AccountKey(a) # OrganizationKey(b)
               /\ TeamKey(a) # OrganizationKey(b) /\ RepositoryKey(a) # OrganizationKey(b)
  /\ \A a : OrganizationKey(a) # Nobody
BY DEF AccountKey, RepositoryKey, TeamKey, OrganizationKey, Nobody

\* A snapshot that is not complete never becomes complete again.
LEMMA CompleteEnds == [Next]_vars => (complete' => complete)
BY DEF Next, vars, NoMoreOrganizations, BudgetEndsOrganizations, OrganizationFails,
   Organization, Fetch, Member, OrganizationRepository, TeamRow, TeamMember, TeamRepository,
   Permission, NextRepository, Collaborator, Step, RepositoryDone, OrganizationDone, Finish

-----------------------------------------------------------------------------
(***************************************************************************)
(* Accounts.                                                               *)
(***************************************************************************)
\* Every account that a row has spoken of is recorded or blocked, never both; what is
\* recorded is what all rows say.
KnownAccount == DOMAIN accounts \cup blockedAccounts

AccountSeen(s) ==
  s.list \in AccountLists =>
    /\ s.row.id = 0 \/ AccountKey(s.row.id) \in KnownAccount
    /\ AccountKey(s.row.id) \in DOMAIN accounts =>
         /\ s.row.login = accounts[AccountKey(s.row.id)].login
         /\ s.row.type \in {"absent", accounts[AccountKey(s.row.id)].type}
    /\ complete => s.row.id # 0

AccountsAgree ==
  /\ DOMAIN accounts \cap blockedAccounts = {}
  /\ AccountKey(0) \notin KnownAccount
  /\ complete => blockedAccounts = {}
  /\ \A s \in seen : AccountSeen(s)

\* What Account does with a row.
LEMMA AccountEffect ==
  ASSUME AccountsAgree, NEW row, Account(row)
  PROVE  LET key == AccountKey(row.id) IN
         /\ (DOMAIN accounts \cap blockedAccounts = {})' /\ AccountKey(0) \notin KnownAccount'
         /\ blockedAccounts \subseteq blockedAccounts' /\ KnownAccount \subseteq KnownAccount'
         /\ \A k \in DOMAIN accounts' \ {key} : k \in DOMAIN accounts /\ accounts'[k] = accounts[k]
         /\ key \in DOMAIN accounts' =>
              /\ AccountVerdict(row) = "accepted"
              /\ row.login = accounts'[key].login
              /\ row.type \in {"absent", accounts'[key].type}
              /\ key \in DOMAIN accounts =>
                   /\ accounts[key].login = accounts'[key].login
                   /\ accounts[key].type \in {"absent", accounts'[key].type}
         /\ AccountVerdict(row) = "accepted" => key \in DOMAIN accounts' /\ row.id # 0
         /\ AccountVerdict(row) # "accepted" => row.id = 0 \/ key \in blockedAccounts'
         /\ ~Failed(AccountVerdict(row)) => row.id # 0 /\ blockedAccounts' = blockedAccounts
<1> DEFINE key == AccountKey(row.id)
<1>0. /\ row.id = 0 => AccountVerdict(row) = "nameless"
      /\ row.id # 0 /\ key \in blockedAccounts => AccountVerdict(row) = "blocked"
      /\ row.id # 0 /\ key \notin blockedAccounts =>
           /\ AccountVerdict(row) \in {"refused", "accepted"}
           /\ AccountVerdict(row) = "accepted" /\ key \in DOMAIN accounts =>
                /\ accounts[key].login = row.login
                /\ "absent" \notin {accounts[key].type, row.type} =>
                     accounts[key].type = row.type
  BY DEF AccountVerdict
<1>1. CASE AccountVerdict(row) = "accepted"
  <2>1. accounts' = Put(accounts, key, Refined(row)) /\ blockedAccounts' = blockedAccounts
    BY <1>1 DEF Account
  <2>2. /\ Refined(row).login = row.login
        /\ Refined(row).type = IF row.type = "absent" /\ key \in DOMAIN accounts
                               THEN accounts[key].type ELSE row.type
    BY DEF Refined
  <2>3. DOMAIN accounts' = DOMAIN accounts \cup {key} /\ accounts'[key] = Refined(row)
        /\ \A y \in DOMAIN accounts : y # key => accounts'[y] = accounts[y]
    BY <2>1 DEF Put
  <2>4. row.id # 0 /\ key \notin blockedAccounts /\ key # AccountKey(0)
    BY <1>0, <1>1, KeysDiffer
  <2> HIDE DEF key
  <2> QED
    BY <1>0, <1>1, <2>1, <2>2, <2>3, <2>4 DEF AccountsAgree, KnownAccount, Failed, key
<1>2. CASE AccountVerdict(row) = "refused"
  <2>1. accounts' = Drop(accounts, key) /\ blockedAccounts' = blockedAccounts \cup {key}
    BY <1>2 DEF Account
  <2>2. DOMAIN accounts' = DOMAIN accounts \ {key}
        /\ \A y \in DOMAIN accounts : y # key => accounts'[y] = accounts[y]
    BY <2>1 DEF Drop
  <2>3. row.id # 0 /\ key # AccountKey(0)
    BY <1>0, <1>2, KeysDiffer
  <2> QED
    BY <1>2, <2>1, <2>2, <2>3 DEF AccountsAgree, KnownAccount, Failed
<1>3. CASE AccountVerdict(row) \in {"nameless", "blocked"}
  <2>1. accounts' = accounts /\ blockedAccounts' = blockedAccounts
    BY <1>3 DEF Account, people
  <2>2. AccountVerdict(row) = "nameless" => row.id = 0
    BY <1>0, <1>3
  <2>3. AccountVerdict(row) = "blocked" => row.id # 0 /\ key \in blockedAccounts
    BY <1>0, <1>3
  <2> QED
    BY <1>3, <2>1, <2>2, <2>3 DEF AccountsAgree, KnownAccount, Failed
<1> QED
  BY <1>0, <1>1, <1>2, <1>3

LEMMA AccountsByRow ==
  ASSUME AccountsAgree, NEW row, NEW list, NEW about, Account(row), See(list, about, row),
         complete' => complete /\ ~Failed(AccountVerdict(row))
  PROVE  AccountsAgree'
<1>1. complete' => complete /\ blockedAccounts' = {} /\ row.id # 0
  BY AccountEffect DEF AccountsAgree
<1>2. ASSUME NEW s \in seen PROVE AccountSeen(s)'
  <2> SUFFICES ASSUME s.list \in AccountLists PROVE AccountSeen(s)'
    BY DEF AccountSeen, AccountLists
  <2> DEFINE key == AccountKey(row.id)
  <2>1. CASE s.row.id = row.id
    <3>1. /\ row.id = 0 \/ key \in KnownAccount
          /\ key \in DOMAIN accounts =>
               /\ s.row.login = accounts[key].login
               /\ s.row.type \in {"absent", accounts[key].type}
      BY <2>1 DEF AccountsAgree, AccountSeen
    <3>2. key \in DOMAIN accounts' => key \in DOMAIN accounts
      BY <3>1, AccountEffect DEF KnownAccount
    <3>3. key \in DOMAIN accounts' =>
            /\ s.row.login = accounts'[key].login
            /\ s.row.type \in {"absent", accounts'[key].type}
      BY <3>1, <3>2, AccountEffect
    <3>4. row.id = 0 \/ key \in KnownAccount'
      BY <3>1, AccountEffect
    <3> QED
      BY <1>1, <2>1, <3>3, <3>4 DEF AccountSeen
  <2>2. CASE s.row.id # row.id
    <3>1. AccountKey(s.row.id) # AccountKey(row.id)
      BY <2>2, KeysDiffer
    <3> QED
      BY <1>1, <3>1, AccountEffect DEF AccountSeen, AccountsAgree
  <2> QED
    BY <2>1, <2>2
<1>3. ASSUME NEW s, s = [list |-> list, about |-> about, row |-> row] PROVE AccountSeen(s)'
  <2>1. s.row = row
    BY <1>3
  <2>2. AccountKey(row.id) \in DOMAIN accounts' \/ row.id = 0
          \/ AccountKey(row.id) \in blockedAccounts'
    BY AccountEffect
  <2> QED
    BY <1>1, <2>1, <2>2, AccountEffect DEF AccountSeen, KnownAccount
<1> QED
  BY <1>1, <1>2, <1>3, AccountEffect DEF AccountsAgree, See

LEMMA AccountsUnchanged ==
  ASSUME AccountsAgree, UNCHANGED people, complete' => complete,
         \A s \in seen' \ seen : s.list \notin AccountLists
  PROVE  AccountsAgree'
BY DEF AccountsAgree, AccountSeen, KnownAccount, people, AccountLists

LEMMA InitAccounts == Init => AccountsAgree
BY DEF Init, AccountsAgree, KnownAccount, Empty

LEMMA NextAccounts == AccountsAgree /\ [Next]_vars => AccountsAgree'
<1> SUFFICES ASSUME AccountsAgree, [Next]_vars PROVE AccountsAgree'
  OBVIOUS
<1>1. CASE Member
  <2> DEFINE row == Head(items)
             claim == <<"organization_role", AccountKey(row.id), org.key>>
             role == IF stage = "admins" THEN "admin" ELSE "member"
  <2>1. Account(row) /\ See(stage, org.key, row)
    BY <1>1 DEF Member
  <2>2. complete' => complete /\ ~Failed(AccountVerdict(row))
    <3>1. \/ AccountVerdict(row) = "accepted"
             /\ complete' = (complete /\ ~Conflicting(claim, role))
          \/ complete' = (complete /\ ~Failed(AccountVerdict(row)))
      BY <1>1 DEF Member
    <3>2. AccountVerdict(row) = "accepted" => ~Failed(AccountVerdict(row))
      BY DEF Failed
    <3> QED
      BY <3>1, <3>2
  <2> QED
    BY <2>1, <2>2, AccountsByRow
<1>2. CASE TeamMember
  BY <1>2, AccountsByRow DEF TeamMember
<1>3. CASE Collaborator
  <2> DEFINE row == Head(items)
             claim == <<"collaborator", AccountKey(row.id), repository>>
  <2>1. Account(row) /\ See(stage, repository, row)
    BY <1>3 DEF Collaborator
  <2>2. complete' => complete /\ ~Failed(AccountVerdict(row))
    <3>1. \/ AccountVerdict(row) = "accepted"
             /\ complete' = (complete /\ ~Conflicting(claim, row.role))
          \/ complete' = (complete /\ ~Failed(AccountVerdict(row)))
      BY <1>3 DEF Collaborator
    <3>2. AccountVerdict(row) = "accepted" => ~Failed(AccountVerdict(row))
      BY DEF Failed
    <3> QED
      BY <3>1, <3>2
  <2> QED
    BY <2>1, <2>2, AccountsByRow
<1>4. CASE ~(Member \/ TeamMember \/ Collaborator)
  <2>1. UNCHANGED people
    BY <1>4 DEF Next, vars, NoMoreOrganizations, BudgetEndsOrganizations, OrganizationFails,
       Organization, Fetch, OrganizationRepository, TeamRow, TeamRepository, Permission,
       NextRepository, Step, RepositoryDone, OrganizationDone, Finish
  <2>2. complete' => complete
    BY CompleteEnds
  <2>3. \/ seen' = seen
        \/ \E list, about, row : See(list, about, row) /\ list \notin AccountLists
    BY <1>4 DEF Next, vars, NoMoreOrganizations, BudgetEndsOrganizations, OrganizationFails,
       Organization, Fetch, OrganizationRepository, TeamRow, TeamRepository, Permission,
       NextRepository, Step, RepositoryDone, OrganizationDone, Finish, AccountLists
  <2>4. \A s \in seen' \ seen : s.list \notin AccountLists
    BY <2>3 DEF See
  <2> QED
    BY <2>1, <2>2, <2>4, AccountsUnchanged
<1> QED
  BY <1>1, <1>2, <1>3, <1>4

-----------------------------------------------------------------------------
(***************************************************************************)
(* Organizations and repositories.                                         *)
(***************************************************************************)
\* In the middle of an organization.
Collecting == stage \in Lists \cup {"permission"}

KnownResource == DOMAIN resources \cup blockedResources

Placed(key) == key \in DOMAIN resources /\ \E id : key = OrganizationKey(id)

RepositorySeen(s) ==
  s.list \in RepositoryLists =>
    /\ s.row.id = 0 \/ RepositoryKey(s.row.id) \in KnownResource
    /\ RepositoryKey(s.row.id) \in DOMAIN resources =>
         resources[RepositoryKey(s.row.id)].name = <<s.row.owner, s.row.name>>
    /\ complete => s.row.id # 0

\* As for accounts; organizations are never blocked, and are the only parents.
RepositoriesAgree ==
  /\ DOMAIN resources \cap blockedResources = {}
  /\ RepositoryKey(0) \notin KnownResource
  /\ \A id : OrganizationKey(id) \notin blockedResources
  /\ \A r \in DOMAIN resources : resources[r].parent = Nobody \/ Placed(resources[r].parent)
  /\ Collecting => Placed(org.key)
  /\ complete => blockedResources = {}
  /\ \A s \in seen : RepositorySeen(s)

LEMMA RepositoryEffect ==
  ASSUME RepositoriesAgree, NEW row, Repository(row)
  PROVE  LET key == RepositoryKey(row.id) IN
         /\ (DOMAIN resources \cap blockedResources = {})'
         /\ RepositoryKey(0) \notin KnownResource'
         /\ \A id : OrganizationKey(id) \notin blockedResources'
         /\ blockedResources \subseteq blockedResources' /\ KnownResource \subseteq KnownResource'
         /\ \A k \in DOMAIN resources' \ {key} :
              k \in DOMAIN resources /\ resources'[k] = resources[k]
         /\ \A k \in DOMAIN resources \ {key} : k \in DOMAIN resources'
         /\ key \in DOMAIN resources' =>
              /\ RepositoryVerdict(row) = "accepted"
              /\ resources'[key].name = <<row.owner, row.name>>
              /\ key \in DOMAIN resources => resources[key].name = <<row.owner, row.name>>
              /\ \/ resources'[key].parent \in {org.key, Nobody}
                 \/ key \in DOMAIN resources /\ resources'[key].parent = resources[key].parent
              /\ resources'[key].parent = org.key \/ row.owner # org.name
         /\ RepositoryVerdict(row) = "accepted" => key \in DOMAIN resources' /\ row.id # 0
         /\ RepositoryVerdict(row) # "accepted" => row.id = 0 \/ key \in blockedResources'
         /\ ~Failed(RepositoryVerdict(row)) =>
              row.id # 0 /\ blockedResources' = blockedResources
<1> DEFINE key == RepositoryKey(row.id)
           name == <<row.owner, row.name>>
           old == IF key \in DOMAIN resources THEN resources[key].parent ELSE Nobody
           parent == IF row.owner = org.name THEN org.key ELSE old
           record == [name |-> name, parent |-> parent]
<1>0. /\ row.id = 0 => RepositoryVerdict(row) = "nameless"
      /\ row.id # 0 /\ key \in blockedResources => RepositoryVerdict(row) = "blocked"
      /\ row.id # 0 /\ key \notin blockedResources =>
           /\ RepositoryVerdict(row) \in {"refused", "accepted"}
           /\ RepositoryVerdict(row) = "accepted" /\ key \in DOMAIN resources =>
                resources[key].name = name
  BY DEF RepositoryVerdict
<1>k. \A id : OrganizationKey(id) # key
  BY KeysDiffer
<1>1. CASE RepositoryVerdict(row) = "accepted"
  <2>1. resources' = Put(resources, key, record) /\ blockedResources' = blockedResources
    BY <1>1 DEF Repository
  <2>2. record.name = name /\ record.parent = parent
    OBVIOUS
  <2> HIDE DEF record
  <2>3. DOMAIN resources' = DOMAIN resources \cup {key} /\ resources'[key] = record
        /\ \A y \in DOMAIN resources : y # key => resources'[y] = resources[y]
    BY <2>1 DEF Put
  <2>4. row.id # 0 /\ key \notin blockedResources /\ key # RepositoryKey(0)
    BY <1>0, <1>1, KeysDiffer
  <2>5. /\ \/ parent \in {org.key, Nobody}
           \/ key \in DOMAIN resources /\ parent = resources[key].parent
        /\ parent = org.key \/ row.owner # org.name
    OBVIOUS
  <2>6. key \in DOMAIN resources => resources[key].name = name
    BY <1>0, <1>1, <2>4
  <2>7. ~Failed(RepositoryVerdict(row)) => row.id # 0 /\ blockedResources' = blockedResources
    BY <2>1, <2>4
  <2> HIDE DEF parent
  <2>9. resources'[key].name = name /\ resources'[key].parent = parent
    BY <2>2, <2>3
  <2>8. /\ (DOMAIN resources \cap blockedResources = {})'
        /\ RepositoryKey(0) \notin KnownResource'
        /\ \A id : OrganizationKey(id) \notin blockedResources'
        /\ KnownResource \subseteq KnownResource'
    BY <2>1, <2>3, <2>4 DEF RepositoriesAgree, KnownResource
  <2> QED
    BY <1>1, <2>1, <2>3, <2>4, <2>5, <2>6, <2>7, <2>8, <2>9
<1>2. CASE RepositoryVerdict(row) = "refused"
  <2>1. resources' = Drop(resources, key) /\ blockedResources' = blockedResources \cup {key}
    BY <1>2 DEF Repository
  <2>2. DOMAIN resources' = DOMAIN resources \ {key}
        /\ \A y \in DOMAIN resources : y # key => resources'[y] = resources[y]
    BY <2>1 DEF Drop
  <2>3. row.id # 0 /\ key # RepositoryKey(0)
    BY <1>0, <1>2, KeysDiffer
  <2> QED
    BY <1>2, <1>k, <2>1, <2>2, <2>3 DEF RepositoriesAgree, KnownResource, Failed
<1>3. CASE RepositoryVerdict(row) \in {"nameless", "blocked"}
  <2>1. resources' = resources /\ blockedResources' = blockedResources
    BY <1>3 DEF Repository, things
  <2>2. RepositoryVerdict(row) = "nameless" => row.id = 0
    BY <1>0, <1>3
  <2>3. RepositoryVerdict(row) = "blocked" => row.id # 0 /\ key \in blockedResources
    BY <1>0, <1>3
  <2> QED
    BY <1>3, <2>1, <2>2, <2>3 DEF RepositoriesAgree, KnownResource, Failed
<1> QED
  BY <1>0, <1>1, <1>2, <1>3

LEMMA RepositoriesByRow ==
  ASSUME RepositoriesAgree, NEW row, NEW list, NEW about, Repository(row),
         See(list, about, row), Collecting, org' = org,
         complete' => complete /\ ~Failed(RepositoryVerdict(row))
  PROVE  RepositoriesAgree'
<1> DEFINE key == RepositoryKey(row.id)
<1>1. complete' => complete /\ blockedResources' = {} /\ row.id # 0
  BY RepositoryEffect DEF RepositoriesAgree
<1>o. \A k \in DOMAIN resources' \ {key} : k \in DOMAIN resources /\ resources'[k] = resources[k]
  BY RepositoryEffect
<1>2. ASSUME NEW s \in seen PROVE RepositorySeen(s)'
  <2> SUFFICES ASSUME s.list \in RepositoryLists PROVE RepositorySeen(s)'
    BY DEF RepositorySeen, RepositoryLists
  <2>1. CASE s.row.id = row.id
    <3>1. /\ row.id = 0 \/ key \in KnownResource
          /\ key \in DOMAIN resources => resources[key].name = <<s.row.owner, s.row.name>>
      BY <2>1 DEF RepositoriesAgree, RepositorySeen
    <3>2. key \in DOMAIN resources' => key \in DOMAIN resources
      BY <3>1, RepositoryEffect DEF KnownResource
    <3>3. key \in DOMAIN resources' => resources'[key].name = <<s.row.owner, s.row.name>>
      BY <3>1, <3>2, RepositoryEffect
    <3>4. row.id = 0 \/ key \in KnownResource'
      BY <3>1, RepositoryEffect
    <3> QED
      BY <1>1, <2>1, <3>3, <3>4 DEF RepositorySeen
  <2>2. CASE s.row.id # row.id
    <3>1. RepositoryKey(s.row.id) # key
      BY <2>2, KeysDiffer
    <3> QED
      <4> DEFINE k == RepositoryKey(s.row.id)
      <4>1. k \in DOMAIN resources' => k \in DOMAIN resources /\ resources'[k] = resources[k]
        BY <1>o, <3>1
      <4>2. /\ s.row.id = 0 \/ k \in KnownResource
            /\ k \in DOMAIN resources => resources[k].name = <<s.row.owner, s.row.name>>
            /\ complete => s.row.id # 0
        BY DEF RepositoriesAgree, RepositorySeen
      <4>3. KnownResource \subseteq KnownResource'
        BY RepositoryEffect
      <4> QED
        BY <1>1, <4>1, <4>2, <4>3 DEF RepositorySeen
  <2> QED
    BY <2>1, <2>2
<1>3. ASSUME NEW s, s = [list |-> list, about |-> about, row |-> row] PROVE RepositorySeen(s)'
  <2>1. s.row = row
    BY <1>3
  <2>2. key \in DOMAIN resources' \/ row.id = 0 \/ key \in blockedResources'
    BY RepositoryEffect
  <2> QED
    BY <1>1, <2>1, <2>2, RepositoryEffect DEF RepositorySeen, KnownResource
<1>4. \A k : Placed(k) => Placed(k)'
  <2>1. \A id : OrganizationKey(id) # key
    BY KeysDiffer
  <2> QED
    BY <2>1, RepositoryEffect DEF Placed
<1>5. ASSUME NEW r \in DOMAIN resources', NEW p, p = resources'[r].parent
      PROVE  p = Nobody \/ Placed(p)'
  <2>1. CASE r # key
    <3>1. resources'[r] = resources[r] /\ r \in DOMAIN resources
      BY <1>o, <2>1
    <3>2. resources[r].parent = Nobody \/ Placed(resources[r].parent)
      BY <3>1 DEF RepositoriesAgree
    <3> QED
      BY <1>4, <1>5, <3>1, <3>2
  <2>2. CASE r = key
    <3>1. \/ resources'[key].parent \in {org.key, Nobody}
          \/ key \in DOMAIN resources /\ resources'[key].parent = resources[key].parent
      BY <2>2, RepositoryEffect
    <3>2. key \in DOMAIN resources => resources[key].parent = Nobody \/ Placed(resources[key].parent)
      BY DEF RepositoriesAgree
    <3>3. Placed(org.key)
      BY DEF RepositoriesAgree
    <3> QED
      BY <1>4, <1>5, <2>2, <3>1, <3>2, <3>3
  <2> QED
    BY <2>1, <2>2
<1>6. (Placed(org.key))'
  BY <1>4 DEF RepositoriesAgree, Placed
<1>7. /\ (DOMAIN resources \cap blockedResources = {})'
      /\ RepositoryKey(0) \notin KnownResource'
      /\ \A id : OrganizationKey(id) \notin blockedResources'
  BY RepositoryEffect
<1>8. \A s \in seen' : RepositorySeen(s)'
  BY <1>2, <1>3 DEF See
<1>9. (\A r \in DOMAIN resources : resources[r].parent = Nobody \/ Placed(resources[r].parent))'
  BY <1>5 DEF Placed
<1> QED
  BY <1>1, <1>7, <1>8, <1>9, <1>6 DEF RepositoriesAgree

LEMMA RepositoriesByOrganization ==
  ASSUME RepositoriesAgree, NEW id, Organization(id) PROVE RepositoriesAgree'
<1> DEFINE key == OrganizationKey(id)
           record == [name |-> <<Head(orgs)>>, parent |-> Nobody]
<1>1. /\ resources' = Put(resources, key, record) /\ blockedResources' = blockedResources
      /\ org'.key = key /\ complete' = complete
      /\ See("organizations", key, [id |-> id, name |-> Head(orgs)])
  BY DEF Organization
<1>2. record.parent = Nobody
  OBVIOUS
<1> HIDE DEF record
<1>3. /\ DOMAIN resources' = DOMAIN resources \cup {key} /\ resources'[key] = record
      /\ \A y \in DOMAIN resources : y # key => resources'[y] = resources[y]
  BY <1>1 DEF Put
<1>4. \A n : RepositoryKey(n) # key
  BY KeysDiffer
<1>5. /\ (DOMAIN resources \cap blockedResources = {})'
      /\ RepositoryKey(0) \notin KnownResource'
      /\ KnownResource \subseteq KnownResource'
  BY <1>1, <1>3, <1>4 DEF RepositoriesAgree, KnownResource
<1>6. ASSUME NEW s \in seen' PROVE RepositorySeen(s)'
  <2> SUFFICES ASSUME s.list \in RepositoryLists PROVE RepositorySeen(s)'
    BY DEF RepositorySeen, RepositoryLists
  <2>1. s \in seen
    <3>1. \E list, about, row : See(list, about, row) /\ list \notin RepositoryLists
      <4>1. "organizations" \notin RepositoryLists
        BY DEF RepositoryLists
      <4> QED
        BY <1>1, <4>1
    <3>2. \A e \in seen' \ seen : e.list \notin RepositoryLists
      BY <3>1 DEF See
    <3> QED
      BY <3>2
  <2> DEFINE k == RepositoryKey(s.row.id)
  <2>2. k \in DOMAIN resources' => k \in DOMAIN resources /\ resources'[k] = resources[k]
    BY <1>3, <1>4
  <2>3. /\ s.row.id = 0 \/ k \in KnownResource
        /\ k \in DOMAIN resources => resources[k].name = <<s.row.owner, s.row.name>>
        /\ complete => s.row.id # 0
    BY <2>1 DEF RepositoriesAgree, RepositorySeen
  <2> QED
    BY <1>1, <1>5, <2>2, <2>3 DEF RepositorySeen
<1>7. \A k : Placed(k) => Placed(k)'
  BY <1>3 DEF Placed
<1>8. ASSUME NEW r \in DOMAIN resources', NEW p, p = resources'[r].parent
      PROVE  p = Nobody \/ Placed(p)'
  BY <1>2, <1>3, <1>7, <1>8 DEF RepositoriesAgree
<1>9. (\A r \in DOMAIN resources : resources[r].parent = Nobody \/ Placed(resources[r].parent))'
  BY <1>8 DEF Placed
<1>10. (Placed(org.key))'
  BY <1>1, <1>3 DEF Placed
<1> QED
  BY <1>1, <1>5, <1>6, <1>9, <1>10 DEF RepositoriesAgree

LEMMA InitRepositories == Init => RepositoriesAgree
BY DEF Init, RepositoriesAgree, KnownResource, Empty, Collecting, Lists

LEMMA NextRepositories == RepositoriesAgree /\ [Next]_vars => RepositoriesAgree'
<1> SUFFICES ASSUME RepositoriesAgree, [Next]_vars PROVE RepositoriesAgree'
  OBVIOUS
<1>1. ASSUME NEW id \in OrganizationIds, Organization(id) PROVE RepositoriesAgree'
  BY <1>1, RepositoriesByOrganization
<1>2. CASE OrganizationRepository
  <2>1. Collecting
    BY <1>2 DEF OrganizationRepository, Collecting, Lists
  <2> QED
    BY <1>2, <2>1, RepositoriesByRow DEF OrganizationRepository
<1>3. CASE TeamRepository
  <2>1. Collecting
    BY <1>3 DEF TeamRepository, Collecting, Lists
  <2> QED
    BY <1>3, <2>1, RepositoriesByRow DEF TeamRepository
<1>4. CASE /\ ~(OrganizationRepository \/ TeamRepository)
           /\ ~\E id \in OrganizationIds : Organization(id)
  <2>1. UNCHANGED things /\ UNCHANGED org
    BY <1>4 DEF Next, vars, walk, NoMoreOrganizations, BudgetEndsOrganizations, OrganizationFails,
       Fetch, Member, TeamRow, TeamMember, Permission, NextRepository, Collaborator, Step,
       RepositoryDone, OrganizationDone, Finish
  <2>2. Collecting' => Collecting
    BY <1>4 DEF Next, vars, NoMoreOrganizations, BudgetEndsOrganizations, OrganizationFails,
       Fetch, Member, TeamRow, TeamMember, Permission, NextRepository, Collaborator, Step,
       RepositoryDone, OrganizationDone, Finish, Collecting, Lists
  <2>3. \/ seen' = seen
        \/ \E list, about, row : See(list, about, row) /\ list \notin RepositoryLists
    BY <1>4 DEF Next, vars, NoMoreOrganizations, BudgetEndsOrganizations, OrganizationFails,
       Fetch, Member, TeamRow, TeamMember, Permission, NextRepository, Collaborator, Step,
       RepositoryDone, OrganizationDone, Finish, RepositoryLists
  <2>4. \A s \in seen' \ seen : s.list \notin RepositoryLists
    BY <2>3 DEF See
  <2>5. complete' => complete
    BY CompleteEnds
  <2> QED
    BY <2>1, <2>2, <2>4, <2>5
    DEF things, RepositoriesAgree, RepositorySeen, KnownResource, Placed, RepositoryLists
<1> QED
  BY <1>1, <1>2, <1>3, <1>4

-----------------------------------------------------------------------------
(***************************************************************************)
(* Organizations as groups, and teams.                                     *)
(***************************************************************************)
InTeam == stage \in {"team members", "team repositories", "permission"}

KnownGroup == DOMAIN groups \cup blockedGroups

TeamSeen(s) ==
  s.list = "teams" =>
    /\ s.row.id = 0 \/ TeamKey(s.row.id) \in KnownGroup
    /\ TeamKey(s.row.id) \in DOMAIN groups => groups[TeamKey(s.row.id)][2] = s.row.name
    /\ complete => s.row.id # 0

\* The metadata outlive a team that is blocked, and no other.
Described ==
  /\ DOMAIN teamMetadata \subseteq KnownGroup
  /\ \A id : TeamKey(id) \in DOMAIN groups =>
       /\ TeamKey(id) \in DOMAIN teamMetadata
       /\ groups[TeamKey(id)][2] = teamMetadata[TeamKey(id)][3]

TeamsAgree ==
  /\ DOMAIN groups \cap blockedGroups = {}
  /\ TeamKey(0) \notin KnownGroup
  /\ \A id : AccountKey(id) \notin KnownGroup /\ OrganizationKey(id) \notin blockedGroups
  /\ Described
  /\ Collecting => org.key \in DOMAIN groups /\ \E id : org.key = OrganizationKey(id)
  /\ InTeam => team.key \in DOMAIN groups
  /\ complete => blockedGroups = {}
  /\ \A s \in seen : TeamSeen(s)

LEMMA TeamEffect ==
  ASSUME TeamsAgree, NEW row, Team(row)
  PROVE  LET key == TeamKey(row.id) IN
         /\ (DOMAIN groups \cap blockedGroups = {})' /\ TeamKey(0) \notin KnownGroup'
         /\ \A id : AccountKey(id) \notin KnownGroup' /\ OrganizationKey(id) \notin blockedGroups'
         /\ Described'
         /\ blockedGroups \subseteq blockedGroups' /\ KnownGroup \subseteq KnownGroup'
         /\ \A k \in DOMAIN groups' \ {key} : k \in DOMAIN groups /\ groups'[k] = groups[k]
         /\ \A k \in DOMAIN groups \ {key} : k \in DOMAIN groups'
         /\ key \in DOMAIN groups' => groups'[key][2] = row.name
         /\ key \in DOMAIN groups' /\ key \in DOMAIN groups => groups'[key] = groups[key]
         /\ TeamVerdict(row) = "accepted" => key \in DOMAIN groups'
         /\ row.id # 0 => key \in KnownGroup'
         /\ ~Failed(TeamVerdict(row)) => row.id # 0 /\ blockedGroups' = blockedGroups
<1> DEFINE key == TeamKey(row.id)
           metadata == Metadata(row)
           record == <<org.name, row.name>>
<1>0. /\ row.id = 0 => TeamVerdict(row) = "nameless"
      /\ row.id # 0 /\ key \in blockedGroups => TeamVerdict(row) = "blocked"
      /\ row.id # 0 /\ key \notin blockedGroups =>
           \/ TeamVerdict(row) = "refused"
           \/ TeamVerdict(row) = "accepted" /\ key \notin DOMAIN teamMetadata
           \/ TeamVerdict(row) = "repeated" /\ key \in DOMAIN teamMetadata
                /\ teamMetadata[key] = metadata
  BY DEF TeamVerdict
<1>k. /\ \A id : AccountKey(id) # key /\ OrganizationKey(id) # key
      /\ \A id : id # row.id => TeamKey(id) # key
  BY KeysDiffer
<1>m. metadata[3] = row.name /\ record[2] = row.name
  BY DEF Metadata
<1>1. CASE TeamVerdict(row) = "accepted"
  <2>1. /\ teamMetadata' = Put(teamMetadata, key, metadata) /\ groups' = Put(groups, key, record)
        /\ blockedGroups' = blockedGroups
    BY <1>1 DEF Team
  <2> HIDE DEF metadata, record
  <2>2. /\ DOMAIN groups' = DOMAIN groups \cup {key} /\ groups'[key] = record
        /\ \A y \in DOMAIN groups : y # key => groups'[y] = groups[y]
    BY <2>1 DEF Put
  <2>3. /\ DOMAIN teamMetadata' = DOMAIN teamMetadata \cup {key} /\ teamMetadata'[key] = metadata
        /\ \A y \in DOMAIN teamMetadata : y # key => teamMetadata'[y] = teamMetadata[y]
    BY <2>1 DEF Put
  <2>4. row.id # 0 /\ key \notin blockedGroups /\ key # TeamKey(0) /\ key \notin DOMAIN teamMetadata
    BY <1>0, <1>1, KeysDiffer
  <2>5. key \notin DOMAIN groups
    BY <2>4 DEF TeamsAgree, Described
  <2>6. Described'
    <3>1. (DOMAIN teamMetadata \subseteq KnownGroup)'
      BY <2>1, <2>2, <2>3 DEF TeamsAgree, Described, KnownGroup
    <3>2. ASSUME NEW id, TeamKey(id) \in DOMAIN groups'
          PROVE  /\ TeamKey(id) \in DOMAIN teamMetadata'
                 /\ groups'[TeamKey(id)][2] = teamMetadata'[TeamKey(id)][3]
      <4>1. CASE TeamKey(id) = key
        BY <1>m, <2>2, <2>3, <4>1
      <4>2. CASE TeamKey(id) # key
        <5>1. TeamKey(id) \in DOMAIN groups /\ groups'[TeamKey(id)] = groups[TeamKey(id)]
          BY <2>2, <3>2, <4>2
        <5>2. TeamKey(id) \in DOMAIN teamMetadata
              /\ groups[TeamKey(id)][2] = teamMetadata[TeamKey(id)][3]
          BY <5>1 DEF TeamsAgree, Described
        <5> QED
          BY <2>3, <4>2, <5>1, <5>2
      <4> QED
        BY <4>1, <4>2
    <3> QED
      BY <3>1, <3>2 DEF Described
  <2>7. /\ (DOMAIN groups \cap blockedGroups = {})' /\ TeamKey(0) \notin KnownGroup'
        /\ \A id : AccountKey(id) \notin KnownGroup' /\ OrganizationKey(id) \notin blockedGroups'
        /\ KnownGroup \subseteq KnownGroup' /\ key \in KnownGroup'
    BY <1>k, <2>1, <2>2, <2>4 DEF TeamsAgree, KnownGroup
  <2> QED
    BY <1>m, <2>1, <2>2, <2>4, <2>5, <2>6, <2>7
<1>2. CASE TeamVerdict(row) = "refused"
  <2>1. /\ groups' = Drop(groups, key) /\ blockedGroups' = blockedGroups \cup {key}
        /\ teamMetadata' = teamMetadata
    BY <1>2 DEF Team
  <2>2. DOMAIN groups' = DOMAIN groups \ {key}
        /\ \A y \in DOMAIN groups : y # key => groups'[y] = groups[y]
    BY <2>1 DEF Drop
  <2>3. row.id # 0 /\ key # TeamKey(0)
    BY <1>0, <1>2, KeysDiffer
  <2>4. Described'
    BY <2>1, <2>2 DEF TeamsAgree, Described, KnownGroup
  <2>5. /\ (DOMAIN groups \cap blockedGroups = {})' /\ TeamKey(0) \notin KnownGroup'
        /\ \A id : AccountKey(id) \notin KnownGroup' /\ OrganizationKey(id) \notin blockedGroups'
        /\ KnownGroup \subseteq KnownGroup' /\ key \in KnownGroup'
    BY <1>k, <2>1, <2>2, <2>3 DEF TeamsAgree, KnownGroup
  <2> QED
    BY <1>2, <2>1, <2>2, <2>3, <2>4, <2>5 DEF Failed
<1>3. CASE TeamVerdict(row) \in {"nameless", "blocked", "repeated"}
  <2>1. groups' = groups /\ blockedGroups' = blockedGroups /\ teamMetadata' = teamMetadata
    BY <1>3 DEF Team, sets
  <2>2. TeamVerdict(row) = "nameless" => row.id = 0
    BY <1>0, <1>3
  <2>3. key \in DOMAIN groups => groups[key][2] = row.name
    <3>1. CASE row.id = 0
      BY <3>1 DEF TeamsAgree, KnownGroup
    <3>2. CASE row.id # 0
      <4> SUFFICES ASSUME key \in DOMAIN groups PROVE groups[key][2] = row.name
        OBVIOUS
      <4>1. teamMetadata[key] = metadata
        BY <1>0, <1>3, <3>2 DEF TeamsAgree
      <4>2. groups[key][2] = teamMetadata[key][3]
        BY DEF TeamsAgree, Described
      <4> QED
        BY <1>m, <4>1, <4>2
    <3> QED
      BY <3>1, <3>2
  <2>4. row.id # 0 => key \in KnownGroup
    BY <1>0, <1>3 DEF TeamsAgree, Described, KnownGroup
  <2>5. Failed(TeamVerdict(row)) \/ row.id # 0
    BY <1>0 DEF Failed
  <2> QED
    BY <1>3, <2>1, <2>3, <2>4, <2>5 DEF TeamsAgree, Described, KnownGroup
<1> QED
  BY <1>0, <1>1, <1>2, <1>3

LEMMA TeamsByRow ==
  ASSUME TeamsAgree, TeamRow PROVE TeamsAgree'
<1> DEFINE row == Head(teams)
           key == TeamKey(row.id)
<1>1. /\ Team(row) /\ See("teams", org.key, row) /\ org' = org /\ Collecting
      /\ complete' => complete /\ ~Failed(TeamVerdict(row))
      /\ \/ TeamVerdict(row) = "accepted" /\ team'.key = key
         \/ ~InTeam'
  <2>1. stage = "teams" /\ Team(row) /\ See(stage, org.key, row) /\ org' = org
    BY DEF TeamRow
  <2>2. complete' => complete /\ ~Failed(TeamVerdict(row))
    BY DEF TeamRow
  <2>3. \/ TeamVerdict(row) = "accepted" /\ team' = [key |-> TeamKey(row.id), slug |-> row.slug]
        \/ stage' = stage
    BY DEF TeamRow
  <2>4. Collecting
    BY <2>1 DEF Collecting, Lists
  <2>5. stage' = stage => ~InTeam'
    BY <2>1 DEF InTeam
  <2>6. team' = [key |-> TeamKey(row.id), slug |-> row.slug] => team'.key = key
    OBVIOUS
  <2> HIDE DEF row
  <2> QED
    BY <2>1, <2>2, <2>3, <2>4, <2>5, <2>6
<1> HIDE DEF row
<1>2. complete' => complete /\ blockedGroups' = {} /\ row.id # 0
  BY <1>1, TeamEffect DEF TeamsAgree
<1>3. /\ \A k \in DOMAIN groups' \ {key} : k \in DOMAIN groups /\ groups'[k] = groups[k]
      /\ \A k \in DOMAIN groups \ {key} : k \in DOMAIN groups'
      /\ KnownGroup \subseteq KnownGroup'
  BY <1>1, TeamEffect
<1>4. ASSUME NEW s \in seen PROVE TeamSeen(s)'
  <2> SUFFICES ASSUME s.list = "teams" PROVE TeamSeen(s)'
    BY DEF TeamSeen
  <2> DEFINE k == TeamKey(s.row.id)
  <2>1. /\ s.row.id = 0 \/ k \in KnownGroup
        /\ k \in DOMAIN groups => groups[k][2] = s.row.name
        /\ complete => s.row.id # 0
    BY DEF TeamsAgree, TeamSeen
  <2>2. k \in DOMAIN groups' => groups'[k][2] = s.row.name
    <3>1. CASE k # key
      BY <1>3, <2>1, <3>1
    <3>2. CASE k = key
      <4> SUFFICES ASSUME k \in DOMAIN groups' PROVE groups'[k][2] = s.row.name
        OBVIOUS
      <4>1. k \in KnownGroup' /\ k \notin blockedGroups' /\ k # TeamKey(0)
        BY <1>1, TeamEffect DEF KnownGroup
      <4>2. blockedGroups \subseteq blockedGroups'
        BY <1>1, TeamEffect
      <4>3. k \in DOMAIN groups
        BY <2>1, <4>1, <4>2 DEF KnownGroup
      <4>4. groups'[k] = groups[k]
        BY <1>1, <3>2, <4>3, TeamEffect
      <4> QED
        BY <2>1, <4>3, <4>4
    <3> QED
      BY <3>1, <3>2
  <2> QED
    BY <1>2, <1>3, <2>1, <2>2 DEF TeamSeen
<1>5. ASSUME NEW s, s = [list |-> "teams", about |-> org.key, row |-> row] PROVE TeamSeen(s)'
  <2>1. s.row = row
    BY <1>5
  <2>2. row.id = 0 \/ key \in KnownGroup'
    BY <1>1, TeamEffect
  <2>3. key \in DOMAIN groups' => groups'[key][2] = row.name
    BY <1>1, TeamEffect
  <2> QED
    BY <1>2, <2>1, <2>2, <2>3 DEF TeamSeen
<1>6. \A s \in seen' : TeamSeen(s)'
  BY <1>1, <1>4, <1>5 DEF See
<1>7. org.key \in DOMAIN groups' /\ \E id : org.key = OrganizationKey(id)
  BY <1>1, <1>3, KeysDiffer DEF TeamsAgree
<1>8. (InTeam => team.key \in DOMAIN groups)'
  BY <1>1, TeamEffect
<1>9. /\ (DOMAIN groups \cap blockedGroups = {})' /\ TeamKey(0) \notin KnownGroup'
      /\ \A id : AccountKey(id) \notin KnownGroup' /\ OrganizationKey(id) \notin blockedGroups'
      /\ Described'
  BY <1>1, TeamEffect
<1> QED
  BY <1>1, <1>2, <1>6, <1>7, <1>8, <1>9 DEF TeamsAgree

LEMMA TeamsByOrganization ==
  ASSUME TeamsAgree, NEW id, Organization(id) PROVE TeamsAgree'
<1> DEFINE key == OrganizationKey(id)
           record == <<Head(orgs)>>
<1>1. /\ groups' = Put(groups, key, record) /\ UNCHANGED <<blockedGroups, teamMetadata>>
      /\ org'.key = key /\ complete' = complete /\ stage' = "members"
      /\ See("organizations", key, [id |-> id, name |-> Head(orgs)])
  BY DEF Organization
<1> HIDE DEF record
<1>2. /\ DOMAIN groups' = DOMAIN groups \cup {key}
      /\ \A y \in DOMAIN groups : y # key => groups'[y] = groups[y]
  BY <1>1 DEF Put
<1>3. \A n : TeamKey(n) # key /\ AccountKey(n) # key
  BY KeysDiffer
<1>4. /\ (DOMAIN groups \cap blockedGroups = {})' /\ TeamKey(0) \notin KnownGroup'
      /\ \A n : AccountKey(n) \notin KnownGroup' /\ OrganizationKey(n) \notin blockedGroups'
      /\ KnownGroup \subseteq KnownGroup'
  BY <1>1, <1>2, <1>3 DEF TeamsAgree, KnownGroup
<1>5. Described'
  BY <1>1, <1>2, <1>3, <1>4 DEF TeamsAgree, Described
<1>6. ASSUME NEW s \in seen' PROVE TeamSeen(s)'
  <2> SUFFICES ASSUME s.list = "teams" PROVE TeamSeen(s)'
    BY DEF TeamSeen
  <2>1. s \in seen
    <3>1. \E list, about, row : See(list, about, row) /\ list # "teams"
      BY <1>1
    <3>2. \A e \in seen' \ seen : e.list # "teams"
      BY <3>1 DEF See
    <3> QED
      BY <3>2
  <2> DEFINE k == TeamKey(s.row.id)
  <2>2. /\ s.row.id = 0 \/ k \in KnownGroup
        /\ k \in DOMAIN groups => groups[k][2] = s.row.name
        /\ complete => s.row.id # 0
    BY <2>1 DEF TeamsAgree, TeamSeen
  <2>3. k \in DOMAIN groups' => k \in DOMAIN groups /\ groups'[k] = groups[k]
    BY <1>2, <1>3
  <2> QED
    BY <1>1, <1>4, <2>2, <2>3 DEF TeamSeen
<1>7. ~InTeam'
  BY <1>1 DEF InTeam
<1>8. org'.key \in DOMAIN groups' /\ \E n : org'.key = OrganizationKey(n)
  BY <1>1, <1>2
<1> QED
  BY <1>1, <1>4, <1>5, <1>6, <1>7, <1>8 DEF TeamsAgree

LEMMA InitTeams == Init => TeamsAgree
BY DEF Init, TeamsAgree, Described, KnownGroup, Empty, Collecting, InTeam, Lists

LEMMA NextTeams == TeamsAgree /\ [Next]_vars => TeamsAgree'
<1> SUFFICES ASSUME TeamsAgree, [Next]_vars PROVE TeamsAgree'
  OBVIOUS
<1>1. ASSUME NEW id \in OrganizationIds, Organization(id) PROVE TeamsAgree'
  BY <1>1, TeamsByOrganization
<1>2. CASE TeamRow
  BY <1>2, TeamsByRow
<1>3. CASE ~TeamRow /\ ~\E id \in OrganizationIds : Organization(id)
  <2>1. UNCHANGED sets /\ UNCHANGED <<org, team>>
    BY <1>3 DEF Next, vars, walk, NoMoreOrganizations, BudgetEndsOrganizations, OrganizationFails,
       Fetch, Member, OrganizationRepository, TeamMember, TeamRepository, Permission,
       NextRepository, Collaborator, Step, RepositoryDone, OrganizationDone, Finish
  <2>2. Collecting' => Collecting
    BY <1>3 DEF Next, vars, NoMoreOrganizations, BudgetEndsOrganizations, OrganizationFails,
       Fetch, Member, OrganizationRepository, TeamMember, TeamRepository, Permission,
       NextRepository, Collaborator, Step, RepositoryDone, OrganizationDone, Finish,
       Collecting, Lists
  <2>3. InTeam' => InTeam
    BY <1>3 DEF Next, vars, NoMoreOrganizations, BudgetEndsOrganizations, OrganizationFails,
       Fetch, Member, OrganizationRepository, TeamMember, TeamRepository, Permission,
       NextRepository, Collaborator, Step, RepositoryDone, OrganizationDone, Finish, InTeam
  <2>4. \/ seen' = seen
        \/ \E list, about, row : See(list, about, row) /\ list # "teams"
    BY <1>3 DEF Next, vars, NoMoreOrganizations, BudgetEndsOrganizations, OrganizationFails,
       Fetch, Member, OrganizationRepository, TeamMember, TeamRepository, Permission,
       NextRepository, Collaborator, Step, RepositoryDone, OrganizationDone, Finish
  <2>5. \A s \in seen' \ seen : s.list # "teams"
    BY <2>4 DEF See
  <2>6. complete' => complete
    BY CompleteEnds
  <2> QED
    BY <2>1, <2>2, <2>3, <2>5, <2>6 DEF sets, TeamsAgree, TeamSeen, Described, KnownGroup
<1> QED
  BY <1>1, <1>2, <1>3

-----------------------------------------------------------------------------
(***************************************************************************)
(* Memberships and grants.                                                 *)
(***************************************************************************)
\* What is known stays known, if only as blocked.
Grown ==
  /\ KnownAccount \subseteq KnownAccount' /\ blockedAccounts \subseteq blockedAccounts'
  /\ KnownResource \subseteq KnownResource' /\ KnownGroup \subseteq KnownGroup'

LEMMA Grows ==
  ASSUME AccountsAgree, RepositoriesAgree, TeamsAgree, [Next]_vars PROVE Grown
<1>1. KnownAccount \subseteq KnownAccount' /\ blockedAccounts \subseteq blockedAccounts'
  <2>1. UNCHANGED people \/ \E row : Account(row)
    BY DEF Next, vars, NoMoreOrganizations, BudgetEndsOrganizations, OrganizationFails,
       Organization, Fetch, Member, OrganizationRepository, TeamRow, TeamMember,
       TeamRepository, Permission, NextRepository, Collaborator, Step, RepositoryDone,
       OrganizationDone, Finish
  <2>2. ASSUME NEW row, Account(row)
        PROVE  KnownAccount \subseteq KnownAccount' /\ blockedAccounts \subseteq blockedAccounts'
    BY <2>2, AccountEffect
  <2> QED
    BY <2>1, <2>2 DEF people, KnownAccount
<1>2. KnownResource \subseteq KnownResource'
  <2>1. \/ UNCHANGED things \/ \E row : Repository(row)
        \/ \E id \in OrganizationIds : Organization(id)
    BY DEF Next, vars, NoMoreOrganizations, BudgetEndsOrganizations, OrganizationFails,
       Fetch, Member, OrganizationRepository, TeamRow, TeamMember, TeamRepository,
       Permission, NextRepository, Collaborator, Step, RepositoryDone, OrganizationDone,
       Finish
  <2>2. ASSUME NEW row, Repository(row) PROVE KnownResource \subseteq KnownResource'
    BY <2>2, RepositoryEffect
  <2>3. ASSUME NEW id, Organization(id) PROVE KnownResource \subseteq KnownResource'
    BY <2>3 DEF Organization, KnownResource, Put
  <2> QED
    BY <2>1, <2>2, <2>3 DEF things, KnownResource
<1>3. KnownGroup \subseteq KnownGroup'
  <2>1. \/ UNCHANGED sets \/ TeamRow
        \/ \E id \in OrganizationIds : Organization(id)
    BY DEF Next, vars, NoMoreOrganizations, BudgetEndsOrganizations, OrganizationFails,
       Fetch, Member, OrganizationRepository, TeamMember, TeamRepository,
       Permission, NextRepository, Collaborator, Step, RepositoryDone, OrganizationDone,
       Finish
  <2>2. ASSUME TeamRow PROVE KnownGroup \subseteq KnownGroup'
    <3>1. Team(Head(teams))
      BY <2>2 DEF TeamRow
    <3> QED
      BY <3>1, TeamEffect
  <2>3. ASSUME NEW id, Organization(id) PROVE KnownGroup \subseteq KnownGroup'
    BY <2>3 DEF Organization, KnownGroup, Put
  <2> QED
    BY <2>1, <2>2, <2>3 DEF sets, KnownGroup
<1> QED
  BY <1>1, <1>2, <1>3 DEF Grown

\* Where the walk over repositories is.
Walking ==
  /\ repositories \subseteq KnownResource /\ repository \in KnownResource \cup {Nobody}
  /\ stage = "collaborators" /\ fetched => repository # Nobody
  /\ stage = "permission" => RepositoryKey(Head(items).id) \in KnownResource

LEMMA InitWalking == Init => Walking
BY DEF Init, Walking

LEMMA NextWalking ==
  ASSUME AccountsAgree, RepositoriesAgree, TeamsAgree, Walking, [Next]_vars PROVE Walking'
<1>1. Grown
  BY Grows
<1>2. CASE OrganizationRepository
  <2> DEFINE row == Head(items)
  <2>1. RepositoryVerdict(row) = "accepted" => RepositoryKey(row.id) \in KnownResource'
    <3>1. Repository(row)
      BY <1>2 DEF OrganizationRepository
    <3> QED
      BY <3>1, RepositoryEffect DEF KnownResource
  <2>2. /\ repositories' \subseteq repositories \cup {RepositoryKey(row.id)}
        /\ RepositoryVerdict(row) # "accepted" => repositories' = repositories
        /\ UNCHANGED <<repository, stage>> /\ stage = "repositories"
    BY <1>2 DEF OrganizationRepository
  <2> QED
    BY <1>1, <2>1, <2>2 DEF Walking, Grown
<1>3. CASE TeamRepository
  <2> DEFINE row == Head(items)
  <2>1. RepositoryVerdict(row) = "accepted" => RepositoryKey(row.id) \in KnownResource'
    <3>1. Repository(row)
      BY <1>3 DEF TeamRepository
    <3> QED
      BY <3>1, RepositoryEffect DEF KnownResource
  <2>2. /\ UNCHANGED <<repositories, repository>> /\ stage = "team repositories"
        /\ IF RepositoryVerdict(row) = "accepted"
           THEN stage' = "permission" /\ items' = items ELSE stage' = stage
    BY <1>3 DEF TeamRepository
  <2> QED
    BY <1>1, <2>1, <2>2 DEF Walking, Grown
<1>4. CASE Permission
  BY <1>1, <1>4 DEF Permission, Walking, Grown
<1>5. CASE \E key \in repositories : NextRepository(key)
  BY <1>1, <1>5, KeysDiffer DEF NextRepository, Walking, Grown
<1>6. CASE Fetch
  <2>1. /\ UNCHANGED <<repositories, repository, stage>> /\ stage \in Lists
        /\ stage = "collaborators" => repository # Nobody
    BY <1>6 DEF Fetch
  <2>2. stage' # "permission"
    BY <2>1 DEF Lists
  <2>3. stage' = "collaborators" /\ fetched' => repository' # Nobody
    BY <2>1
  <2> QED
    BY <1>1, <2>1, <2>2, <2>3 DEF Walking, Grown
<1>7. CASE \E id \in OrganizationIds : Organization(id)
  BY <1>1, <1>7 DEF Organization, Walking, Grown
<1>8. CASE UNCHANGED vars
  BY <1>8 DEF vars, walk, things, Walking, KnownResource
<1>9. CASE \/ NoMoreOrganizations \/ BudgetEndsOrganizations \/ OrganizationFails
           \/ Member \/ TeamRow \/ TeamMember \/ Collaborator
           \/ Step("members", "admins") \/ Step("admins", "repositories")
           \/ Step("repositories", "teams") \/ Step("team members", "team repositories")
           \/ Step("team repositories", "teams") \/ Step("teams", "collaborators")
           \/ RepositoryDone \/ OrganizationDone \/ Finish
  <2>1. /\ UNCHANGED repositories /\ repository' \in {repository, Nobody}
        /\ stage' # "permission"
        /\ stage' = "collaborators" /\ fetched' =>
             repository' = repository /\ stage = "collaborators" /\ fetched
    BY <1>9 DEF walk, NoMoreOrganizations, BudgetEndsOrganizations, OrganizationFails,
       Member, TeamRow, TeamMember, Collaborator, Step, RepositoryDone, OrganizationDone,
       Finish
  <2> QED
    BY <1>1, <2>1 DEF Walking, Grown
<1> QED
  BY <1>2, <1>3, <1>4, <1>5, <1>6, <1>7, <1>8, <1>9 DEF Next

\* A row's claim is granted as it says, or blocked, or its account is.
ClaimSeen(s) ==
  \A c \in ClaimOf(s) :
    \/ c[1] \in DOMAIN grants /\ grants[c[1]] = c[2]
    \/ c[1] \in blockedGrants
    \/ /\ s.list \in AccountLists
       /\ s.row.id = 0 \/ AccountKey(s.row.id) \in blockedAccounts

MembershipSeen(s) ==
  complete /\ s.list \in {"members", "admins", "team members"} =>
    <<AccountKey(s.row.id), s.about>> \in memberships

ClaimsAgree ==
  /\ DOMAIN grants \cap blockedGrants = {}
  /\ \A m \in memberships : m[1] \in KnownAccount /\ m[2] \in KnownGroup
  /\ \A c \in DOMAIN grants : c[2] \in KnownAccount \cup KnownGroup /\ c[3] \in KnownResource
  /\ complete => blockedGrants = {}
  /\ \A s \in seen : ClaimSeen(s) /\ MembershipSeen(s)

LEMMA ClaimsOf ==
  \A s :
    /\ s.list = "members" =>
         ClaimOf(s) = {<<<<"organization_role", AccountKey(s.row.id), s.about>>, "member">>}
    /\ s.list = "admins" =>
         ClaimOf(s) = {<<<<"organization_role", AccountKey(s.row.id), s.about>>, "admin">>}
    /\ s.list = "permission" =>
         ClaimOf(s) = {<<<<"team_repository", s.about, RepositoryKey(s.row.id)>>, s.row.role>>}
    /\ s.list = "collaborators" =>
         ClaimOf(s) = {<<<<"collaborator", AccountKey(s.row.id), s.about>>, s.row.role>>}
    /\ s.list \notin {"members", "admins", "permission", "collaborators"} => ClaimOf(s) = {}
BY DEF ClaimOf

LEMMA GrantEffect ==
  ASSUME DOMAIN grants \cap blockedGrants = {}, NEW claim, NEW role, Grant(claim, role)
  PROVE  /\ (DOMAIN grants \cap blockedGrants = {})' /\ blockedGrants \subseteq blockedGrants'
         /\ DOMAIN grants' \subseteq DOMAIN grants \cup {claim}
         /\ \A c \in DOMAIN grants :
              \/ c \in blockedGrants'
              \/ c \in DOMAIN grants' /\ grants'[c] = grants[c]
         /\ \/ claim \in blockedGrants'
            \/ claim \in DOMAIN grants' /\ grants'[claim] = role
         /\ ~Conflicting(claim, role) => blockedGrants' = blockedGrants
<1>1. CASE Conflicting(claim, role)
  BY <1>1 DEF Grant, Drop
<1>2. CASE ~Conflicting(claim, role)
  <2>1. CASE claim \in blockedGrants \cup DOMAIN grants
    BY <1>2, <2>1 DEF Grant, Conflicting
  <2>2. CASE claim \notin blockedGrants \cup DOMAIN grants
    BY <1>2, <2>2 DEF Grant, Put
  <2> QED
    BY <2>1, <2>2
<1> QED
  BY <1>1, <1>2

\* What is left to show of an action that may make one grant.
LEMMA ClaimsStep ==
  ASSUME ClaimsAgree, Grown, complete' => complete,
         memberships \subseteq memberships',
         \A m \in memberships' \ memberships : m[1] \in KnownAccount' /\ m[2] \in KnownGroup',
         NEW claim, NEW role,
         \/ UNCHANGED <<grants, blockedGrants>>
         \/ /\ Grant(claim, role) /\ (complete' => ~Conflicting(claim, role))
            /\ claim[2] \in KnownAccount' \cup KnownGroup' /\ claim[3] \in KnownResource',
         \A s \in seen' \ seen : ClaimSeen(s)' /\ MembershipSeen(s)'
  PROVE  ClaimsAgree'
<1>1. /\ (DOMAIN grants \cap blockedGrants = {})' /\ blockedGrants \subseteq blockedGrants'
      /\ \A c \in DOMAIN grants :
           c \in blockedGrants' \/ (c \in DOMAIN grants' /\ grants'[c] = grants[c])
      /\ complete' => blockedGrants' = {}
      /\ \A c \in DOMAIN grants' :
           c[2] \in KnownAccount' \cup KnownGroup' /\ c[3] \in KnownResource'
  <2>1. CASE UNCHANGED <<grants, blockedGrants>>
    BY <2>1 DEF ClaimsAgree, Grown
  <2>2. CASE /\ Grant(claim, role) /\ (complete' => ~Conflicting(claim, role))
             /\ claim[2] \in KnownAccount' \cup KnownGroup' /\ claim[3] \in KnownResource'
    <3>1. DOMAIN grants \cap blockedGrants = {}
      BY DEF ClaimsAgree
    <3> QED
      BY <2>2, <3>1, GrantEffect DEF ClaimsAgree, Grown
  <2> QED
    BY <2>1, <2>2
<1>2. \A m \in memberships' : m[1] \in KnownAccount' /\ m[2] \in KnownGroup'
  BY DEF ClaimsAgree, Grown
<1>3. ASSUME NEW s \in seen PROVE ClaimSeen(s)' /\ MembershipSeen(s)'
  <2>1. ClaimSeen(s) /\ MembershipSeen(s)
    BY DEF ClaimsAgree
  <2>2. ClaimSeen(s)'
    <3>1. ASSUME NEW c \in ClaimOf(s)
          PROVE  \/ c[1] \in DOMAIN grants' /\ grants'[c[1]] = c[2]
                 \/ c[1] \in blockedGrants'
                 \/ /\ s.list \in AccountLists
                    /\ s.row.id = 0 \/ AccountKey(s.row.id) \in blockedAccounts'
      BY <1>1, <2>1 DEF ClaimSeen, Grown
    <3> QED
      BY <3>1 DEF ClaimSeen, ClaimOf, AccountKey, RepositoryKey, AccountLists
  <2>3. MembershipSeen(s)'
    BY <2>1 DEF MembershipSeen
  <2> QED
    BY <2>2, <2>3
<1> QED
  BY <1>1, <1>2, <1>3 DEF ClaimsAgree

LEMMA ClaimsByMember ==
  ASSUME AccountsAgree, RepositoriesAgree, TeamsAgree, ClaimsAgree, Grown,
         complete' => complete, Member
  PROVE  ClaimsAgree'
<1> DEFINE row == Head(items)
           key == AccountKey(row.id)
           claim == <<"organization_role", key, org.key>>
           role == IF stage = "admins" THEN "admin" ELSE "member"
           entry == [list |-> stage, about |-> org.key, row |-> row]
           accepted == AccountVerdict(row) = "accepted"
<1>0. PICK new : new = entry
  OBVIOUS
<1>1. /\ stage \in {"members", "admins"} /\ Account(row)
      /\ accepted => /\ memberships' = memberships \cup {<<key, org.key>>}
                     /\ Grant(claim, role) /\ (complete' => ~Conflicting(claim, role))
      /\ ~accepted => /\ UNCHANGED claims
                      /\ complete' => ~Failed(AccountVerdict(row))
      /\ seen' = seen \cup {new}
  BY <1>0 DEF Member, See
<1>2. /\ accepted => key \in DOMAIN accounts'
      /\ ~accepted => row.id = 0 \/ key \in blockedAccounts'
  BY <1>1, AccountEffect
<1>3. org.key \in DOMAIN resources /\ org.key \in DOMAIN groups
  BY <1>1 DEF RepositoriesAgree, TeamsAgree, Placed, Collecting, Lists
<1>4. org.key \in KnownResource' /\ org.key \in KnownGroup'
  BY <1>3 DEF Grown, KnownResource, KnownGroup
<1>5. claim[2] = key /\ claim[3] = org.key
  OBVIOUS
<1>6. new.list = stage /\ new.about = org.key /\ new.row = row
  BY <1>0
<1>7. /\ ClaimOf(new) = {<<claim, role>>} /\ new.list \in AccountLists
      /\ AccountKey(new.row.id) = key
  BY <1>1, <1>6, ClaimsOf DEF AccountLists
<1>8. complete => blockedAccounts = {}
  BY DEF AccountsAgree
<1>9. \A c \in ClaimOf(new) : c[1] = claim /\ c[2] = role
  BY <1>7
<1> HIDE DEF row, key, claim, role, entry, accepted
<1>10. CASE accepted
  <2>1. DOMAIN grants \cap blockedGrants = {}
    BY DEF ClaimsAgree
  <2>2. \/ claim \in blockedGrants'
        \/ claim \in DOMAIN grants' /\ grants'[claim] = role
    BY <1>1, <1>10, <2>1, GrantEffect
  <2>3. ClaimSeen(new)'
    BY <1>9, <2>2 DEF ClaimSeen
  <2>4. MembershipSeen(new)'
    BY <1>1, <1>6, <1>7, <1>10 DEF MembershipSeen
  <2>5. key \in KnownAccount'
    BY <1>2, <1>10 DEF KnownAccount
  <2>6. \A m \in memberships' \ memberships : m[1] \in KnownAccount' /\ m[2] \in KnownGroup'
    BY <1>1, <1>10, <1>4, <2>5
  <2>7. /\ Grant(claim, role) /\ (complete' => ~Conflicting(claim, role))
        /\ claim[2] \in KnownAccount' \cup KnownGroup' /\ claim[3] \in KnownResource'
    BY <1>1, <1>4, <1>5, <1>10, <2>5
  <2>8. \A s \in seen' \ seen : ClaimSeen(s)' /\ MembershipSeen(s)'
    BY <1>1, <2>3, <2>4
  <2>9. memberships \subseteq memberships'
    BY <1>1, <1>10
  <2> QED
    BY <2>6, <2>7, <2>8, <2>9, ClaimsStep
<1>11. CASE ~accepted
  <2>1. ClaimSeen(new)'
    BY <1>2, <1>7, <1>6, <1>11 DEF ClaimSeen
  <2>2. ~complete'
    <3>1. complete' => row.id # 0 /\ blockedAccounts' = blockedAccounts
      BY <1>1, <1>11, AccountEffect
    <3> QED
      BY <3>1, <1>2, <1>8, <1>11
  <2>3. MembershipSeen(new)'
    BY <2>2 DEF MembershipSeen
  <2>4. \A s \in seen' \ seen : ClaimSeen(s)' /\ MembershipSeen(s)'
    BY <1>1, <2>1, <2>3
  <2>5. UNCHANGED <<memberships, grants, blockedGrants>>
    BY <1>1, <1>11 DEF claims
  <2> QED
    BY <2>4, <2>5, ClaimsStep
<1> QED
  BY <1>10, <1>11

LEMMA ClaimsByTeamMember ==
  ASSUME AccountsAgree, TeamsAgree, ClaimsAgree, Grown, complete' => complete, TeamMember
  PROVE  ClaimsAgree'
<1> DEFINE row == Head(items)
           key == AccountKey(row.id)
           entry == [list |-> stage, about |-> team.key, row |-> row]
           accepted == AccountVerdict(row) = "accepted"
<1>0. PICK new : new = entry
  OBVIOUS
<1>1. /\ stage = "team members" /\ Account(row)
      /\ memberships' = IF accepted THEN memberships \cup {<<key, team.key>>} ELSE memberships
      /\ complete' => ~Failed(AccountVerdict(row))
      /\ UNCHANGED <<grants, blockedGrants>>
      /\ seen' = seen \cup {new}
  BY <1>0 DEF TeamMember, See
<1>2. /\ accepted => key \in DOMAIN accounts'
      /\ ~accepted => row.id = 0 \/ key \in blockedAccounts'
      /\ complete' => row.id # 0 /\ blockedAccounts' = blockedAccounts
  BY <1>1, AccountEffect
<1>3. complete' => accepted
  BY <1>2 DEF AccountsAgree
<1>4. team.key \in KnownGroup'
  BY <1>1 DEF TeamsAgree, InTeam, Grown, KnownGroup
<1>5. new.list = stage /\ new.about = team.key /\ AccountKey(new.row.id) = key
  BY <1>0
<1>6. ClaimOf(new) = {}
  BY <1>1, <1>5, ClaimsOf
<1> HIDE DEF row, key, entry, accepted
<1>7. ClaimSeen(new)'
  BY <1>6 DEF ClaimSeen
<1>8. MembershipSeen(new)'
  BY <1>1, <1>3, <1>5 DEF MembershipSeen
<1>9. \A s \in seen' \ seen : ClaimSeen(s)' /\ MembershipSeen(s)'
  BY <1>1, <1>7, <1>8
<1>10. \A m \in memberships' \ memberships : m[1] \in KnownAccount' /\ m[2] \in KnownGroup'
  <2>1. accepted => key \in KnownAccount'
    BY <1>2 DEF KnownAccount
  <2>2. \A m \in memberships' \ memberships : accepted /\ m = <<key, team.key>>
    BY <1>1
  <2> QED
    BY <2>1, <2>2, <1>4
<1>11. memberships \subseteq memberships'
  BY <1>1
<1> QED
  BY <1>1, <1>9, <1>10, <1>11, ClaimsStep

LEMMA ClaimsByPermission ==
  ASSUME TeamsAgree, Walking, ClaimsAgree, Grown, complete' => complete, Permission
  PROVE  ClaimsAgree'
<1> DEFINE key == RepositoryKey(Head(items).id)
           claim == <<"team_repository", team.key, key>>
<1>1. PICK role, new :
        /\ Grant(claim, role) /\ (complete' => ~Conflicting(claim, role))
        /\ new = [list |-> stage, about |-> team.key,
                   row |-> [id |-> Head(items).id, role |-> role]]
        /\ seen' = seen \cup {new}
  BY DEF Permission, See
<1>2. stage = "permission" /\ UNCHANGED memberships
  BY DEF Permission
<1>3. team.key \in KnownGroup' /\ key \in KnownResource'
  BY <1>2 DEF TeamsAgree, Walking, InTeam, Grown, KnownGroup
<1>4. claim[2] = team.key /\ claim[3] = key
  OBVIOUS
<1>5. new.list = stage /\ ClaimOf(new) = {<<claim, role>>}
  <2>1. /\ new.list = "permission" /\ new.about = team.key
        /\ new.row.id = Head(items).id /\ new.row.role = role
    BY <1>1, <1>2
  <2> QED
    BY <2>1, <1>2, ClaimsOf
<1>6. \A c \in ClaimOf(new) : c[1] = claim /\ c[2] = role
  BY <1>5
<1> HIDE DEF key, claim
<1>7. DOMAIN grants \cap blockedGrants = {}
  BY DEF ClaimsAgree
<1>8. \/ claim \in blockedGrants'
      \/ claim \in DOMAIN grants' /\ grants'[claim] = role
  BY <1>1, <1>7, GrantEffect
<1>9. ClaimSeen(new)'
  BY <1>6, <1>8 DEF ClaimSeen
<1>10. MembershipSeen(new)'
  BY <1>2, <1>5 DEF MembershipSeen
<1>11. \A s \in seen' \ seen : ClaimSeen(s)' /\ MembershipSeen(s)'
  BY <1>1, <1>9, <1>10
<1>12. claim[2] \in KnownAccount' \cup KnownGroup' /\ claim[3] \in KnownResource'
  BY <1>3, <1>4
<1> QED
  BY <1>1, <1>2, <1>11, <1>12, ClaimsStep

LEMMA ClaimsByCollaborator ==
  ASSUME AccountsAgree, Walking, ClaimsAgree, Grown, complete' => complete, Collaborator,
         repository # Nobody
  PROVE  ClaimsAgree'
<1> DEFINE row == Head(items)
           key == AccountKey(row.id)
           claim == <<"collaborator", key, repository>>
           entry == [list |-> stage, about |-> repository, row |-> row]
           accepted == AccountVerdict(row) = "accepted"
<1>0. PICK new : new = entry
  OBVIOUS
<1>1. /\ stage = "collaborators" /\ Account(row) /\ UNCHANGED memberships
      /\ accepted => Grant(claim, row.role) /\ (complete' => ~Conflicting(claim, row.role))
      /\ ~accepted => UNCHANGED <<grants, blockedGrants>>
      /\ seen' = seen \cup {new}
  BY <1>0 DEF Collaborator, See
<1>2. /\ accepted => key \in DOMAIN accounts'
      /\ ~accepted => row.id = 0 \/ key \in blockedAccounts'
  BY <1>1, AccountEffect
<1>3. repository \in KnownResource'
  BY DEF Walking, Grown
<1>4. claim[2] = key /\ claim[3] = repository
  OBVIOUS
<1>5. new.list = stage /\ new.about = repository /\ new.row = row
  BY <1>0
<1>6. /\ ClaimOf(new) = {<<claim, row.role>>} /\ new.list \in AccountLists
      /\ AccountKey(new.row.id) = key
  BY <1>1, <1>5, ClaimsOf DEF AccountLists
<1>7. \A c \in ClaimOf(new) : c[1] = claim /\ c[2] = row.role
  BY <1>6
<1>8. MembershipSeen(new)'
  BY <1>1, <1>5 DEF MembershipSeen
<1>9. DOMAIN grants \cap blockedGrants = {}
  BY DEF ClaimsAgree
<1> HIDE DEF row, key, claim, entry, accepted
<1>10. CASE accepted
  <2>1. \/ claim \in blockedGrants'
        \/ claim \in DOMAIN grants' /\ grants'[claim] = row.role
    BY <1>1, <1>9, <1>10, GrantEffect
  <2>2. ClaimSeen(new)'
    BY <1>7, <2>1 DEF ClaimSeen
  <2>3. claim[2] \in KnownAccount' \cup KnownGroup' /\ claim[3] \in KnownResource'
    BY <1>2, <1>3, <1>4, <1>10 DEF KnownAccount
  <2>4. \A s \in seen' \ seen : ClaimSeen(s)' /\ MembershipSeen(s)'
    BY <1>1, <1>8, <2>2
  <2> QED
    BY <1>1, <1>10, <2>3, <2>4, ClaimsStep
<1>11. CASE ~accepted
  <2>1. ClaimSeen(new)'
    BY <1>2, <1>5, <1>6, <1>11 DEF ClaimSeen
  <2>2. \A s \in seen' \ seen : ClaimSeen(s)' /\ MembershipSeen(s)'
    BY <1>1, <1>8, <2>1
  <2> QED
    BY <1>1, <1>11, <2>2, ClaimsStep
<1> QED
  BY <1>10, <1>11

LEMMA InitClaims == Init => ClaimsAgree
BY DEF Init, ClaimsAgree, Empty

LEMMA NextClaims ==
  ASSUME AccountsAgree, RepositoriesAgree, TeamsAgree, Walking, ClaimsAgree, [Next]_vars
  PROVE  ClaimsAgree'
<1>1. Grown /\ (complete' => complete)
  BY Grows, CompleteEnds
<1>2. CASE Member
  BY <1>1, <1>2, ClaimsByMember
<1>3. CASE TeamMember
  BY <1>1, <1>3, ClaimsByTeamMember
<1>4. CASE Permission
  BY <1>1, <1>4, ClaimsByPermission
<1>5. CASE Collaborator
  <2>1. repository # Nobody
    BY <1>5 DEF Collaborator, Walking
  <2> QED
    BY <1>1, <1>5, <2>1, ClaimsByCollaborator
<1>6. CASE ~Member /\ ~TeamMember /\ ~Permission /\ ~Collaborator
  <2> DEFINE Others == {"organizations", "repositories", "teams", "team repositories"}
  <2>1. UNCHANGED claims
    BY <1>6 DEF Next, vars, NoMoreOrganizations, BudgetEndsOrganizations, OrganizationFails,
       Organization, Fetch, OrganizationRepository, TeamRow, TeamRepository, NextRepository,
       Step, RepositoryDone, OrganizationDone, Finish
  <2>2. \/ seen' = seen
        \/ \E list, about, row : See(list, about, row) /\ list \in Others
    BY <1>6 DEF Next, vars, NoMoreOrganizations, BudgetEndsOrganizations, OrganizationFails,
       Organization, Fetch, OrganizationRepository, TeamRow, TeamRepository, NextRepository,
       Step, RepositoryDone, OrganizationDone, Finish
  <2>3. \A s \in seen' \ seen : s.list \in Others
    <3> HIDE DEF Others
    <3> QED
      BY <2>2 DEF See
  <2>4. \A list \in Others :
          list \notin {"members", "admins", "team members", "permission", "collaborators"}
    OBVIOUS
  <2>5. \A s \in seen' \ seen : ClaimOf(s) = {}
    BY <2>3, <2>4, ClaimsOf
  <2>6. \A s \in seen' \ seen : ClaimSeen(s)' /\ MembershipSeen(s)'
    BY <2>3, <2>4, <2>5 DEF ClaimSeen, MembershipSeen
  <2> QED
    BY <1>1, <2>1, <2>6, ClaimsStep DEF claims
<1> QED
  BY <1>2, <1>3, <1>4, <1>5, <1>6

-----------------------------------------------------------------------------
(***************************************************************************)
(* The theorems.                                                           *)
(***************************************************************************)
\* What is recorded, is blocked or was seen, all together.
Inv ==
  /\ AccountsAgree /\ RepositoriesAgree /\ TeamsAgree
  /\ Walking /\ ClaimsAgree /\ NeverMalformed

\* What finish keeps refers to records that are in the snapshot.
LEMMA InvCloses == Inv => Closed
<1> SUFFICES ASSUME Inv PROVE Closed
  OBVIOUS
<1>1. /\ \A k : k \in KnownAccount \cup KnownGroup /\ ValidSubject(k) =>
               k \in DOMAIN accounts \cup DOMAIN groups
      /\ \A k : k \in KnownGroup /\ k \notin blockedGroups => k \in DOMAIN groups
      /\ \A k : k \in KnownResource /\ k \notin blockedResources => k \in DOMAIN resources
  BY DEF KnownAccount, KnownGroup, KnownResource, ValidSubject
<1>2. ASSUME NEW m \in Memberships
      PROVE  m[1] \in DOMAIN accounts \cup DOMAIN groups /\ m[2] \in DOMAIN groups
  BY <1>1 DEF Inv, ClaimsAgree, Memberships
<1>3. ASSUME NEW c \in Grants
      PROVE  c[2] \in DOMAIN accounts \cup DOMAIN groups /\ c[3] \in DOMAIN resources
  BY <1>1 DEF Inv, ClaimsAgree, Grants
<1>4. \A r \in DOMAIN resources : resources[r].parent \in {Nobody} \cup DOMAIN resources
  BY DEF Inv, RepositoriesAgree, Placed
<1> QED
  BY <1>2, <1>3, <1>4 DEF Closed

LEMMA InitInv == Init => Inv
BY InitAccounts, InitRepositories, InitTeams, InitWalking, InitClaims
   DEF Inv, Init, NeverMalformed

LEMMA NextInv == Inv /\ [Next]_vars => Inv'
<1> SUFFICES ASSUME Inv, [Next]_vars PROVE Inv'
  OBVIOUS
<1>1. AccountsAgree' /\ RepositoriesAgree' /\ TeamsAgree' /\ Walking' /\ ClaimsAgree'
  BY NextAccounts, NextRepositories, NextTeams, NextWalking, NextClaims DEF Inv
<1>2. NeverMalformed'
  <2>1. CASE Finish
    BY <2>1, InvCloses DEF Finish, NeverMalformed
  <2>2. CASE ~Finish
    BY <2>2 DEF Inv, NeverMalformed, Next, vars, NoMoreOrganizations, BudgetEndsOrganizations,
       OrganizationFails, Organization, Fetch, Member, OrganizationRepository, TeamRow,
       TeamMember, TeamRepository, Permission, NextRepository, Collaborator, Step,
       RepositoryDone, OrganizationDone
  <2> QED
    BY <2>1, <2>2
<1> QED
  BY <1>1, <1>2 DEF Inv

\* finish never builds a snapshot that the SDK's validator refuses, so no discovery
\* is lost to a claim whose subject or resource was blocked after it was recorded.
THEOREM SnapshotsAreWellFormed == Spec => []NeverMalformed
<1>1. Inv => NeverMalformed
  BY DEF Inv
<1> QED
  BY InitInv, NextInv, <1>1, PTL DEF Spec

LEMMA InvUncontradicted == Inv => Uncontradicted
<1> SUFFICES ASSUME Inv, NEW s \in seen
             PROVE
      /\ s.list \in AccountLists /\ AccountKey(s.row.id) \in DOMAIN accounts =>
           /\ s.row.login = accounts[AccountKey(s.row.id)].login
           /\ s.row.type \in {"absent", accounts[AccountKey(s.row.id)].type}
      /\ s.list \in RepositoryLists /\ RepositoryKey(s.row.id) \in DOMAIN resources =>
           resources[RepositoryKey(s.row.id)].name = <<s.row.owner, s.row.name>>
      /\ s.list = "teams" /\ TeamKey(s.row.id) \in DOMAIN groups =>
           groups[TeamKey(s.row.id)][2] = s.row.name
      /\ \A c \in ClaimOf(s) : c[1] \in Grants => grants[c[1]] = c[2]
  BY DEF Uncontradicted, RepositoryLists
<1>1. AccountSeen(s) /\ RepositorySeen(s) /\ TeamSeen(s) /\ ClaimSeen(s)
  BY DEF Inv, AccountsAgree, RepositoriesAgree, TeamsAgree, ClaimsAgree
<1>2. ASSUME NEW c \in ClaimOf(s), c[1] \in Grants PROVE grants[c[1]] = c[2]
  <2>1. /\ c[1] \in DOMAIN grants /\ c[1] \notin blockedGrants
        /\ ValidSubject(c[1][2]) /\ c[1][2] \in KnownAccount \cup KnownGroup
    BY <1>2 DEF Grants, Inv, ClaimsAgree
  <2>2. ASSUME s.list \in AccountLists,
               s.row.id = 0 \/ AccountKey(s.row.id) \in blockedAccounts
        PROVE  FALSE
    <3>1. s.list \in {"members", "admins", "collaborators"} \/ s.list = "team members"
      BY <2>2 DEF AccountLists
    <3>2. c[1][2] = AccountKey(s.row.id)
      <4>1. "team members" \notin {"members", "admins", "permission", "collaborators"}
        OBVIOUS
      <4>2. s.list # "team members"
        BY <4>1, <1>2, ClaimsOf
      <4>3. s.list = "members" \/ s.list = "admins" \/ s.list = "collaborators"
        BY <3>1, <4>2
      <4> QED
        BY <1>2, <4>3, ClaimsOf
    <3>3. AccountKey(0) \notin KnownAccount \cup KnownGroup
      BY DEF Inv, AccountsAgree, TeamsAgree
    <3> QED
      BY <2>1, <2>2, <3>2, <3>3 DEF ValidSubject
  <2> QED
    BY <1>1, <2>1, <2>2 DEF ClaimSeen
<1> QED
  BY <1>1, <1>2 DEF AccountSeen, RepositorySeen, TeamSeen

\* No row that was read contradicts a record of the snapshot, whichever came first.
THEOREM RecordsAreUncontradicted == Spec => []Uncontradicted
BY InitInv, NextInv, InvUncontradicted, PTL DEF Spec

LEMMA InvNothingLost == Inv => NothingLost
<1> SUFFICES ASSUME Inv, complete, NEW s \in seen
             PROVE
      /\ s.list \in AccountLists => AccountKey(s.row.id) \in DOMAIN accounts
      /\ s.list \in {"members", "admins", "team members"} =>
           <<AccountKey(s.row.id), s.about>> \in Memberships
      /\ s.list \in RepositoryLists => RepositoryKey(s.row.id) \in DOMAIN resources
      /\ s.list = "teams" => TeamKey(s.row.id) \in DOMAIN groups
      /\ \A c \in ClaimOf(s) : c[1] \in Grants /\ grants[c[1]] = c[2]
  BY DEF NothingLost, RepositoryLists
<1>1. /\ AccountSeen(s) /\ RepositorySeen(s) /\ TeamSeen(s)
      /\ ClaimSeen(s) /\ MembershipSeen(s)
  BY DEF Inv, AccountsAgree, RepositoriesAgree, TeamsAgree, ClaimsAgree
<1>2. /\ blockedAccounts = {} /\ blockedResources = {} /\ blockedGroups = {}
      /\ blockedGrants = {}
  BY DEF Inv, AccountsAgree, RepositoriesAgree, TeamsAgree, ClaimsAgree
<1>3. s.list \in {"members", "admins", "team members"} => s.list \in AccountLists
  BY DEF AccountLists
<1>4. ASSUME NEW c \in ClaimOf(s) PROVE c[1] \in Grants /\ grants[c[1]] = c[2]
  <2>1. c[1] \in DOMAIN grants /\ grants[c[1]] = c[2]
    BY <1>1, <1>2 DEF ClaimSeen, AccountSeen
  <2> QED
    BY <2>1, <1>2 DEF Grants, ValidSubject
<1>5. s.list \in {"members", "admins", "team members"} =>
        <<AccountKey(s.row.id), s.about>> \in Memberships
  BY <1>1, <1>2 DEF MembershipSeen, Memberships, ValidSubject
<1> QED
  BY <1>1, <1>2, <1>4, <1>5
     DEF AccountSeen, RepositorySeen, TeamSeen, KnownAccount, KnownResource, KnownGroup

\* A snapshot that calls itself complete holds every row of every list, with its
\* membership and its role.
THEOREM CompleteLosesNothing == Spec => []NothingLost
BY InitInv, NextInv, InvNothingLost, PTL DEF Spec

-----------------------------------------------------------------------------
(***************************************************************************)
(* Types.                                                                  *)
(***************************************************************************)
\* The rows in hand are of the list that was read; the organization and the team in
\* progress have keys.
Handling ==
  /\ stage \in AccountLists /\ fetched => items \in Seq(AccountRows)
  /\ stage \in RepositoryLists /\ fetched => items \in Seq(RepositoryRows)
  /\ stage = "permission" => items \in Seq(RepositoryRows) /\ items # <<>>
  /\ stage \in {"members", "admins"} => org.key \in GroupKeys
  /\ stage = "team members" => team.key \in GroupKeys

TInv == TypeOK /\ Handling

LEMMA InitT == Init => TInv
<1> SUFFICES ASSUME Init PROVE TInv
  OBVIOUS
<1>1. /\ stage = "organizations" /\ fetched = FALSE /\ teams = <<>> /\ items = <<>>
      /\ repositories = {} /\ repository = Nobody /\ spent = FALSE /\ rows = 0
      /\ memberships = {} /\ complete = TRUE /\ success = FALSE
      /\ blockedAccounts = {} /\ blockedResources = {} /\ blockedGroups = {}
      /\ DOMAIN accounts = {} /\ DOMAIN resources = {} /\ DOMAIN groups = {}
  BY DEF Init, Empty
<1>2. rows \in 0 .. MaxRows
  BY <1>1, GithubCollectionAssumption
<1>3. teams \in Seq(TeamRows) /\ items \in Seq(AccountRows)
  BY <1>1
<1>4. TypeOK
  BY <1>1, <1>2, <1>3 DEF TypeOK, Stages
<1>5. Handling
  BY <1>1 DEF Handling, AccountLists, RepositoryLists
<1> QED
  BY <1>4, <1>5 DEF TInv

LEMMA HeadOfRows ==
  ASSUME NEW S, NEW s \in Seq(S), s # <<>> PROVE Head(s) \in S /\ Tail(s) \in Seq(S)
OBVIOUS

\* What the handlers of rows do to the sets of keys.
LEMMA AccountTyped ==
  ASSUME TInv, NEW row \in AccountRows, Account(row)
  PROVE  DOMAIN accounts' \subseteq AccountKeys /\ blockedAccounts' \subseteq AccountKeys
<1>1. AccountKey(row.id) \in AccountKeys
  BY DEF AccountKeys
<1> QED
  BY <1>1 DEF Account, Put, Drop, people, TInv, TypeOK

LEMMA RepositoryTyped ==
  ASSUME TInv, NEW row \in RepositoryRows, Repository(row)
  PROVE  /\ DOMAIN resources' \subseteq ResourceKeys /\ blockedResources' \subseteq ResourceKeys
         /\ RepositoryKey(row.id) \in ResourceKeys
<1>1. RepositoryKey(row.id) \in ResourceKeys
  BY DEF ResourceKeys
<1> QED
  BY <1>1 DEF Repository, Put, Drop, things, TInv, TypeOK

LEMMA TeamTyped ==
  ASSUME TInv, NEW row \in TeamRows, Team(row)
  PROVE  /\ DOMAIN groups' \subseteq GroupKeys /\ blockedGroups' \subseteq GroupKeys
         /\ TeamKey(row.id) \in GroupKeys
<1>1. TeamKey(row.id) \in GroupKeys
  BY DEF GroupKeys
<1> QED
  BY <1>1 DEF Team, Put, Drop, sets, TInv, TypeOK

\* A step that takes the head of the rows of the same list, or none.
SameList ==
  /\ UNCHANGED <<stage, fetched, org, team>>
  /\ items' = Tail(items) /\ items # <<>> /\ fetched

LEMMA NextRow ==
  ASSUME TInv, SameList, stage \in AccountLists \cup RepositoryLists
  PROVE  /\ Handling' /\ items' \in Seq(AccountRows) \cup Seq(RepositoryRows)
         /\ stage \in AccountLists => Head(items) \in AccountRows
         /\ stage \in RepositoryLists => Head(items) \in RepositoryRows
<1>1. CASE stage \in AccountLists
  <2>1. items \in Seq(AccountRows) /\ stage \notin RepositoryLists /\ stage # "permission"
    BY <1>1 DEF TInv, Handling, SameList, AccountLists, RepositoryLists
  <2>2. Head(items) \in AccountRows /\ Tail(items) \in Seq(AccountRows)
    BY <2>1, HeadOfRows DEF SameList
  <2> QED
    BY <1>1, <2>1, <2>2 DEF TInv, Handling, SameList, GroupKeys
<1>2. CASE stage \in RepositoryLists
  <2>1. items \in Seq(RepositoryRows) /\ stage \notin AccountLists /\ stage # "permission"
    BY <1>2 DEF TInv, Handling, SameList, AccountLists, RepositoryLists
  <2>2. Head(items) \in RepositoryRows /\ Tail(items) \in Seq(RepositoryRows)
    BY <2>1, HeadOfRows DEF SameList
  <2> QED
    BY <1>2, <2>1, <2>2 DEF TInv, Handling, SameList, GroupKeys
<1> QED
  BY <1>1, <1>2

LEMMA NextT == TInv /\ [Next]_vars => TInv'
<1> SUFFICES ASSUME TInv, [Next]_vars PROVE TInv'
  OBVIOUS
<1> USE DEF Stages, Lists, AccountLists, RepositoryLists
<1>1. CASE NoMoreOrganizations \/ BudgetEndsOrganizations \/ OrganizationDone \/ Finish
  BY <1>1 DEF NoMoreOrganizations, BudgetEndsOrganizations, OrganizationDone, Finish,
     walk, people, things, sets, claims, TInv, TypeOK, Handling
<1>2. CASE OrganizationFails \/ UNCHANGED vars
  <2>1. /\ UNCHANGED <<stage, fetched, org, teams, team, items, repositories, repository,
                       rows, people, things, sets, claims, success>>
        /\ spent' \in {spent, TRUE} /\ complete' \in {complete, FALSE}
    BY <1>2 DEF OrganizationFails, Spend, vars, walk
  <2>2. complete' \in BOOLEAN /\ spent' \in BOOLEAN
    BY <2>1 DEF TInv, TypeOK
  <2>3. TypeOK'
    BY <2>1, <2>2 DEF people, things, sets, claims, TInv, TypeOK, AccountKeys, ResourceKeys,
       GroupKeys
  <2>4. Handling'
    BY <2>1 DEF TInv, Handling, GroupKeys
  <2> QED
    BY <2>3, <2>4 DEF TInv
<1>3. ASSUME NEW id \in OrganizationIds, Organization(id) PROVE TInv'
  <2>1. OrganizationKey(id) \in ResourceKeys /\ OrganizationKey(id) \in GroupKeys
    BY DEF ResourceKeys, GroupKeys
  <2>2. /\ DOMAIN resources' = DOMAIN resources \cup {OrganizationKey(id)}
        /\ DOMAIN groups' = DOMAIN groups \cup {OrganizationKey(id)}
        /\ org'.key = OrganizationKey(id)
    BY <1>3 DEF Organization, Put
  <2>3. /\ stage' = "members" /\ fetched' = FALSE /\ repositories' = {} /\ success' = TRUE
        /\ spent' \in {spent, TRUE}
        /\ UNCHANGED <<teams, team, items, repository, rows, people, blockedResources,
                       blockedGroups, claims, complete>>
    BY <1>3 DEF Organization, Spend
  <2>4. TypeOK'
    BY <2>1, <2>2, <2>3 DEF TInv, TypeOK, people, claims, AccountKeys, ResourceKeys, GroupKeys
  <2>5. Handling'
    BY <2>1, <2>2, <2>3 DEF Handling, GroupKeys
  <2> QED
    BY <2>4, <2>5 DEF TInv
<1>4. CASE Fetch
  <2>1. PICK n \in 0 .. MaxList : \E list \in [1 .. n -> Rows(stage)], error \in BOOLEAN :
          /\ Fits(n)
          /\ IF stage = "teams" THEN teams' = list /\ UNCHANGED items
                                ELSE items' = list /\ UNCHANGED teams
          /\ rows' = rows + n
          /\ complete' = (complete /\ ~error)
          /\ success' = (success \/ ~error \/ n > 0)
    BY <1>4 DEF Fetch
  <2>2. PICK list \in [1 .. n -> Rows(stage)], error \in BOOLEAN :
          /\ Fits(n)
          /\ IF stage = "teams" THEN teams' = list /\ UNCHANGED items
                                ELSE items' = list /\ UNCHANGED teams
          /\ rows' = rows + n
          /\ complete' = (complete /\ ~error)
          /\ success' = (success \/ ~error \/ n > 0)
    BY <2>1
  <2>3. list \in Seq(Rows(stage))
    <3>1. n \in Nat
      BY GithubCollectionAssumption
    <3> QED
      BY <3>1
  <2>4. rows' \in 0 .. MaxRows
    <3>1. rows \in 0 .. MaxRows
      BY DEF TInv, TypeOK
    <3>2. n \in Nat /\ MaxRows \in Nat
      BY GithubCollectionAssumption
    <3>3. n <= MaxRows - rows /\ rows' = rows + n
      BY <2>2 DEF Fits
    <3> QED
      BY <3>1, <3>2, <3>3
  <2>5. complete' \in BOOLEAN /\ success' \in BOOLEAN
    BY <2>2
  <2>6. /\ stage \in Lists /\ fetched' = TRUE /\ spent' \in {spent, TRUE}
        /\ UNCHANGED <<stage, orgs, org, team, repositories, repository, people, things,
                       sets, claims, seen>>
    BY <1>4 DEF Fetch, Spend
  <2>7. CASE stage = "teams"
    <3>1. teams' \in Seq(TeamRows) /\ items' = items
      BY <2>2, <2>3, <2>7 DEF Rows
    <3> QED
      BY <2>4, <2>5, <2>6, <2>7, <3>1 DEF TInv, TypeOK, Handling, people, things, sets,
         claims, AccountKeys, ResourceKeys, GroupKeys
  <2>8. CASE stage \in AccountLists
    <3>1. items' \in Seq(AccountRows) /\ teams' = teams
      BY <2>2, <2>3, <2>8 DEF Rows
    <3>2. TypeOK'
      BY <2>4, <2>5, <2>6, <3>1 DEF TInv, TypeOK, people, things, sets,
         claims, AccountKeys, ResourceKeys, GroupKeys
    <3> QED
      BY <2>6, <2>8, <3>1, <3>2 DEF TInv, Handling, GroupKeys
  <2>9. CASE stage \in RepositoryLists
    <3>1. items' \in Seq(RepositoryRows) /\ teams' = teams
      BY <2>2, <2>3, <2>9 DEF Rows
    <3>2. TypeOK'
      BY <2>4, <2>5, <2>6, <3>1 DEF TInv, TypeOK, people, things, sets,
         claims, AccountKeys, ResourceKeys, GroupKeys
    <3> QED
      BY <2>6, <2>9, <3>1, <3>2 DEF TInv, Handling, GroupKeys
  <2> QED
    BY <2>6, <2>7, <2>8, <2>9
<1>5. CASE Member
  <2> DEFINE row == Head(items)
  <2>1. SameList /\ stage \in {"members", "admins"} /\ Account(row)
    BY <1>5 DEF Member, SameList
  <2>2. row \in AccountRows /\ Handling' /\ items' \in Seq(AccountRows) \cup Seq(RepositoryRows)
    BY <2>1, NextRow
  <2>3. DOMAIN accounts' \subseteq AccountKeys /\ blockedAccounts' \subseteq AccountKeys
    BY <2>1, <2>2, AccountTyped
  <2>4. AccountKey(row.id) \in AccountKeys /\ org.key \in GroupKeys
    BY <2>1, <2>2 DEF AccountKeys, TInv, Handling
  <2>5. memberships' \subseteq memberships \cup {<<AccountKey(row.id), org.key>>}
    BY <1>5 DEF Member, claims
  <2>6. complete' \in BOOLEAN
    BY <1>5 DEF Member
  <2>7. UNCHANGED <<stage, fetched, teams, repositories, repository, rows, spent, things,
                    sets, success>>
    BY <1>5 DEF Member
  <2>8. memberships' \subseteq AccountKeys \X GroupKeys
    <3>1. memberships \subseteq AccountKeys \X GroupKeys
      BY DEF TInv, TypeOK
    <3>2. <<AccountKey(row.id), org.key>> \in AccountKeys \X GroupKeys
      BY <2>4
    <3> HIDE DEF row
    <3> QED
      BY <2>5, <3>1, <3>2
  <2> QED
    BY <2>2, <2>3, <2>6, <2>7, <2>8
       DEF TInv, TypeOK, things, sets, AccountKeys, ResourceKeys, GroupKeys
<1>6. CASE OrganizationRepository
  <2> DEFINE row == Head(items)
  <2>1. SameList /\ stage = "repositories" /\ Repository(row)
    BY <1>6 DEF OrganizationRepository, SameList
  <2>2. row \in RepositoryRows /\ Handling' /\ items' \in Seq(AccountRows) \cup Seq(RepositoryRows)
    BY <2>1, NextRow
  <2>3. /\ DOMAIN resources' \subseteq ResourceKeys /\ blockedResources' \subseteq ResourceKeys
        /\ RepositoryKey(row.id) \in ResourceKeys
    BY <2>1, <2>2, RepositoryTyped
  <2>4. repositories' \subseteq repositories \cup {RepositoryKey(row.id)}
    BY <1>6 DEF OrganizationRepository
  <2>5. complete' \in BOOLEAN
    BY <1>6 DEF OrganizationRepository
  <2>6. UNCHANGED <<stage, fetched, teams, repository, rows, spent, people, sets, claims,
                    success>>
    BY <1>6 DEF OrganizationRepository
  <2> QED
    BY <2>2, <2>3, <2>4, <2>5, <2>6
       DEF TInv, TypeOK, people, sets, claims, AccountKeys, ResourceKeys, GroupKeys
<1>7. CASE TeamRow
  <2> DEFINE row == Head(teams)
  <2>1. row \in TeamRows /\ teams' \in Seq(TeamRows)
    BY <1>7, HeadOfRows DEF TeamRow, TInv, TypeOK
  <2>2. Team(row)
    BY <1>7 DEF TeamRow
  <2>3. /\ DOMAIN groups' \subseteq GroupKeys /\ blockedGroups' \subseteq GroupKeys
        /\ TeamKey(row.id) \in GroupKeys
    BY <2>1, <2>2, TeamTyped
  <2>4. complete' \in BOOLEAN
    BY <1>7 DEF TeamRow
  <2>5. /\ stage = "teams"
        /\ \/ stage' = "team members" /\ fetched' = FALSE /\ team'.key = TeamKey(row.id)
           \/ UNCHANGED <<team, stage, fetched>>
        /\ UNCHANGED <<org, items, repositories, repository, rows, spent, people, things,
                       claims, success>>
    <3>1. CASE TeamVerdict(row) = "accepted"
      <4>1. /\ team' = [key |-> TeamKey(row.id), slug |-> row.slug]
            /\ stage' = "team members" /\ fetched' = FALSE
        BY <1>7, <3>1 DEF TeamRow
      <4>2. team'.key = TeamKey(row.id)
        BY <4>1
      <4>3. /\ stage = "teams"
            /\ UNCHANGED <<org, items, repositories, repository, rows, spent, people, things,
                           claims, success>>
        BY <1>7 DEF TeamRow
      <4> QED
        BY <4>1, <4>2, <4>3
    <3>2. CASE TeamVerdict(row) # "accepted"
      BY <1>7, <3>2 DEF TeamRow
    <3> QED
      BY <3>1, <3>2
  <2>6. TypeOK'
    BY <2>1, <2>3, <2>4, <2>5
       DEF TInv, TypeOK, people, things, claims, AccountKeys, ResourceKeys, GroupKeys
  <2>7. Handling'
    BY <2>3, <2>5 DEF TInv, Handling, GroupKeys
  <2> QED
    BY <2>6, <2>7 DEF TInv
<1>8. CASE TeamMember
  <2> DEFINE row == Head(items)
  <2>1. SameList /\ stage = "team members" /\ Account(row)
    BY <1>8 DEF TeamMember, SameList
  <2>2. row \in AccountRows /\ Handling' /\ items' \in Seq(AccountRows) \cup Seq(RepositoryRows)
    BY <2>1, NextRow
  <2>3. DOMAIN accounts' \subseteq AccountKeys /\ blockedAccounts' \subseteq AccountKeys
    BY <2>1, <2>2, AccountTyped
  <2>4. AccountKey(row.id) \in AccountKeys /\ team.key \in GroupKeys
    BY <2>1, <2>2 DEF AccountKeys, TInv, Handling
  <2>5. memberships' \subseteq memberships \cup {<<AccountKey(row.id), team.key>>}
    BY <1>8 DEF TeamMember
  <2>6. complete' \in BOOLEAN
    BY <1>8 DEF TeamMember
  <2>7. UNCHANGED <<stage, fetched, teams, repositories, repository, rows, spent, things,
                    sets, success>>
    BY <1>8 DEF TeamMember
  <2>8. memberships' \subseteq AccountKeys \X GroupKeys
    <3>1. memberships \subseteq AccountKeys \X GroupKeys
      BY DEF TInv, TypeOK
    <3>2. <<AccountKey(row.id), team.key>> \in AccountKeys \X GroupKeys
      BY <2>4
    <3> HIDE DEF row
    <3> QED
      BY <2>5, <3>1, <3>2
  <2> QED
    BY <2>2, <2>3, <2>6, <2>7, <2>8
       DEF TInv, TypeOK, things, sets, AccountKeys, ResourceKeys, GroupKeys
<1>9. CASE TeamRepository
  <2> DEFINE row == Head(items)
  <2>1. /\ stage = "team repositories" /\ fetched /\ items # <<>> /\ Repository(row)
        /\ \/ stage' = "permission" /\ UNCHANGED items
           \/ items' = Tail(items) /\ UNCHANGED stage
        /\ UNCHANGED <<fetched, org, teams, team, repositories, repository, rows, spent,
                       people, sets, claims, success>>
    BY <1>9 DEF TeamRepository
  <2>2. items \in Seq(RepositoryRows)
    BY <2>1 DEF TInv, Handling
  <2>3. row \in RepositoryRows /\ items' \in Seq(RepositoryRows)
    BY <2>1, <2>2, HeadOfRows
  <2>4. DOMAIN resources' \subseteq ResourceKeys /\ blockedResources' \subseteq ResourceKeys
    BY <2>1, <2>3, RepositoryTyped
  <2>5. complete' \in BOOLEAN
    BY <1>9 DEF TeamRepository
  <2>6. TypeOK'
    BY <2>1, <2>3, <2>4, <2>5
       DEF TInv, TypeOK, people, sets, claims, AccountKeys, ResourceKeys, GroupKeys
  <2>7. Handling'
    BY <2>1, <2>2, <2>3 DEF TInv, Handling, GroupKeys
  <2> QED
    BY <2>6, <2>7 DEF TInv
<1>10. CASE Permission
  <2> DEFINE key == RepositoryKey(Head(items).id)
  <2>1. /\ stage = "permission" /\ stage' = "team repositories" /\ items' = Tail(items)
        /\ spent' \in {spent, TRUE} /\ repositories' = repositories \cup {key}
        /\ UNCHANGED <<fetched, org, teams, team, repository, rows, people, things, sets,
                       memberships, success>>
    BY <1>10 DEF Permission, Spend
  <2>2. items \in Seq(RepositoryRows) /\ items # <<>>
    BY <2>1 DEF TInv, Handling
  <2>3. Head(items) \in RepositoryRows /\ items' \in Seq(RepositoryRows)
    BY <2>1, <2>2, HeadOfRows
  <2>4. key \in ResourceKeys
    BY <2>3 DEF ResourceKeys
  <2>5. complete' \in BOOLEAN
    BY <1>10 DEF Permission
  <2>6. TypeOK'
    BY <2>1, <2>3, <2>4, <2>5
       DEF TInv, TypeOK, people, things, sets, AccountKeys, ResourceKeys, GroupKeys
  <2>7. Handling'
    BY <2>1, <2>3 DEF Handling, GroupKeys
  <2> QED
    BY <2>6, <2>7 DEF TInv
<1>11. ASSUME NEW key \in repositories, NextRepository(key) PROVE TInv'
  <2>1. /\ repositories' \subseteq repositories /\ repository' \in {repository, key}
        /\ complete' \in BOOLEAN
    BY <1>11 DEF NextRepository, TInv, TypeOK
  <2>2. /\ stage = "collaborators"
        /\ UNCHANGED <<stage, fetched, org, teams, team, items, rows, spent, people, things,
                       sets, claims, success>>
    BY <1>11 DEF NextRepository
  <2> QED
    BY <2>1, <2>2 DEF TInv, TypeOK, Handling, people, things, sets, claims, AccountKeys,
       ResourceKeys, GroupKeys
<1>12. CASE Collaborator
  <2> DEFINE row == Head(items)
  <2>1. SameList /\ stage = "collaborators" /\ Account(row)
    BY <1>12 DEF Collaborator, SameList
  <2>2. row \in AccountRows /\ Handling' /\ items' \in Seq(AccountRows) \cup Seq(RepositoryRows)
    BY <2>1, NextRow
  <2>3. DOMAIN accounts' \subseteq AccountKeys /\ blockedAccounts' \subseteq AccountKeys
    BY <2>1, <2>2, AccountTyped
  <2>4. complete' \in BOOLEAN
    BY <1>12 DEF Collaborator
  <2>5. UNCHANGED <<stage, fetched, teams, repositories, repository, rows, spent, things,
                    sets, memberships, success>>
    BY <1>12 DEF Collaborator
  <2> QED
    BY <2>2, <2>3, <2>4, <2>5
       DEF TInv, TypeOK, things, sets, AccountKeys, ResourceKeys, GroupKeys
<1>13. ASSUME NEW from \in Lists, NEW to \in Lists, Step(from, to),
              <<from, to>> \in {<<"members", "admins">>, <<"admins", "repositories">>,
                <<"repositories", "teams">>, <<"team members", "team repositories">>,
                <<"team repositories", "teams">>, <<"teams", "collaborators">>}
       PROVE  TInv'
  <2>1. /\ stage = from /\ stage' = to /\ fetched' = (from = "team repositories")
        /\ UNCHANGED <<walk, people, things, sets, claims, complete, success, seen>>
    BY <1>13 DEF Step
  <2>2. TypeOK'
    BY <2>1 DEF TInv, TypeOK, walk, people, things, sets, claims, AccountKeys, ResourceKeys,
       GroupKeys
  <2>3. Handling'
    BY <1>13, <2>1 DEF TInv, Handling, walk, GroupKeys
  <2> QED
    BY <2>2, <2>3 DEF TInv
<1>14. CASE RepositoryDone
  BY <1>14 DEF RepositoryDone, TInv, TypeOK, Handling, people, things, sets, claims,
     AccountKeys, ResourceKeys, GroupKeys
<1> QED
  BY <1>1, <1>2, <1>3, <1>4, <1>5, <1>6, <1>7, <1>8, <1>9, <1>10, <1>11, <1>12, <1>13, <1>14
     DEF Next

\* The traversal counts its rows within the budget (Budget.rows, client.rs 63-70) and
\* the records' keys are of entities that rows have named (records.rs 75-267).
THEOREM TypeCorrect == Spec => []TypeOK
<1>1. TInv => TypeOK
  BY DEF TInv
<1> QED
  BY InitT, NextT, <1>1, PTL DEF Spec

=============================================================================
