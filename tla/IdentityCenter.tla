--------------------------- MODULE IdentityCenter ---------------------------
(***************************************************************************)
(* One discovery of the Identity Center binary of the AWS provider: prove  *)
(* binds the caller and the instance, and collect lists the users and the  *)
(* groups of the store, the members of each group, on request the accounts *)
(* of the organization, and for each configured account its permission     *)
(* sets and who they are assigned to.  One Pager follows all these lists,  *)
(* one count of rows is shared by all but the instances.                   *)
(*                                                                         *)
(* A call stands for all attempts the SDK makes at it; one that the        *)
(* transport does not let through fails like any other.                    *)
(***************************************************************************)
EXTENDS Naturals, Sequences, FiniteSets, SequencesExt

CONSTANTS
  Configured,  \* config.accounts
  Include,     \* the values of config.include_organizations
  Pages,       \* Pages[l]: what a page of the list l may hold
  Tokens,      \* continuation tokens that are accepted
  MaxPages,    \* MAX_PAGES
  MaxRows      \* MAX_ROWS, of source rows and of graph records

Bad == "bad"

\* The lists, and what a row says as far as it is told apart; an id, ARN or label that
\* does not fit the store, the instance, the group or the account asked for is Bad.
\*   instances    "ours", "moved" (in another store) or "other"
\*   users        an id
\*   groups       an id
\*   members      [id, user]: the membership, and its user if it is one
\*   accounts     [id, named]
\*   permissions  an ARN
\*   assignments  [kind, id]: of the principal
Lists ==
  {"instances", "users", "groups", "members", "accounts", "permissions", "assignments"}

ASSUME IdentityCenterAssumption ==
  /\ DOMAIN Pages = Lists
  /\ \A l \in Lists : \A values \in Pages[l] : values \in Seq(Range(values))
  /\ Include \subseteq BOOLEAN
  /\ Bad \notin Tokens /\ "none" \notin Tokens \cup Configured
  /\ \A values \in Pages["groups"] : "none" \notin Range(values)
  /\ MaxPages \in Nat \ {0} /\ MaxRows \in Nat

VARIABLES
  stage,        \* "caller", the list being read, "sets", "describe", or the end
  organizations,\* config.include_organizations
  read,         \* the current list has been read
  out,          \* the rows of its pages so far
  tokens,       \* and the tokens these pages handed out
  rows,         \* rows
  users,        \* user_keys
  groups,       \* group_keys
  todo,         \* groups, then configured accounts, that have not been walked
  at,           \* the one in progress
  sets,         \* the permission sets of the account in progress
  set,          \* and the index of the one in progress
  memberIds,    \* membership_ids
  memberships,  \* <<user, group>>
  resources,    \* <<account>> and <<account, permission set>>
  grants,       \* <<account, permission set, kind and id of the principal>>
  complete,     \* snapshot.complete
  examined,     \* history: their rows, with the list they are of (not of the instances)
  whole         \* history: the lists read to a page after which there is none

pager == <<read, out, tokens>>
directory == <<users, groups, memberIds, memberships>>
walk == <<todo, at, sets, set>>
access == <<resources, grants>>
vars ==
  <<stage, organizations, pager, rows, directory, walk, access, complete, examined, whole>>

Init ==
  /\ stage = "caller" /\ organizations \in Include
  /\ read = FALSE /\ out = <<>> /\ tokens = <<>> /\ rows = 0
  /\ users = {} /\ groups = {}
  /\ todo = {} /\ at = "none" /\ sets = <<>> /\ set = 0
  /\ memberIds = {} /\ memberships = {} /\ resources = {} /\ grants = {}
  /\ complete = TRUE /\ examined = {} /\ whole = {}

Fail ==
  /\ stage' = "failed"
  /\ UNCHANGED <<organizations, pager, rows, directory, walk, access, complete, examined, whole>>

IdentityProved ==
  /\ stage = "caller"
  /\ stage' = "instances"
  /\ UNCHANGED <<organizations, pager, rows, directory, walk, access, complete, examined, whole>>

\* GetCallerIdentity fails, or names another account or another role.
IdentityFails == stage = "caller" /\ Fail

-----------------------------------------------------------------------------
(***************************************************************************)
(* Pager and fetch!.                                                       *)
(***************************************************************************)
ReadingList ==
  /\ stage \in Lists /\ ~read
  /\ stage \in {"members", "permissions"} => at # "none"

\* Mutant of Advance: the page limit is an end like any other.
AdvanceQuietly(token) ==
  IF token = "none" THEN "end"
  ELSE IF token \notin Tokens \/ token \in Range(tokens) THEN "cut"
  ELSE IF Len(tokens) + 1 = MaxPages THEN "end" ELSE "more"

\* What Pager::advance makes of the token of a page.
Advance(token) ==
  IF token = "none" THEN "end"
  ELSE IF token \notin Tokens \/ token \in Range(tokens) THEN "cut"
  ELSE IF Len(tokens) + 1 = MaxPages THEN "cut" ELSE "more"

\* Mutant of Charged: the limit is one of a page.
ChargedAlone(values) == IF stage = "instances" THEN rows ELSE Len(values)

Charged(values) == IF stage = "instances" THEN rows ELSE rows + Len(values)

\* A page whose token is not followed is kept; without the instance list the
\* discovery fails, any other list is only cut short.
ListPage(values, token) ==
  /\ ReadingList /\ Charged(values) <= MaxRows
  /\ rows' = Charged(values)
  /\ out' = out \o values /\ tokens' = Append(tokens, token)
  /\ read' = (Advance(token) # "more")
  /\ complete' = (complete /\ Advance(token) # "cut")
  /\ stage' = IF stage = "instances" /\ Advance(token) = "cut" THEN "failed" ELSE stage
  /\ UNCHANGED <<organizations, directory, walk, access, examined, whole>>

\* The rows of a page that exceeds the limit are not read, and from then on no list is.
ListTooLong(values) ==
  /\ ReadingList /\ Charged(values) > MaxRows
  /\ rows' = MaxRows + 1
  /\ read' = TRUE
  /\ complete' = FALSE
  /\ UNCHANGED <<stage, organizations, out, tokens, directory, walk, access, examined, whole>>

ListFails ==
  /\ ReadingList
  /\ IF stage = "instances" THEN Fail
     ELSE /\ read' = TRUE
          /\ complete' = FALSE
          /\ UNCHANGED <<stage, organizations, out, tokens, rows, directory, walk, access,
                         examined, whole>>

-----------------------------------------------------------------------------
(***************************************************************************)
(* The rows of a list that has been read.                                  *)
(***************************************************************************)
Listed == Range(out)

Ids == [i \in DOMAIN out |-> out[i].id]

\* The list with the group, or the account and permission set, it is of.
Where == <<stage, at, IF set = 0 THEN "none" ELSE sets[set]>>

Close ==
  /\ read' = FALSE /\ out' = <<>> /\ tokens' = <<>>
  /\ whole' = IF tokens # <<>> /\ tokens[Len(tokens)] = "none" /\ IsInjective(tokens)
              THEN whole \cup {Where} ELSE whole

Examine == examined' = examined \cup {<<Where, row>> : row \in Listed}

\* The configured instance, once and with its store.
TakeInstances ==
  /\ stage = "instances" /\ read
  /\ Close
  /\ stage' = IF /\ "moved" \notin Listed
                 /\ Cardinality({i \in DOMAIN out : out[i] = "ours"}) = 1
              THEN "users" ELSE "failed"
  /\ UNCHANGED <<organizations, rows, directory, walk, access, complete, examined>>

TakeUsers ==
  /\ stage = "users" /\ read
  /\ Close /\ Examine
  /\ users' = Listed
  /\ stage' = IF Bad \notin Listed /\ IsInjective(out) THEN "groups" ELSE "failed"
  /\ UNCHANGED <<organizations, rows, groups, memberIds, memberships, walk, access, complete>>

TakeGroups ==
  /\ stage = "groups" /\ read
  /\ Close /\ Examine
  /\ groups' = Listed /\ todo' = Listed
  /\ stage' = IF Listed \cap ({Bad} \cup users) = {} /\ IsInjective(out)
              THEN "members" ELSE "failed"
  /\ UNCHANGED <<organizations, rows, users, memberIds, memberships, at, sets, set, access, complete>>

\* The maps are walked by id; which id comes first is left open.
NextGroup(g) ==
  /\ stage = "members" /\ at = "none" /\ g \in todo
  /\ at' = g /\ todo' = todo \ {g}
  /\ UNCHANGED <<stage, organizations, pager, rows, directory, sets, set, access, complete,
                 examined, whole>>

\* A member that is no user, or none that is known, is left out; a membership that is
\* not of this group, or was there before, ends the discovery.
TakeMembers ==
  /\ stage = "members" /\ read
  /\ Close /\ Examine
  /\ LET known == {i \in DOMAIN out : out[i].user \in users}
         sound == /\ Range(Ids) \cap ({Bad} \cup memberIds) = {} /\ IsInjective(Ids)
                  /\ \A i, j \in known : out[i].user = out[j].user => i = j
     IN
       /\ memberIds' = memberIds \cup Range(Ids)
       /\ memberships' = memberships \cup {<<out[i].user, at>> : i \in known}
       /\ complete' = (complete /\ known = DOMAIN out)
       /\ stage' = IF sound THEN "members" ELSE "failed"
  /\ at' = "none"
  /\ UNCHANGED <<organizations, rows, users, groups, todo, sets, set, access>>

\* No group is left: the accounts follow, described by the organization or not.
GroupsDone ==
  /\ stage = "members" /\ at = "none" /\ todo = {}
  /\ stage' = IF organizations THEN "accounts" ELSE "permissions"
  /\ todo' = Configured
  /\ UNCHANGED <<organizations, pager, rows, directory, at, sets, set, access, complete,
                 examined, whole>>

\* Only names are taken from the organization, whose accounts need not be configured.
TakeAccounts ==
  /\ stage = "accounts" /\ read
  /\ Close /\ Examine
  /\ stage' = IF /\ \A row \in Listed : row.id # Bad /\ (row.id \in Configured => row.named)
                 /\ IsInjective(Ids)
              THEN "permissions" ELSE "failed"
  /\ complete' = (complete /\ Configured \subseteq {row.id : row \in Listed})
  /\ UNCHANGED <<organizations, rows, directory, walk, access>>

-----------------------------------------------------------------------------
(***************************************************************************)
(* Permission sets and assignments.                                        *)
(***************************************************************************)
NextAccount(a) ==
  /\ stage = "permissions" /\ at = "none" /\ a \in todo
  /\ at' = a /\ todo' = todo \ {a}
  /\ resources' = resources \cup {<<a>>}
  /\ UNCHANGED <<stage, organizations, pager, rows, directory, sets, set, grants, complete,
                 examined, whole>>

TakePermissions ==
  /\ stage = "permissions" /\ read
  /\ Close /\ Examine
  /\ sets' = out
  /\ stage' = "sets"
  /\ UNCHANGED <<organizations, rows, directory, todo, at, set, access, complete>>

\* A permission set of another instance, or a second time, ends the discovery.
NextSet ==
  /\ stage = "sets" /\ set < Len(sets)
  /\ set' = set + 1
  /\ stage' = IF sets[set'] # Bad /\ \A i \in 1 .. set : sets[i] # sets[set']
              THEN "describe" ELSE "failed"
  /\ UNCHANGED <<organizations, pager, rows, directory, todo, at, sets, access, complete,
                 examined, whole>>

SetsDone ==
  /\ stage = "sets" /\ set = Len(sets)
  /\ stage' = "permissions"
  /\ at' = "none" /\ sets' = <<>> /\ set' = 0
  /\ UNCHANGED <<organizations, pager, rows, directory, todo, access, complete, examined, whole>>

Described ==
  /\ stage = "describe"
  /\ resources' = resources \cup {<<at, sets[set]>>}
  /\ stage' = "assignments"
  /\ UNCHANGED <<organizations, pager, rows, directory, walk, grants, complete, examined, whole>>

\* A set that cannot be described is passed over with its assignments.
DescribeFails ==
  /\ stage = "describe"
  /\ stage' = "sets"
  /\ complete' = FALSE
  /\ UNCHANGED <<organizations, pager, rows, directory, walk, access, examined, whole>>

\* The answer has no name that can be shown, or is of another set.
DescribesAnother == stage = "describe" /\ Fail

\* Mutant of Resolved: an id is looked up whatever kind the assignment states.
ResolvedAnyKind(row) == row.id \in users \cup groups

Resolved(row) ==
  \/ row.kind = "USER" /\ row.id \in users
  \/ row.kind = "GROUP" /\ row.id \in groups

\* An assignment of another account or set, or to an id that is none, ends the
\* discovery, as does one that is there twice; to whom it cannot be resolved, it is left out.
TakeAssignments ==
  /\ stage = "assignments" /\ read
  /\ Close /\ Examine
  /\ LET known == {i \in DOMAIN out : Resolved(out[i])} IN
       /\ grants' = grants \cup {<<at, sets[set], <<out[i].kind, out[i].id>>>> : i \in known}
       /\ complete' = (complete /\ known = DOMAIN out)
       /\ stage' = IF /\ \A row \in Listed : row.id # Bad
                      /\ \A i, j \in known : out[i] = out[j] => i = j
                   THEN "sets" ELSE "failed"
  /\ UNCHANGED <<organizations, rows, directory, walk, resources>>

Size ==
  Cardinality(users) + Cardinality(groups) + Cardinality(memberships)
    + Cardinality(resources) + Cardinality(grants)

\* Snapshot::validate: every reference has its record.
Closed ==
  /\ memberships \subseteq users \X groups
  /\ \A g \in grants : /\ <<g[1], g[2]>> \in resources
                        /\ g[3][2] \in IF g[3][1] = "USER" THEN users ELSE groups

CollectEnds ==
  /\ stage = "permissions" /\ at = "none" /\ todo = {}
  /\ stage' = IF Size > MaxRows THEN "failed" ELSE IF Closed THEN "done" ELSE "malformed"
  /\ UNCHANGED <<organizations, pager, rows, directory, walk, access, complete, examined, whole>>

Next ==
  \/ IdentityProved \/ IdentityFails
  \/ \E values \in IF stage \in Lists THEN Pages[stage] ELSE {} :
       \/ \E token \in Tokens \cup {"none", Bad} : ListPage(values, token)
       \/ ListTooLong(values)
  \/ ListFails
  \/ TakeInstances \/ TakeUsers \/ TakeGroups \/ TakeMembers \/ GroupsDone
  \/ \E x \in todo : NextGroup(x) \/ NextAccount(x)
  \/ TakeAccounts \/ TakePermissions \/ NextSet \/ SetsDone
  \/ Described \/ DescribeFails \/ DescribesAnother \/ TakeAssignments \/ CollectEnds

Spec == Init /\ [][Next]_vars

-----------------------------------------------------------------------------
(***************************************************************************)
(* Properties.                                                             *)
(***************************************************************************)
TypeOK ==
  /\ stage \in Lists \cup {"caller", "sets", "describe", "done", "failed", "malformed"}
  /\ organizations \in Include /\ read \in BOOLEAN /\ complete \in BOOLEAN
  /\ Len(tokens) <= MaxPages /\ rows \in 0 .. MaxRows + 1
  /\ todo \subseteq groups \cup Configured /\ at \in {"none"} \cup groups \cup Configured
  /\ set \in 0 .. Len(sets)
  /\ Cardinality(users) + Cardinality(groups) + Cardinality(memberships)
       + Cardinality(grants) <= rows

Of(list) == {e \in examined : e[1][1] = list}

\* "Missing directory principals cause partial coverage and no invented
\* membership/grant. Conflicting IDs or scope fields fail closed"
\* (docs/aws-identity-center.md 98): the snapshot validates, no id of it is a user's and a group's,
\* and memberships and grants are exactly the rows whose principal was itself listed as
\* what the row says it is, by permission sets of the configured accounts.
EvidenceIsExact ==
  LET isUser == {e[2] : e \in Of("users")}
      isGroup == {e[2] : e \in Of("groups")}
  IN
    /\ stage # "malformed"
    /\ stage = "done" =>
         /\ isUser \cap isGroup = {}
         /\ memberships =
              {<<e[2].user, e[1][2]>> : e \in {x \in Of("members") : x[2].user \in isUser}}
         /\ grants = {<<e[1][2], e[1][3], <<e[2].kind, e[2].id>>>> :
                        e \in {x \in Of("assignments") :
                                 x[2].id \in CASE x[2].kind = "USER"  -> isUser
                                               [] x[2].kind = "GROUP" -> isGroup
                                               [] OTHER               -> {}}}
         /\ \A m, n \in Of("members") : m[2].id = n[2].id => m = n
         /\ {r[1] : r \in resources} = Configured

\* complete=true means that every list that leads to evidence was read along new tokens
\* to a page that names none, those of each group, each account and each permission
\* set included, and that none of their rows was left out.
CompleteIsWhole ==
  stage = "done" /\ complete =>
    /\ {<<l, "none", "none">> : l \in {"instances", "users", "groups"}} \subseteq whole
    /\ {<<"members", g, "none">> : g \in groups} \subseteq whole
    /\ {<<"permissions", a, "none">> : a \in Configured} \subseteq whole
    /\ \A e \in Of("permissions") : <<"assignments", e[1][2], e[2]>> \in whole
    /\ organizations => /\ <<"accounts", "none", "none">> \in whole
                        /\ Configured \subseteq {e[2].id : e \in Of("accounts")}
    /\ \A e \in Of("members") : <<e[2].user, e[1][2]>> \in memberships
    /\ \A e \in Of("assignments") : <<e[1][2], e[1][3], <<e[2].kind, e[2].id>>>> \in grants

=============================================================================
