------------------------------ MODULE Cloudflare ------------------------------
(***************************************************************************)
(* One Cloudflare discovery: request with its retries, listing over        *)
(* numbered pages whose totals are optional, and collect, which lists the  *)
(* members, the zones and the groups of the account, reads what policies   *)
(* assign to each, and then walks the groups for their members.  A policy  *)
(* that cannot be stated as a grant takes away everything its subject has. *)
(*                                                                         *)
(* Cloudflare answers as it likes, page by page: totals come, go and       *)
(* change, pages repeat, rows of one id disagree.  The operation deadline, *)
(* which drops a discovery, is that of Session.                            *)
(***************************************************************************)
EXTENDS Naturals, Sequences, FiniteSets

CONSTANTS
  MemberIds, ZoneIds, GroupIds,  \* native ids
  Pages,        \* Pages[l]: what a page of the list l may hold
  Infos,        \* what its result_info may say
  PageSize,     \* per_page
  MaxPages,     \* MAX_PAGES
  MaxRows,      \* MAX_ROWS
  MaxRequests   \* MAX_REQUESTS

Bad == "bad"

\* "other" is every policy that does not assign plainly: a deny, a field that is not
\* known, an assignment that is not there.  "*" and zones are the targets that can
\* be understood.
Policy ==
  [id : STRING, access : {"allow", "other"}, roles : SUBSET [id : STRING, name : STRING],
   targets : SUBSET (ZoneIds \cup {"*", "elsewhere"})]

\* A row as far as it is told apart.  usable: it has the fields its record needs.
MemberRow ==
  [id : MemberIds \cup {Bad}, status : {"accepted", "pending", Bad}, policies : SUBSET Policy]

ZoneRow == [id : ZoneIds \cup {Bad}, ours : BOOLEAN, usable : BOOLEAN]

GroupRow == [id : GroupIds \cup {Bad}, usable : BOOLEAN, policies : SUBSET Policy]

Row ==
  [ members      |-> MemberRow,
    zones        |-> ZoneRow,
    groups       |-> GroupRow,
    groupMembers |-> [id : MemberIds \cup {Bad}, status : {"accepted", "pending", Bad}] ]

Lists == DOMAIN Row

NoGroup == "none"

\* An optional total is a set of at most one number.  agrees: the fields page,
\* per_page and count, where there are any, are those of the page.
Info == [agrees : BOOLEAN, count : SUBSET Nat, pages : SUBSET Nat]

ASSUME CloudflareAssumption ==
  /\ DOMAIN Pages = Lists
  /\ \A l \in Lists : Pages[l] \subseteq Seq(Row[l])
  /\ NoGroup \notin GroupIds
  /\ \A i \in Infos : /\ i.agrees \in BOOLEAN
                      /\ \A s \in {i.count, i.pages} : s \subseteq Nat /\ Cardinality(s) <= 1
  /\ PageSize \in Nat \ {0} /\ MaxPages \in Nat \ {0}
  /\ MaxRows \in Nat /\ MaxRequests \in Nat

VARIABLES
  stage,       \* "account", the list being read, or how the discovery ended
  requests,    \* Budget.requests
  attempt,     \* in request
  rows,        \* Budget.rows
  read,        \* the current list has been read
  shown,       \* its pages so far: rows and result_info
  members,     \* the unique rows of the members list
  zones,       \* zone_ids
  todo,        \* groups, as far as they have not been walked
  group,       \* the one in progress, if any
  denied,      \* group_blocked
  accounts,    \* active
  groups,      \* ids of snapshot.groups
  blocked,     \* ids of the accounts whose access is not understood
  grants,      \* <<kind and id of the subject, policy, role, target>>
  memberships, \* <<account, group>>
  complete,    \* snapshot.complete
  examined     \* history: the rows of the lists, with the list and the group

budget == <<requests, attempt, rows>>
list == <<read, shown>>
found == <<accounts, groups, blocked, grants, memberships>>
walk == <<todo, group, denied>>
vars == <<stage, budget, list, members, zones, walk, found, complete, examined>>

Init ==
  /\ stage = "account"
  /\ requests = 0 /\ attempt = 0 /\ rows = 0
  /\ read = FALSE /\ shown = <<>>
  /\ members = {} /\ zones = {}
  /\ todo = {} /\ group = NoGroup /\ denied = FALSE
  /\ accounts = {} /\ groups = {} /\ blocked = {} /\ grants = {} /\ memberships = {}
  /\ complete = TRUE /\ examined = {}

-----------------------------------------------------------------------------
(***************************************************************************)
(* request, and the account that collect starts from.                      *)
(***************************************************************************)
ReadingList == stage \in Lists /\ ~read /\ (stage = "groupMembers" => group # NoGroup)

\* A throttled or failing answer that may be asked for again.
Retry ==
  /\ stage = "account" \/ ReadingList
  /\ attempt < 2 /\ requests < MaxRequests
  /\ requests' = requests + 1
  /\ attempt' = attempt + 1
  /\ UNCHANGED <<stage, rows, list, members, zones, walk, found, complete, examined>>

Answered ==
  /\ requests < MaxRequests
  /\ requests' = requests + 1
  /\ attempt' = 0

\* Refused, throttled once too often, or not even sent.
Failed ==
  /\ requests' = IF requests < MaxRequests THEN requests + 1 ELSE requests
  /\ attempt' = 0

AccountRead ==
  /\ stage = "account" /\ Answered
  /\ stage' = "members"
  /\ UNCHANGED <<rows, list, members, zones, walk, found, complete, examined>>

\* The request failed, or its answer is of another account or has no name.
AccountFails ==
  /\ stage = "account" /\ Failed
  /\ stage' = "failed"
  /\ UNCHANGED <<rows, list, members, zones, walk, found, complete, examined>>

-----------------------------------------------------------------------------
(***************************************************************************)
(* listing.                                                                *)
(***************************************************************************)
Number == Len(shown) + 1

Rows == {r \in (DOMAIN shown) \X (1 .. PageSize) : r[2] \in DOMAIN shown[r[1]].rows}

Received(values) == Cardinality(Rows) + Len(values)

\* Mutant of Counts: each page is held to the total it states itself.
CountsOfPage(info) == info.count

\* known_total and known_pages: what one page has stated holds for the others.
Counts(info) == info.count \cup UNION {shown[p].info.count : p \in DOMAIN shown}

PageCounts(info) == info.pages \cup UNION {shown[p].info.pages : p \in DOMAIN shown}

Repeated(values) == values # <<>> /\ values \in {shown[p].rows : p \in DOMAIN shown}

Consistent(values, info) ==
  /\ info.agrees
  /\ Cardinality(Counts(info)) <= 1 /\ Cardinality(PageCounts(info)) <= 1
  /\ \A n \in Counts(info) : n >= Received(values)
  /\ \A k \in PageCounts(info) : k >= Number \/ (k = 0 /\ Number = 1 /\ values = <<>>)
  /\ \A n \in Counts(info), k \in PageCounts(info) : (n > Received(values)) = (k > Number)

\* A full page is taken to have a successor only if no total says otherwise.
More(values, info) ==
  \/ \E n \in Counts(info) : n > Received(values)
  \/ \E k \in PageCounts(info) : k > Number
  \/ Counts(info) \cup PageCounts(info) = {} /\ Len(values) = PageSize

Fits(values) == Len(values) <= PageSize /\ ~Repeated(values)

Accepted(values, info) ==
  /\ Fits(values) /\ rows + Len(values) <= MaxRows
  /\ Consistent(values, info)
  /\ More(values, info) => values # <<>>

TakePage(values, info) ==
  /\ ReadingList /\ Answered /\ Accepted(values, info)
  /\ rows' = rows + Len(values)
  /\ shown' = Append(shown, [rows |-> values, info |-> info])
  /\ read' = (~More(values, info) \/ Number = MaxPages)
  /\ complete' = (complete /\ ~(More(values, info) /\ Number = MaxPages))
  /\ UNCHANGED <<stage, members, zones, walk, found, examined>>

\* The rows of a page that is turned down are charged unless it is too long or a
\* repetition; the pages before it stand.
RefusePage(values, info) ==
  /\ ReadingList /\ Answered /\ ~Accepted(values, info)
  /\ rows' = IF ~Fits(values) THEN rows
             ELSE IF rows + Len(values) > MaxRows THEN MaxRows + 1 ELSE rows + Len(values)
  /\ read' = TRUE
  /\ complete' = FALSE
  /\ UNCHANGED <<stage, shown, members, zones, walk, found, examined>>

\* A request fails, or its answer has no list of rows.
ListFails ==
  /\ ReadingList /\ Failed
  /\ read' = TRUE
  /\ complete' = FALSE
  /\ UNCHANGED <<stage, rows, shown, members, zones, walk, found, examined>>

-----------------------------------------------------------------------------
(***************************************************************************)
(* unique and policies.                                                    *)
(***************************************************************************)
Listed == {shown[r[1]].rows[r[2]] : r \in Rows}

\* Mutant of Unique: rows without an id of their own stay.
UniqueAny == {r \in Listed : \A s \in Listed : s.id = r.id => s = r}

\* Rows that say the same once more are one; rows that differ take each other out.
Unique == {r \in Listed : r.id # Bad /\ \A s \in Listed : s.id = r.id => s = r}

GrantsOf(subject, policies) ==
  UNION {{<<subject, p.id, r.id, t>> : r \in p.roles, t \in p.targets} : p \in policies}

\* One policy that is not understood, or more than there may be rows, spoils them all.
Understood(policies) ==
  /\ \A p \in policies : /\ p.access = "allow" /\ p.roles # {} /\ p.targets # {}
                         /\ p.targets \subseteq zones \cup {"*"}
  /\ \A p, q \in policies : p.id = q.id => p = q
  /\ \A r, s \in UNION {p.roles : p \in policies} : r.id = s.id => r.name = s.name
  /\ Cardinality(GrantsOf("any", policies)) <= MaxRows

-----------------------------------------------------------------------------
(***************************************************************************)
(* collect.                                                                *)
(***************************************************************************)
NewList == read' = FALSE /\ shown' = <<>>

Examine == examined' = examined \cup {<<stage, group, r>> : r \in Listed}

TakeMembers ==
  /\ stage = "members" /\ read
  /\ members' = Unique
  /\ complete' = (complete /\ Unique = Listed)
  /\ stage' = "zones"
  /\ NewList /\ Examine
  /\ UNCHANGED <<budget, zones, walk, found>>

TakeZones ==
  /\ stage = "zones" /\ read
  /\ LET taken == {z \in Unique : z.ours /\ z.usable} IN
       /\ zones' = {z.id : z \in taken}
       /\ complete' = (complete /\ taken = Listed)
  /\ stage' = "groups"
  /\ NewList /\ Examine
  /\ UNCHANGED <<budget, members, walk, found>>

\* The groups have been listed; the members' own policies are read.
TakeGroups ==
  /\ stage = "groups" /\ read
  /\ LET active == {m \in members : m.status = "accepted"}
         spoilt == {m \in active : ~Understood(m.policies)}
     IN
       /\ accounts' = {m.id : m \in active}
       /\ blocked' = {m.id : m \in spoilt}
       /\ grants' = UNION {GrantsOf(<<"account", m.id>>, m.policies) : m \in active \ spoilt}
       /\ complete' = (/\ complete /\ Unique = Listed /\ spoilt = {}
                       /\ \A m \in members : m.status # Bad)
       /\ todo' = Unique
       /\ stage' = IF Cardinality(grants') > MaxRows THEN "failed" ELSE "groupMembers"
  /\ members' = {}
  /\ NewList /\ Examine
  /\ UNCHANGED <<budget, zones, group, denied, groups, memberships>>

\* A group without a usable name is passed over, with its policies and its members.
SkipGroup(g) ==
  /\ stage = "groupMembers" /\ group = NoGroup /\ g \in todo /\ ~g.usable
  /\ todo' = todo \ {g}
  /\ complete' = FALSE
  /\ UNCHANGED <<stage, budget, list, members, zones, group, denied, found, examined>>

\* The map of groups is walked by id; which id comes first is left open.
NextGroup(g) ==
  /\ stage = "groupMembers" /\ group = NoGroup /\ g \in todo /\ g.usable
  /\ todo' = todo \ {g}
  /\ group' = g.id
  /\ groups' = groups \cup {g.id}
  /\ denied' = ~Understood(g.policies)
  /\ grants' = IF denied' THEN grants
               ELSE grants \cup GrantsOf(<<"group", g.id>>, g.policies)
  /\ complete' = (complete /\ ~denied')
  /\ stage' = IF Cardinality(grants') > MaxRows THEN "failed" ELSE stage
  /\ UNCHANGED <<budget, list, members, zones, accounts, blocked, memberships, examined>>

\* Mutant of Ignored: so are rows of members that are not known.
IgnoredUnknown(m) == m.status = "pending" \/ m.id \notin accounts

\* Rows of a group that are left out without a word: an invitation is no membership.
Ignored(m) == m.status = "pending"

\* Members of a group that is not understood lose what they have elsewhere as well.
TakeGroupMembers ==
  /\ stage = "groupMembers" /\ read
  /\ LET said == {m \in Unique : ~Ignored(m)}
         resolved == {m.id : m \in {x \in said : x.status = "accepted" /\ x.id \in accounts}}
     IN
       /\ blocked' = IF denied THEN blocked \cup resolved ELSE blocked
       /\ memberships' = IF denied THEN memberships
                         ELSE memberships \cup (resolved \X {group})
       /\ complete' = (/\ complete /\ Unique = Listed
                       /\ \A m \in said : m.id \in resolved)
       /\ stage' = IF Cardinality(grants) + Cardinality(memberships') > MaxRows
                   THEN "failed" ELSE stage
  /\ group' = NoGroup
  /\ denied' = FALSE
  /\ NewList /\ Examine
  /\ UNCHANGED <<budget, members, zones, todo, accounts, groups, grants>>

\* Mutant of Kept: who is blocked was looked up when the membership was found.
KeptAll == memberships

\* Whom a later group blocks has earlier memberships.
Kept == {m \in memberships : m[1] \notin blocked}

\* Snapshot::validate (the SDK's): every reference has its record.
Closed(held, assigned) ==
  /\ held \subseteq accounts \X groups
  /\ \A g \in assigned : g[1][2] \in IF g[1][1] = "account" THEN accounts ELSE groups

Finish ==
  /\ stage = "groupMembers" /\ group = NoGroup /\ todo = {}
  /\ memberships' = Kept
  /\ grants' = {g \in grants : ~(g[1][1] = "account" /\ g[1][2] \in blocked)}
  /\ stage' = IF Closed(memberships', grants') THEN "done" ELSE "malformed"
  /\ UNCHANGED <<budget, list, members, zones, walk, accounts, groups, blocked,
                 complete, examined>>

Next ==
  \/ Retry \/ AccountRead \/ AccountFails
  \/ \E values \in IF stage \in Lists THEN Pages[stage] ELSE {}, info \in Infos :
       TakePage(values, info) \/ RefusePage(values, info)
  \/ ListFails \/ TakeMembers \/ TakeZones \/ TakeGroups
  \/ \E g \in todo : SkipGroup(g) \/ NextGroup(g)
  \/ TakeGroupMembers \/ Finish

Spec == Init /\ [][Next]_vars

-----------------------------------------------------------------------------
(***************************************************************************)
(* Properties.                                                             *)
(***************************************************************************)
TypeOK ==
  /\ stage \in Lists \cup {"account", "done", "failed", "malformed"}
  /\ requests \in 0 .. MaxRequests /\ attempt \in 0 .. 2 /\ rows \in 0 .. MaxRows + 1
  /\ read \in BOOLEAN /\ Len(shown) <= MaxPages
  /\ {m.id : m \in members} \subseteq MemberIds /\ zones \subseteq ZoneIds
  /\ {g.id : g \in todo} \subseteq GroupIds /\ group \in groups \cup {NoGroup}
  /\ denied \in BOOLEAN /\ (denied => group # NoGroup)
  /\ accounts \subseteq MemberIds /\ groups \subseteq GroupIds /\ blocked \subseteq accounts
  /\ memberships \subseteq accounts \X groups
  /\ complete \in BOOLEAN

\* A list that does not end the claim to be complete is as long as every total that
\* any of its pages stated, in rows and in pages, and no page of it was met twice:
\* "Prior totals remain binding if a later response omits them"
\* (docs/cloudflare.md 103).
ListsAreWhole ==
  read /\ complete =>
    /\ shown # <<>>
    /\ \A p \in DOMAIN shown :
         /\ \A n \in shown[p].info.count : n = Cardinality(Rows)
         /\ \A k \in shown[p].info.pages : k = Len(shown) \/ (k = 0 /\ Rows = {})
         /\ \A q \in DOMAIN shown : shown[p].rows = shown[q].rows /\ shown[p].rows # <<>> => p = q

\* What was listed of a list, without what was contradicted in it.
Said(l, g) ==
  LET of == {e[3] : e \in {x \in examined : x[1] = l /\ x[2] = g}} IN
    {r \in of : r.id # Bad /\ \A s \in of : s.id = r.id => s = r}

Holds(a, g) == \E r \in Said("groupMembers", g) : r.id = a /\ r.status = "accepted"

\* An account that a policy which is not understood applies to, its own or a group's.
Suspect(a) ==
  \/ \E m \in Said("members", NoGroup) : m.id = a /\ ~Understood(m.policies)
  \/ \E g \in Said("groups", NoGroup) : g.usable /\ ~Understood(g.policies) /\ Holds(a, g.id)

\* "a denying group blocks other access paths for its known members"
\* (docs/cloudflare.md 77), whichever of their groups is walked first: the accounts
\* with memberships are exactly those that no such policy applies to, and they have
\* all of them; no grant of another account is left, and the snapshot validates.
AccessIsExact ==
  /\ stage # "malformed"
  /\ stage = "done" =>
       /\ memberships = {m \in accounts \X groups : Holds(m[1], m[2]) /\ ~Suspect(m[1])}
       /\ \A g \in grants : g[1][1] = "account" => ~Suspect(g[1][2])

\* complete=true loses nothing and hides no contradiction: every row of every list
\* is a record, a membership or a pending invitation, and whatever its policies
\* assign is a grant.
NothingLost ==
  stage = "done" /\ complete =>
    /\ \A e, f \in examined : e[1] = f[1] /\ e[2] = f[2] /\ e[3].id = f[3].id => e = f
    /\ \A e \in examined :
         CASE e[1] = "members" ->
                \/ e[3].status = "pending"
                \/ e[3].id \in accounts /\ GrantsOf(<<"account", e[3].id>>, e[3].policies) \subseteq grants
           [] e[1] = "zones" -> e[3].id \in zones
           [] e[1] = "groups" ->
                e[3].id \in groups /\ GrantsOf(<<"group", e[3].id>>, e[3].policies) \subseteq grants
           [] e[1] = "groupMembers" ->
                e[3].status = "pending" \/ <<e[3].id, e[2]>> \in memberships

=============================================================================
