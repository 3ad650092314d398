------------------------------- MODULE Gitlab -------------------------------
(***************************************************************************)
(* One GitLab discovery: request with its retries, listing with its pages, *)
(* collect with the scopes it checks twice, Collection and finish.         *)
(*                                                                         *)
(* GitLab answers as it likes and changes in between: a project moves      *)
(* after it was listed, a row appears on two pages, a user is described    *)
(* differently by two lists, a request fails.  The operation deadline,     *)
(* which drops a discovery as it stands, is that of Session.               *)
(***************************************************************************)
EXTENDS Integers, Sequences, FiniteSets

CONSTANTS
  GroupIds,     \* group_ids
  ProjectIds,   \* project_ids
  Namespaces,   \* ids that a group or project may name as its parent
  ProjectPages, \* pages a list of projects may have
  MemberPages,  \* pages a list of members may have
  Headers,      \* pagination headers of a page
  PageSize,     \* per_page=100
  MaxPages,     \* MAX_PAGES
  MaxRows,      \* MAX_ROWS, of the rows read
  MaxRecords,   \* MAX_ROWS as well, of the records of the snapshot
  MaxRequests   \* MAX_REQUESTS

\* Id 0 is one native_id refuses.
ProjectRow == [id : Nat, parent : Nat]

\* `person' is the username with the account status; `usable' says that the
\* access level, the custom role and the expiry can be read and are not past.
MemberRow ==
  [id : Nat, person : STRING, bot : BOOLEAN, usable : BOOLEAN, level : Nat]

\* A username text() refuses or a status that is no string.
Bad == "bad"

\* Page and page size as echoed ("other" also stands for a header that number()
\* refuses); the next page, 0 if it is empty, and the number of pages, each -1 if
\* absent; the links.
Header ==
  [ echo : {"absent", "same", "other"}, next : Int, total : Int,
    link : {"absent", "next", "bad"} ]

ASSUME GitlabAssumption ==
  /\ GroupIds \subseteq Nat \ {0} /\ ProjectIds \subseteq Nat \ {0}
  /\ IsFiniteSet(GroupIds) /\ IsFiniteSet(ProjectIds)
  /\ Namespaces \subseteq Nat \ {0}
  /\ ProjectPages \subseteq Seq(ProjectRow) /\ MemberPages \subseteq Seq(MemberRow)
  /\ Headers \subseteq Header
  /\ PageSize \in Nat \ {0} /\ MaxPages \in Nat \ {0}
  /\ MaxRows \in Nat /\ MaxRecords \in Nat /\ MaxRequests \in Nat

VARIABLES
  stage,       \* where collect is, or how it ended
  ids,         \* groups or projects still to be requested
  plan,        \* lists still to be read, the current one first
  requests,    \* Budget.requests
  attempt,     \* in request
  rows,        \* Budget.rows
  page,        \* in listing
  read,        \* the current list has been read
  listed,      \* its rows not handled yet
  groups,      \* the groups observed, with the parents they name
  found,       \* projects of the groups' lists
  observed,    \* the projects observed
  resources,   \* Collection.resources, with their parents
  accounts, blocked, memberships, grants,  \* of Collection
  complete,    \* snapshot.complete
  shown,       \* history: the pages of the current list, as sent
  examined,    \* history: the rows listing has looked at, with their lists
  handled      \* history: member rows given to Collection::member

budget == <<requests, attempt, rows>>
list == <<page, read, listed, shown>>
scopes == <<groups, found, observed, resources>>
members == <<accounts, blocked, memberships, grants, handled>>
vars == <<stage, ids, plan, budget, list, scopes, members, complete, examined>>

-----------------------------------------------------------------------------
GroupKey(id) == <<"group", id>>

ProjectKey(id) == <<"project", id>>

None == <<"none", 0>>

Empty == [x \in {} |-> x]

Put(f, x, v) == [y \in DOMAIN f \cup {x} |-> IF y = x THEN v ELSE f[y]]

\* Maps are walked in the order of their ids.
First(S) == CHOOSE x \in S : \A y \in S : x <= y

Ascending(S) ==
  [i \in 1 .. Cardinality(S) |->
     CHOOSE x \in S : Cardinality({y \in S : y < x}) = i - 1]

Init ==
  /\ stage = "groups" /\ ids = GroupIds /\ plan = <<>>
  /\ requests = 0 /\ attempt = 0 /\ rows = 0
  /\ page = 1 /\ read = FALSE /\ listed = <<>> /\ shown = <<>>
  /\ groups = Empty /\ found = {} /\ observed = {} /\ resources = Empty
  /\ accounts = Empty /\ blocked = {} /\ memberships = {} /\ grants = Empty
  /\ complete = TRUE /\ examined = {} /\ handled = {}

-----------------------------------------------------------------------------
(***************************************************************************)
(* request.                                                                *)
(***************************************************************************)
ReadingList == stage \in {"group projects", "members"} /\ plan # <<>> /\ ~read

Requesting == (stage \in {"groups", "projects"} /\ ids # {}) \/ ReadingList

\* A 429 with a short Retry-After, or a 5xx.
Retry ==
  /\ Requesting /\ attempt < 2 /\ requests < MaxRequests
  /\ requests' = requests + 1
  /\ attempt' = attempt + 1
  /\ UNCHANGED <<stage, ids, plan, rows, list, scopes, members, complete, examined>>

Answered ==
  /\ requests < MaxRequests
  /\ requests' = requests + 1
  /\ attempt' = 0

\* Refused, or not even sent.
Failed ==
  /\ requests' = IF requests < MaxRequests THEN requests + 1 ELSE requests
  /\ attempt' = 0

-----------------------------------------------------------------------------
(***************************************************************************)
(* listing.                                                                *)
(***************************************************************************)
\* What the headers of a page say about a further one.
Signals(h) ==
  (IF h.next >= 0 THEN {h.next # 0} ELSE {})
    \cup (IF h.link = "next" THEN {TRUE} ELSE {})
    \cup (IF h.total >= 0 THEN {h.total > page} ELSE {})

Inconsistent(h, count) ==
  \/ h.echo = "other"
  \/ h.next \notin {-1, 0, page + 1}
  \/ h.total \in 0 .. page - 1 /\ ~(h.total = 0 /\ page = 1 /\ count = 0)
  \/ h.link = "bad"
  \/ Cardinality(Signals(h)) = 2

More(h, count) ==
  IF Signals(h) = {} THEN count = PageSize ELSE TRUE \in Signals(h)

Ids(items) == {items[i].id : i \in DOMAIN items}

\* Mutant of Repeats: only the page itself is searched.
RepeatsInPage(items, i) == items[i].id \in Ids(SubSeq(items, 1, i - 1))

Repeats(items, i) == items[i].id \in Ids(listed) \cup Ids(SubSeq(items, 1, i - 1))

\* The first row that listing objects to: 0 if there is none.
Objection(items) ==
  LET objections == {i \in DOMAIN items : items[i].id = 0 \/ Repeats(items, i)}
  IN IF objections = {} THEN 0 ELSE First(objections)

\* Mutant of LastAllowed: off by one.
LastAllowedLate == page > MaxPages

LastAllowed == page = MaxPages

PageEnds(items, h) ==
  LET count == Len(items)
      bad   == Objection(items)
  IN IF count > PageSize THEN "oversized"
     ELSE IF rows + count > MaxRows THEN "limit"
     ELSE IF Inconsistent(h, count) THEN "pagination"
     ELSE IF bad # 0 /\ items[bad].id = 0 THEN "malformed"
     ELSE IF bad # 0 THEN "repeated"
     ELSE IF ~More(h, count) THEN "end"
     ELSE IF count = 0 THEN "empty"
     ELSE IF LastAllowed THEN "pages"
     ELSE "more"

\* Mutant of Taken: the rows are those of the last page.
TakenLast(end, items) ==
  CASE end = "repeated"                   -> <<>>
    [] end \in {"end", "more", "pages"}   -> items
    [] OTHER                              -> listed

\* Mutant of Taken: a repeated id only ends the list.
TakenRepeated(end, items) ==
  IF end \in {"end", "more", "pages"} THEN listed \o items ELSE listed

Taken(end, items) ==
  CASE end = "repeated"                   -> <<>>
    [] end \in {"end", "more", "pages"}   -> listed \o items
    [] OTHER                              -> listed

Looked(end, items) ==
  CASE end \in {"oversized", "limit", "pagination"} -> {}
    [] end \in {"malformed", "repeated"}            -> 1 .. Objection(items)
    [] OTHER                                        -> DOMAIN items

Page(items, h) ==
  /\ ReadingList /\ Answered
  /\ LET end == PageEnds(items, h) IN
       /\ listed' = Taken(end, items)
       /\ read' = (end # "more")
       /\ page' = IF end = "more" THEN page + 1 ELSE page
       /\ complete' = (complete /\ end \in {"more", "end"})
       /\ rows' = IF end = "oversized" THEN rows
                  ELSE IF rows + Len(items) > MaxRows THEN MaxRows + 1
                  ELSE rows + Len(items)
       /\ shown' = Append(shown, [items |-> items, more |-> More(h, Len(items))])
       /\ examined' = examined \cup {<<Head(plan), items[i]>> : i \in Looked(end, items)}
  /\ UNCHANGED <<stage, ids, plan, scopes, members>>

ListFails ==
  /\ ReadingList /\ Failed
  /\ read' = TRUE
  /\ complete' = FALSE
  /\ UNCHANGED <<stage, ids, plan, rows, page, listed, shown, scopes, members, examined>>

NextList ==
  /\ page' = 1 /\ read' = FALSE /\ listed' = <<>> /\ shown' = <<>>
  /\ plan' = Tail(plan)

-----------------------------------------------------------------------------
(***************************************************************************)
(* collect.                                                                *)
(***************************************************************************)
\* resource.key is the id that was asked for: another one is a failure.
Group(parent) ==
  /\ stage = "groups" /\ ids # {} /\ Answered
  /\ groups' = Put(groups, First(ids), parent)
  /\ resources' = Put(resources, GroupKey(First(ids)), None)
  /\ ids' = ids \ {First(ids)}
  /\ UNCHANGED <<stage, plan, rows, list, found, observed, members, complete, examined>>

\* The request failed, or the answer was not the scope that was asked for.
ScopeFails ==
  /\ stage \in {"groups", "projects"} /\ ids # {} /\ Failed
  /\ ids' = ids \ {First(ids)}
  /\ complete' = FALSE
  /\ UNCHANGED <<stage, plan, rows, list, scopes, members, examined>>

GroupsDone ==
  /\ stage = "groups" /\ ids = {}
  /\ stage' = "group projects"
  /\ plan' = [i \in DOMAIN Ascending(DOMAIN groups) |->
                [scope |-> GroupKey(Ascending(DOMAIN groups)[i]), effective |-> FALSE]]
  /\ UNCHANGED <<ids, budget, list, scopes, members, complete, examined>>

Owned(row) == row.parent = Head(plan).scope[2]

GroupProjects ==
  /\ stage = "group projects" /\ read
  /\ LET owned == {i \in DOMAIN listed : Owned(listed[i])} IN
       /\ found' = found \cup {listed[i].id : i \in owned}
       /\ complete' = (complete /\ owned = DOMAIN listed)
  /\ NextList
  /\ UNCHANGED <<stage, ids, budget, groups, observed, resources, members, examined>>

GroupProjectsDone ==
  /\ stage = "group projects" /\ plan = <<>>
  /\ LET projects == found \cup ProjectIds IN
       IF Cardinality(projects) > MaxRows
       THEN stage' = "failed" /\ UNCHANGED ids
       ELSE stage' = "projects" /\ ids' = projects
  /\ UNCHANGED <<plan, budget, list, scopes, members, complete, examined>>

\* Mutant of InScope: what was listed stays in scope wherever it moves.
InScopeAsListed(id, parent) == id \in ProjectIds \/ id \in found

\* "Recheck scope after discovery"
InScope(id, parent) == id \in ProjectIds \/ parent \in DOMAIN groups

Parent(parent) == IF parent \in DOMAIN groups THEN GroupKey(parent) ELSE None

Project(parent) ==
  /\ stage = "projects" /\ ids # {} /\ Answered
  /\ LET id == First(ids) IN
       /\ ids' = ids \ {id}
       /\ \/ /\ InScope(id, parent)
             /\ observed' = observed \cup {id}
             /\ resources' = Put(resources, ProjectKey(id), Parent(parent))
             /\ UNCHANGED complete
          \/ /\ ~InScope(id, parent)
             /\ complete' = FALSE
             /\ UNCHANGED <<observed, resources>>
  /\ UNCHANGED <<stage, plan, rows, list, groups, found, members, examined>>

\* The parents that the groups named, and the lists of members.
Contain ==
  /\ stage = "projects" /\ ids = {}
  /\ resources' =
       [key \in DOMAIN resources |->
          IF key[1] = "group" /\ groups[key[2]] # key[2]
          THEN Parent(groups[key[2]]) ELSE resources[key]]
  /\ complete' = (complete /\ \A id \in DOMAIN groups : groups[id] # id)
  /\ LET walked == [i \in 1 .. Cardinality(DOMAIN groups) |->
                      GroupKey(Ascending(DOMAIN groups)[i])]
                   \o [i \in 1 .. Cardinality(observed) |->
                         ProjectKey(Ascending(observed)[i])]
     IN plan' = [i \in 1 .. 2 * Len(walked) |->
                   [scope |-> walked[(i + 1) \div 2], effective |-> i % 2 = 0]]
  /\ stage' = IF resources = Empty THEN "failed" ELSE "members"
  /\ UNCHANGED <<ids, budget, list, groups, found, observed, members, examined>>

-----------------------------------------------------------------------------
(***************************************************************************)
(* Collection::member and finish.                                          *)
(***************************************************************************)
Conflicts(row) ==
  row.id \in DOMAIN accounts /\ accounts[row.id].person # row.person

MemberVerdict(row) ==
  IF row.person = Bad THEN "malformed"
  ELSE IF row.id \in blocked THEN "blocked"
  ELSE IF Conflicts(row) THEN "conflict"
  ELSE IF ~row.usable THEN "unusable"
  ELSE "accepted"

Accept(row, at) ==
  /\ accounts' = Put(accounts, row.id,
                     [ person |-> row.person,
                       bot    |-> row.bot \/ (row.id \in DOMAIN accounts /\ accounts[row.id].bot) ])
  /\ memberships' = IF at.scope[1] = "group" /\ ~at.effective
                    THEN memberships \cup {<<row.id, at.scope>>} ELSE memberships
  /\ grants' = IF row.level = 0 THEN grants
               ELSE Put(grants, <<at.effective, at.scope, row.id>>, row.level)

Member ==
  /\ stage = "members" /\ read /\ listed # <<>>
  /\ LET row == Head(listed)
         verdict == MemberVerdict(row)
     IN
       /\ blocked' = IF verdict = "conflict" THEN blocked \cup {row.id} ELSE blocked
       /\ \/ verdict = "accepted" /\ Accept(row, Head(plan)) /\ UNCHANGED complete
          \/ /\ verdict # "accepted"
             /\ accounts' = [id \in DOMAIN accounts \ blocked' |-> accounts[id]]
             /\ complete' = FALSE
             /\ UNCHANGED <<memberships, grants>>
       /\ handled' = handled \cup
            {[row |-> row, known |-> row.id \in DOMAIN accounts \cup blocked]}
  /\ listed' = Tail(listed)
  /\ UNCHANGED <<stage, ids, plan, budget, page, read, shown, scopes, examined>>

MembersDone ==
  /\ stage = "members" /\ read /\ listed = <<>>
  /\ NextList
  /\ UNCHANGED <<stage, ids, budget, scopes, members, complete, examined>>

Unblocked(id) == id \notin blocked

Memberships == {m \in memberships : Unblocked(m[1])}

Grants == {g \in DOMAIN grants : Unblocked(g[3])}

\* Snapshot::validate (the SDK's): every reference has its record.
Closed ==
  /\ \A m \in Memberships : m[1] \in DOMAIN accounts /\ m[2] \in DOMAIN resources
  /\ \A g \in Grants : g[3] \in DOMAIN accounts /\ g[2] \in DOMAIN resources
  /\ \A r \in DOMAIN resources : resources[r] \in {None} \cup DOMAIN resources

Size ==
  Cardinality(DOMAIN accounts) + Cardinality(DOMAIN resources)
    + Cardinality(DOMAIN groups) + Cardinality(Memberships) + Cardinality(Grants)

Finish ==
  /\ stage = "members" /\ plan = <<>>
  /\ stage' = IF ~Closed THEN "malformed" ELSE IF Size > MaxRecords THEN "failed" ELSE "done"
  /\ UNCHANGED <<ids, plan, budget, list, scopes, members, complete, examined>>

Pages == IF stage = "members" THEN MemberPages ELSE ProjectPages

Next ==
  \/ Retry
  \/ \E parent \in Namespaces \cup {0} : Group(parent) \/ Project(parent)
  \/ ScopeFails \/ GroupsDone
  \/ \E items \in Pages, h \in Headers : Page(items, h)
  \/ ListFails
  \/ GroupProjects \/ GroupProjectsDone \/ Contain
  \/ Member \/ MembersDone \/ Finish

Spec == Init /\ [][Next]_vars

-----------------------------------------------------------------------------
(***************************************************************************)
(* Properties.                                                             *)
(***************************************************************************)
Keys == {GroupKey(id) : id \in GroupIds}
          \cup {ProjectKey(id) : id \in ProjectIds \cup found}

Rows == UNION ({{items[i] : i \in DOMAIN items} : items \in ProjectPages \cup MemberPages})

AccountIds == {row.id : row \in Rows}

TypeOK ==
  /\ stage \in {"groups", "group projects", "projects", "members", "done",
                "failed", "malformed"}
  /\ requests \in 0 .. MaxRequests /\ attempt \in 0 .. 2
  /\ rows \in 0 .. MaxRows + 1
  /\ page \in 1 .. MaxPages /\ read \in BOOLEAN
  /\ listed \in Seq(Rows)
  /\ DOMAIN groups \subseteq GroupIds
  /\ DOMAIN resources \subseteq Keys
  /\ DOMAIN accounts \cup blocked \subseteq AccountIds
  /\ complete \in BOOLEAN

\* A list that does not end the claim to be complete was read until GitLab said
\* that there are no more pages, and no row was on two of them, as happens when
\* rows are added while it is read (listing, client.rs 115-145).
ListsAreWhole ==
  read /\ complete =>
    /\ shown # <<>>
    /\ \A p \in DOMAIN shown : shown[p].more = (p # Len(shown))
    /\ \A p, q \in DOMAIN shown :
         \A i \in DOMAIN shown[p].items, j \in DOMAIN shown[q].items :
           shown[p].items[i].id = shown[q].items[j].id => <<p, i>> = <<q, j>>

\* complete=true loses nothing: every configured scope, every project listed and
\* every row of every page is in the snapshot, with its membership and its level
\* (each of the failures of listing, collect and member calls fail).
NothingLost ==
  stage = "done" /\ complete =>
    /\ {GroupKey(id) : id \in GroupIds} \subseteq DOMAIN resources
    /\ {ProjectKey(id) : id \in ProjectIds \cup found} \subseteq DOMAIN resources
    /\ \A e \in examined :
         LET at == e[1]
             row == e[2]
         IN IF "person" \in DOMAIN row
            THEN /\ row.id \in DOMAIN accounts
                 /\ row.level # 0 => grants[<<at.effective, at.scope, row.id>>] = row.level
                 /\ at.scope[1] = "group" /\ ~at.effective =>
                      <<row.id, at.scope>> \in Memberships
            ELSE ProjectKey(row.id) \in DOMAIN resources

\* Of the rows whose username and status can be read, none that was read after an
\* account of the snapshot, and none at all that can be used, describes it otherwise;
\* in a complete snapshot no row does.  A row whose username or status cannot be read
\* only ends the claim to be complete (records.rs 150 returns before anything is
\* blocked): what other rows said of the account stays, where docs/gitlab.md 88 says
\* that "Malformed/conflicting account observations suppress that account's paths".
\* And no grant is contradicted by another row of its list: "Duplicate IDs invalidate
\* the affected list" (docs/gitlab.md 89), on whichever page they are found.
Uncontradicted ==
  stage = "done" =>
    /\ \A h \in handled :
         /\ h.row.id \in DOMAIN accounts
         /\ complete \/ (h.row.person # Bad /\ (h.row.usable \/ h.known))
         => accounts[h.row.id].person = h.row.person
    /\ \A e \in examined :
         "person" \in DOMAIN e[2] =>
           LET g == <<e[1].effective, e[1].scope, e[2].id>> IN
             g \in Grants => grants[g] = e[2].level

\* "A moved project must be explicitly selected or still belong to an observed
\* group" (discovery.rs 91): every project that was not configured is in the
\* snapshot below a group that is, and members are claimed of no other.  "An invalid
\* final graph can reject the operation" (docs/gitlab.md 90), but never by the
\* collection's own doing: whatever is blocked after memberships and grants about it
\* were recorded, finish leaves none without its account (records.rs 161, 285 and 290).
ScopeIsKept ==
  /\ stage # "malformed"
  /\ stage = "done" =>
       /\ \A key \in DOMAIN resources :
            key[1] = "project" /\ key[2] \notin ProjectIds =>
              resources[key] \in {GroupKey(id) : id \in GroupIds} \cap DOMAIN resources
       /\ \A g \in Grants : g[2] \in DOMAIN resources

=============================================================================
