-------------------------------- MODULE Entra --------------------------------
(***************************************************************************)
(* One Entra discovery: request with its retries, listing along the next   *)
(* links that Graph hands out, prove_tenant, and collect, which lists      *)
(* users, service principals and groups, and then resolves the members of  *)
(* each group against what those lists have left.                          *)
(*                                                                         *)
(* Graph answers as it likes: a link leads back, an object is on two       *)
(* pages or in two collections, a page fails, members are unknown.  The    *)
(* operation deadline, which drops a discovery, is that of Session.        *)
(***************************************************************************)
EXTENDS Naturals, Sequences, FiniteSets

CONSTANTS
  IncludeServicePrincipals, \* include_service_principals
  Ids,          \* object ids, in lower case
  Pages,        \* what a page may hold
  Urls,         \* next links that next_url accepts
  MaxPages,     \* MAX_PAGES
  MaxRows,      \* MAX_ROWS
  MaxRequests   \* MAX_REQUESTS

Types == {"absent", "user", "group", "servicePrincipal", "other"}

Object == [id : Ids, type : Types]

NoGroup == "none"

ASSUME EntraAssumption ==
  /\ IncludeServicePrincipals \in BOOLEAN
  /\ Pages \subseteq Seq(Object) /\ NoGroup \notin Ids
  /\ MaxPages \in Nat \ {0} /\ MaxRows \in Nat /\ MaxRequests \in Nat

VARIABLES
  stage,     \* "tenant", the list being read, or how the discovery ended
  requests,  \* Budget.requests
  attempt,   \* in request
  rows,      \* Budget.rows
  read,      \* the current list has been read
  next,      \* the page asked for, "first" to begin with
  urls,      \* seen_urls
  listed,    \* Listing.rows
  todo,      \* groups whose members are still to be listed
  group,     \* the one in progress
  accounts,  \* ids of the accounts: TRUE for a service principal
  groups,    \* ids of the groups
  members,   \* <<type, id, group>>
  complete,  \* snapshot.complete
  shown,     \* history: the pages of the current list
  examined   \* history: the objects listed, with the list and the group

budget == <<requests, attempt, rows>>
list == <<read, next, urls, listed, shown>>
found == <<accounts, groups, members>>
vars == <<stage, budget, list, todo, group, found, complete, examined>>

Lists == {"users", "servicePrincipals", "groups", "members"}

Init ==
  /\ stage = "tenant"
  /\ requests = 0 /\ attempt = 0 /\ rows = 0
  /\ read = FALSE /\ next = "first" /\ urls = {} /\ listed = <<>> /\ shown = <<>>
  /\ todo = {} /\ group = NoGroup
  /\ accounts = [id \in {} |-> FALSE] /\ groups = {} /\ members = {}
  /\ complete = TRUE /\ examined = {}

-----------------------------------------------------------------------------
(***************************************************************************)
(* request and prove_tenant.                                               *)
(***************************************************************************)
ReadingList == stage \in Lists /\ ~read /\ (stage = "members" => group # NoGroup)

\* A throttled or failing answer that may be asked for again.
Retry ==
  /\ stage = "tenant" \/ ReadingList
  /\ attempt < 2 /\ requests < MaxRequests
  /\ requests' = requests + 1
  /\ attempt' = attempt + 1
  /\ UNCHANGED <<stage, rows, list, todo, group, found, complete, examined>>

Answered ==
  /\ requests < MaxRequests
  /\ requests' = requests + 1
  /\ attempt' = 0

\* Refused, or not even sent.
Failed ==
  /\ requests' = IF requests < MaxRequests THEN requests + 1 ELSE requests
  /\ attempt' = 0

TenantProved ==
  /\ stage = "tenant" /\ Answered
  /\ stage' = "users"
  /\ UNCHANGED <<rows, list, todo, group, found, complete, examined>>

\* The request failed, or named another tenant.
TenantFails ==
  /\ stage = "tenant" /\ Failed
  /\ stage' = "failed"
  /\ UNCHANGED <<rows, list, todo, group, found, complete, examined>>

-----------------------------------------------------------------------------
(***************************************************************************)
(* listing.                                                                *)
(***************************************************************************)
\* Mutant of Repeats: only the page itself is searched.
RepeatsInPage(objects, i) == objects[i].id \in {objects[j].id : j \in 1 .. i - 1}

Repeats(objects, i) ==
  \/ objects[i].id \in {listed[j].id : j \in DOMAIN listed}
  \/ objects[i].id \in {objects[j].id : j \in 1 .. i - 1}

\* Mutant of Stops: the budget does not stop it.
StopsAtRepeats(objects, i) == Repeats(objects, i)

\* listing gives up at the row that the budget or the ids do not allow.
Stops(objects, i) == rows + i > MaxRows \/ Repeats(objects, i)

\* How many rows of a page are taken.
Taken(objects) ==
  CHOOSE n \in 0 .. Len(objects) :
    /\ \A i \in 1 .. n : ~Stops(objects, i)
    /\ n < Len(objects) => Stops(objects, n + 1)

\* A next link is followed unless next_url refuses it or it was asked for before.
Follows(link) == link # "bad" /\ link \notin urls \cup {next}

PageEnds(objects, link) ==
  IF Taken(objects) < Len(objects) THEN "cut"
  ELSE IF link = "none" THEN "whole"
  ELSE IF Follows(link) /\ Len(shown) + 1 < MaxPages THEN "more" ELSE "cut"

Charged(n) == IF rows + n > MaxRows THEN MaxRows + 1 ELSE rows + n

Page(objects, link) ==
  /\ ReadingList /\ Answered
  /\ LET n == Taken(objects)
         end == PageEnds(objects, link)
     IN
       /\ listed' = listed \o SubSeq(objects, 1, n)
       /\ rows' = Charged(IF n < Len(objects) THEN n + 1 ELSE n)
       /\ urls' = urls \cup {next}
       /\ next' = IF end = "more" THEN link ELSE next
       /\ read' = (end # "more")
       /\ complete' = (complete /\ end # "cut")
       /\ shown' = Append(shown, [url |-> next, objects |-> objects, next |-> link])
       /\ examined' = examined \cup {<<stage, group, objects[i]>> : i \in 1 .. n}
  /\ UNCHANGED <<stage, todo, group, found>>

\* A request fails, or a page is too long or malformed.
ListFails ==
  /\ ReadingList /\ Failed
  /\ read' = TRUE
  /\ complete' = FALSE
  /\ UNCHANGED <<stage, rows, next, urls, listed, shown, todo, group, found, examined>>

-----------------------------------------------------------------------------
(***************************************************************************)
(* collect.                                                                *)
(***************************************************************************)
NewList ==
  /\ read' = FALSE /\ next' = "first" /\ urls' = {} /\ listed' = <<>> /\ shown' = <<>>

Objects == {listed[i] : i \in DOMAIN listed}

\* The objects of the list that become accounts: each has an id of its own.
Accounts(service) ==
  {o \in Objects : /\ o.type \in {"absent", IF service THEN "servicePrincipal" ELSE "user"}
                   /\ o.id \notin DOMAIN accounts}

TakeAccounts ==
  /\ stage \in {"users", "servicePrincipals"} /\ read
  /\ LET service == (stage = "servicePrincipals")
         taken == Accounts(service)
         fresh == {o.id : o \in taken}
     IN
       /\ accounts' = [id \in DOMAIN accounts \cup fresh |->
                         IF id \in fresh THEN service ELSE accounts[id]]
       /\ complete' = (complete /\ taken = Objects)
       /\ stage' = IF service \/ ~IncludeServicePrincipals THEN "groups"
                   ELSE "servicePrincipals"
  /\ NewList
  /\ UNCHANGED <<budget, todo, group, groups, members, examined>>

\* Mutant of Groups: accounts of the same id are not looked for.
GroupsTyped == {o \in Objects : o.type \in {"absent", "group"}}

Groups ==
  {o \in Objects : o.type \in {"absent", "group"} /\ o.id \notin DOMAIN accounts}

TakeGroups ==
  /\ stage = "groups" /\ read
  /\ groups' = {o.id : o \in Groups}
  /\ todo' = groups'
  /\ complete' = (complete /\ Groups = Objects)
  /\ stage' = "members"
  /\ NewList
  /\ UNCHANGED <<budget, group, accounts, members, examined>>

\* The map of groups is walked by id; which id comes first is left open.
NextGroup(g) ==
  /\ stage = "members" /\ group = NoGroup /\ g \in todo
  /\ group' = g
  /\ todo' = todo \ {g}
  /\ UNCHANGED <<stage, budget, list, found, complete, examined>>

\* Mutant of Resolved: the kind of an account is not looked at.
ResolvedAny(o) ==
  o.type \in {"user", "group"} /\ o.id \in DOMAIN accounts \cup groups

Resolved(o) ==
  \/ o.type = "user" /\ o.id \in DOMAIN accounts /\ ~accounts[o.id]
  \/ o.type = "group" /\ o.id \in groups

\* Mutant of Skipped: every kind that is not understood is left out.
SkippedOther(o) == o.type \in {"servicePrincipal", "other"}

\* Members that are left out without a word.
Skipped(o) == o.type = "servicePrincipal"

TakeMembers ==
  /\ stage = "members" /\ read
  /\ members' = members \cup {<<o.type, o.id, group>> : o \in {x \in Objects : Resolved(x)}}
  /\ complete' = (complete /\ \A o \in Objects : Resolved(o) \/ Skipped(o))
  /\ group' = NoGroup
  /\ NewList
  /\ UNCHANGED <<stage, budget, todo, accounts, groups, examined>>

\* Snapshot::validate (the SDK's): every reference has its record.
Closed ==
  \A m \in members :
    m[3] \in groups /\ (m[1] = "user" => m[2] \in DOMAIN accounts)
                    /\ (m[1] = "group" => m[2] \in groups)

Finish ==
  /\ stage = "members" /\ group = NoGroup /\ todo = {}
  /\ stage' = IF Closed THEN "done" ELSE "malformed"
  /\ UNCHANGED <<budget, list, todo, group, found, complete, examined>>

Next ==
  \/ Retry \/ TenantProved \/ TenantFails
  \/ \E objects \in Pages, link \in Urls \cup {"none", "bad"} : Page(objects, link)
  \/ ListFails \/ TakeAccounts \/ TakeGroups
  \/ \E g \in todo : NextGroup(g)
  \/ TakeMembers \/ Finish

Spec == Init /\ [][Next]_vars

-----------------------------------------------------------------------------
(***************************************************************************)
(* Properties.                                                             *)
(***************************************************************************)
TypeOK ==
  /\ stage \in Lists \cup {"tenant", "done", "failed", "malformed"}
  /\ requests \in 0 .. MaxRequests /\ attempt \in 0 .. 2 /\ rows \in 0 .. MaxRows + 1
  /\ read \in BOOLEAN /\ next \in Urls \cup {"first"} /\ urls \subseteq Urls \cup {"first"}
  /\ listed \in Seq(Object) /\ Cardinality(examined) <= MaxRows
  /\ todo \subseteq groups /\ group \in groups \cup {NoGroup}
  /\ DOMAIN accounts \subseteq Ids /\ groups \subseteq Ids
  /\ members \subseteq {"user", "group"} \X Ids \X Ids
  /\ complete \in BOOLEAN

\* A list that does not end the claim to be complete was read along links that led
\* to a new page each, until there was none, and met no object twice: "repeated
\* URLs/IDs" (docs/entra.md 125) are rejected.
ListsAreWhole ==
  read /\ complete =>
    /\ shown # <<>> /\ shown[Len(shown)].next = "none"
    /\ \A p, q \in DOMAIN shown :
         /\ p > 1 => shown[p].url = shown[p - 1].next
         /\ shown[p].url = shown[q].url => p = q
         /\ \A i \in DOMAIN shown[p].objects, j \in DOMAIN shown[q].objects :
              shown[p].objects[i].id = shown[q].objects[j].id => <<p, i>> = <<q, j>>

\* No id is an account and a group, and every account was listed as what it is:
\* what one collection has claimed, another does not (discovery.rs 67 and 87), or a
\* member would be resolved as either.
OneKind ==
  /\ stage \in {"members", "done", "malformed"} => DOMAIN accounts \cap groups = {}
  /\ \A id \in DOMAIN accounts :
       \E e \in examined :
         /\ e[3].id = id
         /\ IF accounts[id]
            THEN e[1] = "servicePrincipals" /\ e[3].type \in {"absent", "servicePrincipal"}
            ELSE e[1] = "users" /\ e[3].type \in {"absent", "user"}

\* "Validated earlier pages and successful collections survive" (docs/entra.md
\* 128): however the discovery went on, the snapshot has a membership exactly for
\* the members it was shown that are users or groups of the snapshot.
MembershipsAreExact ==
  stage = "done" =>
    members = {<<e[3].type, e[3].id, e[2]>> : e \in
                 {x \in examined :
                    /\ x[1] = "members"
                    /\ \/ x[3].type = "group" /\ x[3].id \in groups
                       \/ /\ x[3].type = "user" /\ x[3].id \in DOMAIN accounts
                          /\ ~accounts[x[3].id]}}

\* complete=true loses nothing: every object of every list is a record or a
\* membership, except for service principals in groups, which the snapshot's
\* limitations name.
NothingLost ==
  stage = "done" /\ complete =>
    \A e \in examined :
      CASE e[1] = "users"             -> e[3].id \in DOMAIN accounts /\ ~accounts[e[3].id]
        [] e[1] = "servicePrincipals" -> e[3].id \in DOMAIN accounts /\ accounts[e[3].id]
        [] e[1] = "groups"            -> e[3].id \in groups
        [] e[1] = "members"           -> \/ <<e[3].type, e[3].id, e[2]>> \in members
                                         \/ e[3].type = "servicePrincipal"

=============================================================================
