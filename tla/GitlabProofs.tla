----------------------------- MODULE GitlabProofs -----------------------------
(***************************************************************************)
(* Theorems about Gitlab: whatever GitLab answers, the budgets and the     *)
(* records are well typed, a list that does not end the claim to be        *)
(* complete is whole, a complete snapshot has every row that was read, no  *)
(* record is contradicted by another row, and the snapshot is well formed  *)
(* and within its scope.                                                   *)
(*                                                                         *)
(* Typed holds what the others rest on.  Whole, about the pages of one     *)
(* list, Scoped, about groups and projects, and People, about the accounts *)
(* alone, need nothing more; Granted, about the rows of all lists and what *)
(* was made of each, rests on Whole, on People and on no list being read   *)
(* twice.                                                                  *)
(***************************************************************************)
EXTENDS Gitlab, FiniteSetTheorems, TLAPS

(***************************************************************************)
(* The order in which maps are walked.                                     *)
(***************************************************************************)
\* The elements of a finite set of numbers have ranks, one of each below its size.
LEMMA Ranks ==
  ASSUME NEW S \in SUBSET Int, IsFiniteSet(S), NEW k \in 0 .. Cardinality(S) - 1
  PROVE  \E x \in S : Cardinality({y \in S : y < x}) = k
<1> DEFINE below(x) == {y \in S : y < x}
           rank == [x \in S |-> Cardinality(below(x))]
<1>1. Cardinality(S) \in Nat
  BY FS_CardinalityType
<1>2. ASSUME NEW x \in S
      PROVE  IsFiniteSet(below(x)) /\ rank[x] \in 0 .. Cardinality(S) - 1
  <2>1. below(x) \subseteq S /\ below(x) # S
    OBVIOUS
  <2> HIDE DEF below
  <2>2. /\ IsFiniteSet(below(x)) /\ Cardinality(below(x)) <= Cardinality(S)
        /\ Cardinality(below(x)) # Cardinality(S)
    BY <2>1, FS_Subset
  <2>3. Cardinality(below(x)) \in Nat
    BY <2>2, FS_CardinalityType
  <2> QED
    BY <1>1, <2>2, <2>3
<1>3. ASSUME NEW x \in S, NEW y \in S, x < y
      PROVE  rank[x] < rank[y]
  <2>1. below(x) \subseteq below(y) /\ below(x) # below(y)
    <3>1. x \in below(y) /\ x \notin below(x)
      BY <1>3
    <3>2. \A z \in below(x) : z \in below(y)
      BY <1>3
    <3> QED
      BY <3>1, <3>2
  <2>2. IsFiniteSet(below(y))
    BY <1>2
  <2> HIDE DEF below
  <2>3. /\ Cardinality(below(x)) <= Cardinality(below(y))
        /\ Cardinality(below(x)) # Cardinality(below(y))
    BY <2>1, <2>2, FS_Subset
  <2>4. Cardinality(below(x)) \in Nat /\ Cardinality(below(y)) \in Nat
    BY <1>2, FS_CardinalityType
  <2> QED
    BY <2>3, <2>4
<1> HIDE DEF rank
<1>4. rank \in [S -> 0 .. Cardinality(S) - 1]
  BY <1>2 DEF rank
<1>5. \A x, y \in S : rank[x] = rank[y] => x = y
  <2>1. ASSUME NEW x \in S, NEW y \in S, rank[x] = rank[y] PROVE x = y
    <3>1. rank[x] \in Int /\ rank[y] \in Int
      BY <1>4, <1>1
    <3>2. ~(x < y) /\ ~(y < x)
      BY <1>3, <2>1, <3>1
    <3> QED
      BY <3>2
  <2> QED
    BY <2>1
<1>6. rank \in Injection(S, 0 .. Cardinality(S) - 1)
  BY <1>4, <1>5 DEF Injection, IsInjective
<1>7. /\ IsFiniteSet(0 .. Cardinality(S) - 1)
      /\ Cardinality(0 .. Cardinality(S) - 1) = Cardinality(S)
  BY <1>1, FS_Interval
<1>8. rank \in Surjection(S, 0 .. Cardinality(S) - 1)
  BY <1>6, <1>7, FS_Injection
<1>9. \E x \in S : rank[x] = k
  BY <1>8 DEF Surjection
<1> QED
  BY <1>9 DEF rank

\* So a finite set of numbers that is not empty has a least one.
LEMMA Least ==
  ASSUME NEW S \in SUBSET Int, IsFiniteSet(S), S # {}
  PROVE \E x \in S : \A y \in S : x <= y
<1>1. Cardinality(S) \in Nat /\ Cardinality(S) # 0
  BY FS_CardinalityType, FS_EmptySet
<1>2. PICK x \in S : Cardinality({y \in S : y < x}) = 0
  BY <1>1, Ranks
<1>3. IsFiniteSet({y \in S : y < x})
  BY FS_Subset
<1>4. {y \in S : y < x} = {}
  BY <1>2, <1>3, FS_EmptySet
<1> QED
  BY <1>4

LEMMA FirstIsIn ==
  ASSUME NEW S \in SUBSET Nat, IsFiniteSet(S), S # {}
  PROVE  First(S) \in S /\ \A y \in S : First(S) <= y
<1>1. \E x \in S : \A y \in S : x <= y
  BY Least
<1> QED
  BY <1>1 DEF First

LEMMA AscendingIsOnce ==
  ASSUME NEW S \in SUBSET Nat, IsFiniteSet(S)
  PROVE  /\ Cardinality(S) \in Nat /\ DOMAIN Ascending(S) = 1 .. Cardinality(S)
         /\ \A i \in 1 .. Cardinality(S) : Ascending(S)[i] \in S
         /\ \A i, j \in 1 .. Cardinality(S) : Ascending(S)[i] = Ascending(S)[j] => i = j
<1>1. Cardinality(S) \in Nat
  BY FS_CardinalityType
<1>2. DOMAIN Ascending(S) = 1 .. Cardinality(S)
  BY DEF Ascending
<1>3. ASSUME NEW i \in 1 .. Cardinality(S)
      PROVE  /\ Ascending(S)[i] \in S
             /\ Cardinality({y \in S : y < Ascending(S)[i]}) = i - 1
  <2>1. i - 1 \in 0 .. Cardinality(S) - 1
    BY <1>1
  <2>2. \E x \in S : Cardinality({y \in S : y < x}) = i - 1
    BY <2>1, Ranks
  <2>3. Ascending(S)[i] = CHOOSE x \in S : Cardinality({y \in S : y < x}) = i - 1
    BY DEF Ascending
  <2> QED
    BY <2>2, <2>3
<1>4. ASSUME NEW i \in 1 .. Cardinality(S), NEW j \in 1 .. Cardinality(S),
             Ascending(S)[i] = Ascending(S)[j]
      PROVE  i = j
  <2>1. i - 1 = j - 1
    BY <1>3, <1>4
  <2> QED
    BY <2>1, <1>1
<1> QED
  BY <1>1, <1>2, <1>3, <1>4

-----------------------------------------------------------------------------
(***************************************************************************)
(* Types.                                                                  *)
(***************************************************************************)
\* Rows of a list of members, and of projects.
IsMember(row) == "person" \in DOMAIN row

LEMMA PageRows ==
  /\ \A items \in ProjectPages \cup MemberPages : items \in Seq(Rows)
  /\ \A items \in ProjectPages : \A i \in DOMAIN items : ~IsMember(items[i])
  /\ \A items \in MemberPages : \A i \in DOMAIN items : IsMember(items[i])
  /\ \A row \in Rows : row.id \in Nat
<1>1. ASSUME NEW items \in ProjectPages \cup MemberPages PROVE items \in Seq(Rows)
  <2>1. items \in Seq(ProjectRow) \cup Seq(MemberRow)
    BY GitlabAssumption
  <2>2. Len(items) \in Nat /\ DOMAIN items = 1 .. Len(items)
        /\ items = [i \in 1 .. Len(items) |-> items[i]]
    BY <2>1
  <2>3. \A i \in 1 .. Len(items) : items[i] \in Rows
    BY <2>2 DEF Rows
  <2> QED
    BY <2>2, <2>3
<1>2. ASSUME NEW items \in ProjectPages, NEW i \in DOMAIN items
      PROVE  ~IsMember(items[i]) /\ items[i].id \in Nat
  <2>1. items \in Seq(ProjectRow)
    BY GitlabAssumption
  <2>2. items[i] \in ProjectRow
    BY <2>1
  <2> QED
    BY <2>2 DEF ProjectRow, IsMember
<1>3. ASSUME NEW items \in MemberPages, NEW i \in DOMAIN items
      PROVE  IsMember(items[i]) /\ items[i].id \in Nat
  <2>1. items \in Seq(MemberRow)
    BY GitlabAssumption
  <2>2. items[i] \in MemberRow
    BY <2>1
  <2> QED
    BY <2>2 DEF MemberRow, IsMember
<1>4. ASSUME NEW row \in Rows PROVE row.id \in Nat
  <2>1. PICK items \in ProjectPages \cup MemberPages : \E i \in DOMAIN items : row = items[i]
    BY DEF Rows
  <2>2. PICK i \in DOMAIN items : row = items[i]
    BY <2>1
  <2> QED
    BY <2>2, <1>2, <1>3
<1> QED
  BY <1>1, <1>2, <1>3, <1>4

\* What is still to be requested, the rows in hand, and where no list is being read.
Named ==
  /\ found \in SUBSET Nat /\ IsFiniteSet(found)
  /\ stage = "groups" => ids \subseteq GroupIds
  /\ stage = "projects" => ids \subseteq ProjectIds \cup found
  /\ observed \subseteq ProjectIds \cup found
  /\ stage = "group projects" => \A i \in DOMAIN listed : ~IsMember(listed[i])
  /\ stage = "members" => \A i \in DOMAIN listed : IsMember(listed[i])

Idle ==
  ~(stage \in {"group projects", "members"} /\ plan # <<>>) =>
    listed = <<>> /\ shown = <<>> /\ ~read

Scope == {<<"group", id>> : id \in Nat} \cup {<<"project", id>> : id \in Nat}

Planned == plan \in Seq([scope : Scope, effective : BOOLEAN])

Typed == TypeOK /\ Named /\ Idle /\ Planned

LEMMA InitTyped == Init => Typed
<1> SUFFICES ASSUME Init PROVE Typed
  OBVIOUS
<1>1. /\ requests \in 0 .. MaxRequests /\ attempt \in 0 .. 2 /\ rows \in 0 .. MaxRows + 1
      /\ page \in 1 .. MaxPages
  BY GitlabAssumption DEF Init
<1>2. listed \in Seq(Rows)
  BY DEF Init
<1>3. TypeOK
  BY <1>1, <1>2 DEF Init, TypeOK, Empty
<1>4. Named
  BY FS_EmptySet DEF Init, Named
<1>5. Idle /\ Planned
  BY DEF Init, Idle, Planned
<1> QED
  BY <1>3, <1>4, <1>5 DEF Typed

\* The next of what is to be requested.
LEMMA FirstOfIds ==
  ASSUME Typed, ids # {}
  PROVE  /\ stage = "groups" => First(ids) \in GroupIds /\ First(ids) \in ids
         /\ stage = "projects" => First(ids) \in ProjectIds \cup found /\ First(ids) \in ids
<1>1. CASE stage = "groups"
  <2>1. ids \subseteq GroupIds /\ GroupIds \subseteq Nat
    BY <1>1, GitlabAssumption DEF Typed, Named
  <2>2. IsFiniteSet(ids)
    BY <2>1, GitlabAssumption, FS_Subset
  <2> QED
    BY <1>1, <2>1, <2>2, FirstIsIn
<1>2. CASE stage = "projects"
  <2>1. ids \subseteq ProjectIds \cup found /\ ProjectIds \subseteq Nat /\ found \subseteq Nat
    BY <1>2, GitlabAssumption DEF Typed, Named
  <2>2. IsFiniteSet(ProjectIds \cup found)
    BY GitlabAssumption, FS_Union DEF Typed, Named
  <2>3. IsFiniteSet(ids)
    BY <2>1, <2>2, FS_Subset
  <2> QED
    BY <1>2, <2>1, <2>3, FirstIsIn
<1> QED
  BY <1>1, <1>2

LEMMA BudgetSteps ==
  ASSUME Typed
  PROVE  /\ Answered => requests' \in 0 .. MaxRequests /\ attempt' \in 0 .. 2
         /\ Failed => requests' \in 0 .. MaxRequests /\ attempt' \in 0 .. 2
<1>1. requests \in 0 .. MaxRequests /\ MaxRequests \in Nat
  BY GitlabAssumption DEF Typed, TypeOK
<1> QED
  BY <1>1 DEF Answered, Failed

LEMMA FunctionIsSeq ==
  ASSUME NEW S, NEW n \in Nat, NEW f \in [1 .. n -> S]
  PROVE  f \in Seq(S) /\ Len(f) = n
OBVIOUS

LEMMA ElementOfSeq == ASSUME NEW S, NEW s \in Seq(S), NEW i \in DOMAIN s PROVE s[i] \in S
OBVIOUS

LEMMA Joined ==
  ASSUME NEW S, NEW s \in Seq(S), NEW t \in Seq(S)
  PROVE  /\ s \o t \in Seq(S) /\ Len(s \o t) = Len(s) + Len(t)
         /\ \A i \in DOMAIN s : i \in DOMAIN (s \o t) /\ (s \o t)[i] = s[i]
         /\ \A i \in DOMAIN t : Len(s) + i \in DOMAIN (s \o t) /\ (s \o t)[Len(s) + i] = t[i]
         /\ \A i \in DOMAIN (s \o t) :
              \/ i \in DOMAIN s /\ (s \o t)[i] = s[i]
              \/ i - Len(s) \in DOMAIN t /\ (s \o t)[i] = t[i - Len(s)]
OBVIOUS

LEMMA Dropped ==
  ASSUME NEW S, NEW s \in Seq(S), s # <<>>
  PROVE  /\ Head(s) \in S /\ Tail(s) \in Seq(S) /\ Len(Tail(s)) = Len(s) - 1
         /\ 1 \in DOMAIN s /\ s[1] = Head(s)
         /\ \A i \in DOMAIN Tail(s) : i + 1 \in DOMAIN s /\ Tail(s)[i] = s[i + 1]
         /\ \A i \in DOMAIN s : i = 1 \/ (i - 1 \in DOMAIN Tail(s) /\ Tail(s)[i - 1] = s[i])
OBVIOUS

\* The first row that listing objects to, if there is any.
LEMMA ObjectionIs ==
  ASSUME Typed, NEW items \in Seq(Rows)
  PROVE  /\ Objection(items) \in 0 .. Len(items)
         /\ Objection(items) = 0 =>
              \A i \in DOMAIN items : items[i].id # 0 /\ ~Repeats(items, i)
         /\ \A i \in 1 .. Objection(items) - 1 : items[i].id # 0 /\ ~Repeats(items, i)
<1> DEFINE objections == {i \in DOMAIN items : items[i].id = 0 \/ Repeats(items, i)}
<1>1. /\ Len(items) \in Nat /\ DOMAIN items = 1 .. Len(items)
      /\ Objection(items) = IF objections = {} THEN 0 ELSE First(objections)
  BY DEF Objection
<1>2. CASE objections = {}
  BY <1>1, <1>2
<1>3. CASE objections # {}
  <2>1. objections \in SUBSET Nat /\ objections \subseteq 1 .. Len(items)
    BY <1>1
  <2>2. IsFiniteSet(1 .. Len(items))
    BY <1>1, FS_Interval
  <2>3. IsFiniteSet(objections)
    BY <2>1, <2>2, FS_Subset
  <2>4. First(objections) \in objections /\ \A i \in objections : First(objections) <= i
    BY <1>3, <2>1, <2>3, FirstIsIn
  <2>5. Objection(items) = First(objections)
    BY <1>1, <1>3
  <2>6. Objection(items) \in 1 .. Len(items)
    BY <2>1, <2>4, <2>5
  <2>7. ASSUME NEW i \in 1 .. Objection(items) - 1 PROVE i \in DOMAIN items /\ i \notin objections
    <3>1. ~(Objection(items) <= i)
      BY <2>6
    <3> QED
      BY <1>1, <2>4, <2>5, <2>6, <3>1
  <2> QED
    BY <2>6, <2>7
<1> QED
  BY <1>2, <1>3

\* How a page ends, and what listing makes of it.
LEMMA PageIs ==
  ASSUME Typed, NEW items \in Pages, NEW h \in Headers, Page(items, h)
  PROVE  LET end == PageEnds(items, h) IN
         /\ items \in Seq(Rows) /\ stage \in {"group projects", "members"}
         /\ plan # <<>> /\ ~read
         /\ end \in {"oversized", "limit", "pagination", "malformed", "repeated", "end",
                     "empty", "pages", "more"}
         /\ end \in {"end", "more", "pages", "empty"} => Objection(items) = 0
         /\ end = "empty" => Len(items) = 0
         /\ end \in {"more", "pages"} => More(h, Len(items))
         /\ end = "end" => ~More(h, Len(items))
         /\ end = "more" => page # MaxPages
         /\ listed' \in {<<>>, listed, listed \o items}
         /\ end = "repeated" => listed' = <<>>
         /\ end \in {"end", "more", "pages"} => listed' = listed \o items
         /\ end \notin {"repeated", "end", "more", "pages"} => listed' = listed
<1>1. ReadingList
  BY DEF Page
<1>2. items \in ProjectPages \cup MemberPages
  BY DEF Pages
<1>3. listed' = Taken(PageEnds(items, h), items)
  BY DEF Page
<1> QED
  BY <1>1, <1>2, <1>3, PageRows DEF ReadingList, PageEnds, Taken, LastAllowed

LEMMA PageTyped ==
  ASSUME Typed, NEW items \in Pages, NEW h \in Headers, Page(items, h)
  PROVE  Typed'
<1> DEFINE end == PageEnds(items, h)
<1>1. /\ UNCHANGED <<stage, ids, plan, scopes, members>>
      /\ page' = IF end = "more" THEN page + 1 ELSE page
      /\ read' = (end # "more")
      /\ complete' = (complete /\ end \in {"more", "end"})
      /\ rows' = IF end = "oversized" THEN rows
                 ELSE IF rows + Len(items) > MaxRows THEN MaxRows + 1 ELSE rows + Len(items)
      /\ Answered
  BY DEF Page
<1>2. /\ items \in Seq(Rows) /\ stage \in {"group projects", "members"} /\ plan # <<>>
      /\ listed' \in {<<>>, listed, listed \o items} /\ (end = "more" => page # MaxPages)
  BY PageIs
<1> HIDE DEF end
<1>3. requests' \in 0 .. MaxRequests /\ attempt' \in 0 .. 2
  BY <1>1, BudgetSteps
<1>4. rows' \in 0 .. MaxRows + 1
  <2>1. rows \in 0 .. MaxRows + 1
    BY DEF Typed, TypeOK
  <2>2. MaxRows \in Nat
    BY GitlabAssumption
  <2>3. Len(items) \in Nat
    <3>1. items \in Seq(Rows)
      BY <1>2
    <3> QED
      BY <3>1
  <2>6. rows' = IF end = "oversized" THEN rows
                 ELSE IF rows + Len(items) > MaxRows THEN MaxRows + 1 ELSE rows + Len(items)
    BY <1>1
  <2>4. rows + Len(items) > MaxRows \/ rows + Len(items) \in 0 .. MaxRows + 1
    BY <2>1, <2>2, <2>3
  <2>5. MaxRows + 1 \in 0 .. MaxRows + 1
    BY <2>2
  <2> QED
    BY <2>1, <2>4, <2>5, <2>6
<1>5. page' \in 1 .. MaxPages
  <2>1. page \in 1 .. MaxPages
    BY DEF Typed, TypeOK
  <2>2. MaxPages \in Nat
    BY GitlabAssumption
  <2>3. page # MaxPages => page + 1 \in 1 .. MaxPages
    BY <2>1, <2>2
  <2>4. page' = IF end = "more" THEN page + 1 ELSE page
    BY <1>1
  <2>5. end = "more" => page # MaxPages
    BY <1>2
  <2> QED
    BY <2>1, <2>3, <2>4, <2>5
<1>6. listed \in Seq(Rows) /\ listed' \in Seq(Rows)
  <2>1. listed \in Seq(Rows)
    BY DEF Typed, TypeOK
  <2>2. listed \o items \in Seq(Rows)
    BY <1>2, <2>1, Joined
  <2>3. <<>> \in Seq(Rows)
    OBVIOUS
  <2> QED
    BY <1>2, <2>1, <2>2, <2>3
<1>7. read' \in BOOLEAN /\ complete' \in BOOLEAN
  BY <1>1
<1>8. TypeOK'
  BY <1>1, <1>3, <1>4, <1>5, <1>6, <1>7 DEF Typed, TypeOK, scopes, members, Keys
<1>9. ASSUME NEW i \in DOMAIN listed'
      PROVE  \/ i \in DOMAIN listed /\ listed'[i] = listed[i]
             \/ \E j \in DOMAIN items : listed'[i] = items[j]
  <2>1. CASE listed' = <<>>
    BY <2>1, <1>9
  <2>2. CASE listed' = listed
    BY <2>2, <1>9
  <2>3. CASE listed' = listed \o items
    <3>1. i \in DOMAIN (listed \o items)
      BY <2>3, <1>9
    <3>2. \/ i \in DOMAIN listed /\ (listed \o items)[i] = listed[i]
          \/ i - Len(listed) \in DOMAIN items /\ (listed \o items)[i] = items[i - Len(listed)]
      BY <3>1, <1>2, <1>6, Joined
    <3> QED
      BY <2>3, <3>2
  <2> QED
    BY <1>2, <2>1, <2>2, <2>3
<1>10. Named'
  <2>1. stage = "group projects" => \A j \in DOMAIN items : ~IsMember(items[j])
    BY PageRows DEF Pages
  <2>2. stage = "members" => \A j \in DOMAIN items : IsMember(items[j])
    BY PageRows DEF Pages
  <2> QED
    BY <1>1, <1>2, <1>9, <2>1, <2>2 DEF Typed, Named, scopes
<1>11. Idle' /\ Planned'
  BY <1>1, <1>2 DEF Typed, Idle, Planned
<1> QED
  BY <1>8, <1>10, <1>11 DEF Typed

\* What follows one list.
LEMMA NextListIs ==
  ASSUME Typed, NextList
  PROVE  /\ page' \in 1 .. MaxPages /\ read' \in BOOLEAN /\ listed' \in Seq(Rows)
         /\ listed' = <<>> /\ Idle' /\ (plan # <<>> => Planned')
<1>1. page' = 1 /\ read' = FALSE /\ listed' = <<>> /\ shown' = <<>> /\ plan' = Tail(plan)
  BY DEF NextList
<1>2. 1 \in 1 .. MaxPages
  BY GitlabAssumption
<1>3. plan # <<>> => Planned'
  BY <1>1, Dropped DEF Typed, Planned
<1>4. listed' \in Seq(Rows) /\ read' \in BOOLEAN
  <2>1. <<>> \in Seq(Rows)
    OBVIOUS
  <2> QED
    BY <1>1, <2>1
<1> QED
  BY <1>1, <1>2, <1>3, <1>4 DEF Idle

LEMMA ScopeStepTyped ==
  ASSUME Typed,
         GroupsDone \/ GroupProjectsDone \/ ScopeFails \/ \E parent : Group(parent) \/ Project(parent)
  PROVE  Typed'
<1>1. /\ UNCHANGED <<rows, list, found, accounts, blocked>>
      /\ requests' \in 0 .. MaxRequests /\ attempt' \in 0 .. 2
  BY BudgetSteps DEF GroupsDone, GroupProjectsDone, ScopeFails, Group, Project, budget, scopes,
     members, Typed, TypeOK
<1>2. stage \in {"groups", "group projects", "projects"} /\ listed = <<>> /\ shown = <<>> /\ ~read
  BY DEF GroupsDone, GroupProjectsDone, ScopeFails, Group, Project, Typed, Idle
<1>3. Idle'
  BY <1>1, <1>2 DEF Idle, list
<1>4. /\ stage' \in {"groups", "group projects", "projects", "failed"}
      /\ complete' \in BOOLEAN
  <2>1. stage' \in {"groups", "group projects", "projects", "failed"}
    BY <1>2 DEF GroupsDone, GroupProjectsDone, ScopeFails, Group, Project
  <2>2. complete' \in {complete, FALSE}
    BY DEF GroupsDone, GroupProjectsDone, ScopeFails, Group, Project
  <2> QED
    BY <2>1, <2>2 DEF Typed, TypeOK
<1>5. /\ Planned' /\ observed' \subseteq ProjectIds \cup found
      /\ DOMAIN groups' \subseteq GroupIds /\ DOMAIN resources' \subseteq Keys
      /\ stage' = "groups" => ids' \subseteq GroupIds
      /\ stage' = "projects" => ids' \subseteq ProjectIds \cup found
  <2>1. CASE GroupsDone
    <3>1. /\ stage' = "group projects" /\ UNCHANGED <<ids, scopes>>
          /\ plan' = [i \in DOMAIN Ascending(DOMAIN groups) |->
                        [scope |-> GroupKey(Ascending(DOMAIN groups)[i]), effective |-> FALSE]]
      BY <2>1 DEF GroupsDone
    <3>2. DOMAIN groups \in SUBSET Nat /\ IsFiniteSet(DOMAIN groups)
      BY GitlabAssumption, FS_Subset DEF Typed, TypeOK
    <3>3. /\ Cardinality(DOMAIN groups) \in Nat
          /\ DOMAIN Ascending(DOMAIN groups) = 1 .. Cardinality(DOMAIN groups)
          /\ \A i \in 1 .. Cardinality(DOMAIN groups) : Ascending(DOMAIN groups)[i] \in Nat
      BY <3>2, AscendingIsOnce
    <3>4. Planned'
      <4>1. ASSUME NEW i \in 1 .. Cardinality(DOMAIN groups)
            PROVE  [scope |-> GroupKey(Ascending(DOMAIN groups)[i]), effective |-> FALSE]
                     \in [scope : Scope, effective : BOOLEAN]
        BY <3>3 DEF GroupKey, Scope
      <4>2. plan' \in [1 .. Cardinality(DOMAIN groups) -> [scope : Scope, effective : BOOLEAN]]
        BY <3>1, <3>3, <4>1
      <4> QED
        BY <3>3, <4>2, FunctionIsSeq DEF Planned
    <3> QED
      BY <3>1, <3>4 DEF scopes, Typed, TypeOK, Named
  <2>2. CASE GroupProjectsDone
    BY <2>2 DEF GroupProjectsDone, scopes, Typed, TypeOK, Named, Planned
  <2>3. CASE ScopeFails
    BY <2>3 DEF ScopeFails, scopes, Typed, TypeOK, Named, Planned
  <2>4. ASSUME NEW parent, Group(parent)
        PROVE  /\ Planned' /\ observed' \subseteq ProjectIds \cup found
               /\ DOMAIN groups' \subseteq GroupIds /\ DOMAIN resources' \subseteq Keys
               /\ stage' = "groups" /\ ids' \subseteq GroupIds
    <3>1. /\ stage = "groups" /\ ids # {} /\ UNCHANGED <<stage, plan, observed>>
          /\ DOMAIN groups' = DOMAIN groups \cup {First(ids)}
          /\ DOMAIN resources' = DOMAIN resources \cup {GroupKey(First(ids))}
          /\ ids' \subseteq ids
      BY <2>4 DEF Group, Put
    <3>2. First(ids) \in GroupIds
      BY <3>1, FirstOfIds
    <3>3. GroupKey(First(ids)) \in Keys
      BY <3>2 DEF Keys
    <3> QED
      BY <3>1, <3>2, <3>3 DEF Typed, TypeOK, Named, Planned
  <2>5. ASSUME NEW parent, Project(parent)
        PROVE  /\ Planned' /\ observed' \subseteq ProjectIds \cup found
               /\ DOMAIN groups' \subseteq GroupIds /\ DOMAIN resources' \subseteq Keys
               /\ stage' = "projects" /\ ids' \subseteq ProjectIds \cup found
    <3>1. /\ stage = "projects" /\ ids # {} /\ UNCHANGED <<stage, plan, groups>>
          /\ observed' \subseteq observed \cup {First(ids)}
          /\ DOMAIN resources' \subseteq DOMAIN resources \cup {ProjectKey(First(ids))}
          /\ ids' \subseteq ids
      BY <2>5 DEF Project, Put
    <3>2. First(ids) \in ProjectIds \cup found
      BY <3>1, FirstOfIds
    <3>3. ProjectKey(First(ids)) \in Keys
      BY <3>2 DEF Keys
    <3> QED
      BY <3>1, <3>2, <3>3 DEF Typed, TypeOK, Named, Planned
  <2> QED
    BY <1>1, <2>1, <2>2, <2>3, <2>4, <2>5
<1>6. TypeOK'
  BY <1>1, <1>4, <1>5 DEF Typed, TypeOK, list, Keys
<1>7. Named'
  <2>1. \A i \in DOMAIN listed' : FALSE
    <3>1. listed' = <<>>
      BY <1>1, <1>2 DEF list
    <3> QED
      BY <3>1
  <2>2. found' \in SUBSET Nat /\ IsFiniteSet(found') /\ found' = found
    BY <1>1 DEF Typed, Named
  <2> QED
    BY <1>5, <2>1, <2>2 DEF Named
<1> QED
  BY <1>3, <1>5, <1>6, <1>7 DEF Typed

LEMMA GroupProjectsTyped == ASSUME Typed, GroupProjects PROVE Typed'
<1> DEFINE owned == {i \in DOMAIN listed : Owned(listed[i])}
           new == {listed[i].id : i \in owned}
<1>1. /\ stage = "group projects" /\ read /\ NextList /\ found' = found \cup new
      /\ complete' = (complete /\ owned = DOMAIN listed)
      /\ UNCHANGED <<stage, ids, budget, groups, observed, resources, members, examined>>
  BY DEF GroupProjects
<1>2. plan # <<>>
  BY <1>1 DEF Typed, Idle
<1>3. /\ page' \in 1 .. MaxPages /\ read' \in BOOLEAN /\ listed' \in Seq(Rows)
      /\ listed' = <<>> /\ Idle' /\ Planned'
  BY <1>1, <1>2, NextListIs
<1>4. new \subseteq Nat /\ IsFiniteSet(new)
  <2>1. listed \in Seq(Rows)
    BY DEF Typed, TypeOK
  <2>2. \A i \in owned : listed[i].id \in Nat
    <3>1. \A i \in DOMAIN listed : listed[i] \in Rows
      BY <2>1
    <3> QED
      BY <3>1, PageRows
  <2>3. IsFiniteSet(DOMAIN listed)
    <3>1. Len(listed) \in Nat /\ DOMAIN listed = 1 .. Len(listed)
      BY <2>1
    <3> QED
      BY <3>1, FS_Interval
  <2>4. IsFiniteSet(owned)
    BY <2>3, FS_Subset
  <2>5. [i \in owned |-> listed[i].id] \in Surjection(owned, new)
    BY DEF Surjection
  <2> QED
    BY <2>2, <2>4, <2>5, FS_Surjection
<1> HIDE DEF new, owned
<1>5. Named'
  <2>1. found' \in SUBSET Nat /\ IsFiniteSet(found')
    BY <1>1, <1>4, FS_Union DEF Typed, Named
  <2>2. \A i \in DOMAIN listed' : FALSE
    BY <1>3
  <2>3. stage' = "group projects" /\ observed' \subseteq ProjectIds \cup found'
    BY <1>1 DEF Typed, Named
  <2> QED
    BY <2>1, <2>2, <2>3 DEF Named
<1>6. complete' \in BOOLEAN
  BY <1>1
<1>7. TypeOK'
  <2>1. Keys \subseteq Keys'
    BY <1>1 DEF Keys
  <2> QED
    BY <1>1, <1>3, <1>6, <2>1 DEF Typed, TypeOK, budget, members
<1> QED
  BY <1>3, <1>5, <1>7 DEF Typed

\* The lists of members: those of the groups, and then those of the projects, two each.
LEMMA MemberPlan ==
  ASSUME Typed, Contain
  PROVE  /\ Planned'
         /\ \A k \in DOMAIN plan' :
              \/ \E id \in DOMAIN groups : plan'[k].scope = GroupKey(id)
              \/ \E id \in observed : plan'[k].scope = ProjectKey(id)
         /\ \A k, l \in DOMAIN plan' : plan'[k] = plan'[l] => k = l
<1> DEFINE g == Cardinality(DOMAIN groups)
           o == Cardinality(observed)
           ofGroups == [i \in 1 .. g |-> GroupKey(Ascending(DOMAIN groups)[i])]
           ofProjects == [i \in 1 .. o |-> ProjectKey(Ascending(observed)[i])]
           walked == ofGroups \o ofProjects
<1>1. plan' = [i \in 1 .. 2 * Len(walked) |->
                 [scope |-> walked[(i + 1) \div 2], effective |-> i % 2 = 0]]
  BY DEF Contain
<1>2. /\ DOMAIN groups \in SUBSET Nat /\ IsFiniteSet(DOMAIN groups)
      /\ observed \in SUBSET Nat /\ IsFiniteSet(observed)
  <2>1. DOMAIN groups \subseteq GroupIds /\ observed \subseteq ProjectIds \cup found
    BY DEF Typed, TypeOK, Named
  <2>2. IsFiniteSet(ProjectIds \cup found) /\ ProjectIds \cup found \subseteq Nat
    BY GitlabAssumption, FS_Union DEF Typed, Named
  <2> QED
    BY <2>1, <2>2, GitlabAssumption, FS_Subset
<1>3. /\ g \in Nat
      /\ \A i \in 1 .. g : Ascending(DOMAIN groups)[i] \in DOMAIN groups
      /\ \A i, j \in 1 .. g : Ascending(DOMAIN groups)[i] = Ascending(DOMAIN groups)[j] => i = j
  BY <1>2, AscendingIsOnce
<1>4. /\ o \in Nat
      /\ \A i \in 1 .. o : Ascending(observed)[i] \in observed
      /\ \A i, j \in 1 .. o : Ascending(observed)[i] = Ascending(observed)[j] => i = j
  BY <1>2, AscendingIsOnce
<1> HIDE DEF g, o
<1>5. ofGroups \in Seq(Scope) /\ ofProjects \in Seq(Scope) /\ Len(ofGroups) = g /\ Len(ofProjects) = o
  <2>1. ofGroups \in [1 .. g -> Scope]
    BY <1>2, <1>3 DEF Scope, GroupKey
  <2>2. ofProjects \in [1 .. o -> Scope]
    BY <1>2, <1>4 DEF Scope, ProjectKey
  <2> QED
    BY <1>3, <1>4, <2>1, <2>2, FunctionIsSeq
<1>6. /\ walked \in Seq(Scope) /\ Len(walked) = g + o /\ DOMAIN walked = 1 .. g + o
      /\ \A i \in 1 .. g : walked[i] = GroupKey(Ascending(DOMAIN groups)[i])
      /\ \A i \in g + 1 .. g + o : walked[i] = ProjectKey(Ascending(observed)[i - g])
  <2> HIDE DEF ofGroups, ofProjects
  <2>1. /\ walked \in Seq(Scope) /\ Len(walked) = Len(ofGroups) + Len(ofProjects)
        /\ \A i \in DOMAIN ofGroups : walked[i] = ofGroups[i]
        /\ \A i \in DOMAIN ofProjects : walked[Len(ofGroups) + i] = ofProjects[i]
    <3>1. \A s, t \in Seq(Scope) :
            /\ s \o t \in Seq(Scope) /\ Len(s \o t) = Len(s) + Len(t)
            /\ \A i \in DOMAIN s : (s \o t)[i] = s[i]
            /\ \A i \in DOMAIN t : (s \o t)[Len(s) + i] = t[i]
      BY Joined
    <3>2. ofGroups \in Seq(Scope) /\ ofProjects \in Seq(Scope)
      BY <1>5
    <3> QED
      BY <3>1, <3>2, Zenon
  <2>2. DOMAIN ofGroups = 1 .. g /\ DOMAIN ofProjects = 1 .. o
    BY DEF ofGroups, ofProjects
  <2>3. ASSUME NEW i \in 1 .. g PROVE walked[i] = GroupKey(Ascending(DOMAIN groups)[i])
    BY <2>1, <2>2 DEF ofGroups
  <2>4. ASSUME NEW i \in g + 1 .. g + o PROVE walked[i] = ProjectKey(Ascending(observed)[i - g])
    <3>1. i - g \in 1 .. o /\ g + (i - g) = i
      BY <1>3, <1>4
    <3>2. walked[g + (i - g)] = ofProjects[i - g]
      BY <1>5, <2>1, <2>2, <3>1
    <3> QED
      BY <3>1, <3>2 DEF ofProjects
  <2> HIDE DEF walked
  <2>5. DOMAIN walked = 1 .. Len(walked)
    BY <2>1
  <2> QED
    BY <1>5, <2>1, <2>3, <2>4, <2>5
<1> HIDE DEF walked
<1>7. ASSUME NEW i \in 1 .. g + o
      PROVE  \/ \E id \in DOMAIN groups : walked[i] = GroupKey(id)
             \/ \E id \in observed : walked[i] = ProjectKey(id)
  <2>1. CASE i \in 1 .. g
    BY <1>3, <1>6, <2>1
  <2>2. CASE i \in g + 1 .. g + o
    <3>1. i - g \in 1 .. o
      BY <1>3, <1>4, <2>2
    <3> QED
      BY <1>4, <1>6, <2>2, <3>1
  <2> QED
    BY <1>3, <1>4, <2>1, <2>2
<1>8. ASSUME NEW i \in 1 .. g + o, NEW j \in 1 .. g + o, walked[i] = walked[j] PROVE i = j
  <2>1. CASE i \in 1 .. g /\ j \in 1 .. g
    BY <1>3, <1>6, <1>8, <2>1 DEF GroupKey
  <2>2. CASE i \in g + 1 .. g + o /\ j \in g + 1 .. g + o
    <3>1. i - g \in 1 .. o /\ j - g \in 1 .. o
      BY <1>3, <1>4, <2>2
    <3>2. Ascending(observed)[i - g] = Ascending(observed)[j - g]
      BY <1>6, <1>8, <2>2 DEF ProjectKey
    <3>3. i - g = j - g
      BY <1>4, <3>1, <3>2
    <3> QED
      BY <3>3, <1>3, <1>4
  <2>3. CASE i \in 1 .. g /\ j \in g + 1 .. g + o
    BY <1>6, <1>8, <2>3 DEF GroupKey, ProjectKey
  <2>4. CASE j \in 1 .. g /\ i \in g + 1 .. g + o
    BY <1>6, <1>8, <2>4 DEF GroupKey, ProjectKey
  <2> QED
    BY <1>3, <1>4, <2>1, <2>2, <2>3, <2>4
<1> DEFINE n == g + o
<1>9. n \in Nat /\ Len(walked) = n /\ DOMAIN plan' = 1 .. 2 * n
  BY <1>1, <1>3, <1>4, <1>6
<1> HIDE DEF n
<1>10. ASSUME NEW k \in 1 .. 2 * n PROVE (k + 1) \div 2 \in 1 .. n
  BY <1>9
<1>11. ASSUME NEW k \in 1 .. 2 * n
       PROVE  /\ plan'[k] = [scope |-> walked[(k + 1) \div 2], effective |-> k % 2 = 0]
              /\ plan'[k].scope = walked[(k + 1) \div 2] /\ plan'[k].effective = (k % 2 = 0)
  BY <1>1, <1>9
<1>12. Planned'
  <2>1. ASSUME NEW k \in 1 .. 2 * n PROVE plan'[k] \in [scope : Scope, effective : BOOLEAN]
    <3>1. walked[(k + 1) \div 2] \in Scope
      BY <1>6, <1>10 DEF n
    <3>2. ASSUME NEW s \in Scope, NEW b \in BOOLEAN
          PROVE  [scope |-> s, effective |-> b] \in [scope : Scope, effective : BOOLEAN]
      OBVIOUS
    <3>3. (k % 2 = 0) \in BOOLEAN
      OBVIOUS
    <3>4. [scope |-> walked[(k + 1) \div 2], effective |-> k % 2 = 0]
            \in [scope : Scope, effective : BOOLEAN]
      BY <3>1, <3>2, <3>3
    <3> QED
      BY <1>11, <3>4
  <2>2. plan' \in [1 .. 2 * n -> [scope : Scope, effective : BOOLEAN]]
    BY <1>1, <1>9, <2>1
  <2>3. 2 * n \in Nat
    BY <1>9
  <2> QED
    BY <2>2, <2>3, FunctionIsSeq DEF Planned
<1>13. ASSUME NEW k \in DOMAIN plan'
       PROVE  \/ \E id \in DOMAIN groups : plan'[k].scope = GroupKey(id)
              \/ \E id \in observed : plan'[k].scope = ProjectKey(id)
  <2>1. k \in 1 .. 2 * n /\ (k + 1) \div 2 \in 1 .. g + o
    BY <1>9, <1>10 DEF n
  <2> QED
    BY <1>7, <1>11, <2>1
<1>14. ASSUME NEW k \in DOMAIN plan', NEW l \in DOMAIN plan', plan'[k] = plan'[l] PROVE k = l
  <2>1. k \in 1 .. 2 * n /\ l \in 1 .. 2 * n
    BY <1>9
  <2>2. /\ (k + 1) \div 2 \in 1 .. g + o /\ (l + 1) \div 2 \in 1 .. g + o
        /\ walked[(k + 1) \div 2] = walked[(l + 1) \div 2]
    <3>1. (k + 1) \div 2 \in 1 .. g + o /\ (l + 1) \div 2 \in 1 .. g + o
      BY <1>10, <2>1 DEF n
    <3>2. plan'[k].scope = walked[(k + 1) \div 2] /\ plan'[l].scope = walked[(l + 1) \div 2]
      BY <1>11, <2>1
    <3> QED
      BY <1>14, <3>1, <3>2
  <2>3. (k + 1) \div 2 = (l + 1) \div 2
    BY <1>8, <2>2
  <2>4. (k % 2 = 0) = (l % 2 = 0)
    BY <1>11, <1>14, <2>1
  <2>5. k \in Nat /\ l \in Nat
    BY <1>9, <2>1
  <2> QED
    BY <2>3, <2>4, <2>5
<1> QED
  BY <1>12, <1>13, <1>14

LEMMA ContainTyped == ASSUME Typed, Contain PROVE Typed'
<1>1. /\ UNCHANGED <<ids, budget, list, groups, found, observed, members, examined>>
      /\ stage = "projects" /\ stage' \in {"failed", "members"}
      /\ DOMAIN resources' = DOMAIN resources
      /\ complete' = (complete /\ \A id \in DOMAIN groups : groups[id] # id)
  BY DEF Contain
<1>2. listed = <<>> /\ shown = <<>> /\ ~read
  BY <1>1 DEF Typed, Idle
<1>3. complete' \in BOOLEAN
  BY <1>1
<1>4. TypeOK'
  BY <1>1, <1>3 DEF Typed, TypeOK, budget, list, members, Keys
<1>5. listed' = <<>> /\ shown' = <<>> /\ ~read'
  BY <1>1, <1>2 DEF list
<1>6. \A i \in DOMAIN listed' : FALSE
  BY <1>5
<1>7. Named'
  BY <1>1, <1>6 DEF Typed, Named
<1> QED
  BY <1>4, <1>5, <1>7, MemberPlan DEF Typed, Idle

LEMMA MemberTyped == ASSUME Typed, Member PROVE Typed'
<1> DEFINE row == Head(listed)
<1>1. /\ stage = "members" /\ read /\ listed # <<>> /\ listed' = Tail(listed)
      /\ blocked' \subseteq blocked \cup {row.id}
      /\ UNCHANGED <<stage, ids, plan, budget, page, read, shown, scopes, examined>>
  BY DEF Member
<1>2. /\ listed \in Seq(Rows) /\ row \in Rows /\ listed' \in Seq(Rows)
      /\ \A i \in DOMAIN listed' : i + 1 \in DOMAIN listed /\ listed'[i] = listed[i + 1]
  <2>1. listed \in Seq(Rows)
    BY DEF Typed, TypeOK
  <2> QED
    BY <1>1, <2>1, Dropped
<1>3. DOMAIN accounts' \subseteq DOMAIN accounts \cup {row.id} /\ complete' \in BOOLEAN
  <2>1. CASE MemberVerdict(row) = "accepted"
    <3>1. Accept(row, Head(plan)) /\ complete' = complete
      BY <2>1 DEF Member
    <3> QED
      BY <3>1 DEF Accept, Put, Typed, TypeOK
  <2>2. CASE MemberVerdict(row) # "accepted"
    <3>1. accounts' = [id \in DOMAIN accounts \ blocked' |-> accounts[id]] /\ complete' = FALSE
      BY <2>2 DEF Member
    <3> QED
      BY <3>1
  <2> QED
    BY <2>1, <2>2
<1>4. row.id \in AccountIds
  BY <1>2 DEF AccountIds
<1>5. DOMAIN accounts' \cup blocked' \subseteq AccountIds
  BY <1>1, <1>3, <1>4 DEF Typed, TypeOK
<1>6. TypeOK'
  BY <1>1, <1>2, <1>3, <1>5 DEF Typed, TypeOK, budget, scopes, Keys
<1>7. Named'
  BY <1>1, <1>2 DEF Typed, Named, scopes
<1>8. Idle' /\ Planned'
  BY <1>1 DEF Typed, Idle, Planned
<1> QED
  BY <1>6, <1>7, <1>8 DEF Typed

LEMMA MembersDoneTyped == ASSUME Typed, MembersDone PROVE Typed'
<1>1. /\ stage = "members" /\ read /\ NextList
      /\ UNCHANGED <<stage, ids, budget, scopes, members, complete, examined>>
  BY DEF MembersDone
<1>2. plan # <<>>
  BY <1>1 DEF Typed, Idle
<1>3. /\ page' \in 1 .. MaxPages /\ read' \in BOOLEAN /\ listed' \in Seq(Rows)
      /\ listed' = <<>> /\ Idle' /\ Planned'
  BY <1>1, <1>2, NextListIs
<1>4. TypeOK'
  BY <1>1, <1>3 DEF Typed, TypeOK, budget, scopes, members, Keys
<1>5. \A i \in DOMAIN listed' : FALSE
  BY <1>3
<1>6. Named'
  BY <1>1, <1>5 DEF Typed, Named, scopes
<1> QED
  BY <1>3, <1>4, <1>6 DEF Typed

LEMMA OtherTyped == ASSUME Typed, Retry \/ ListFails \/ Finish \/ UNCHANGED vars PROVE Typed'
<1>1. CASE Retry
  <2>1. requests' \in 0 .. MaxRequests /\ attempt' \in 0 .. 2
    <3>1. /\ requests' = requests + 1 /\ requests < MaxRequests
          /\ attempt' = attempt + 1 /\ attempt < 2
      BY <1>1 DEF Retry
    <3>2. requests \in 0 .. MaxRequests /\ attempt \in 0 .. 2
      BY DEF Typed, TypeOK
    <3>3. MaxRequests \in Nat
      BY GitlabAssumption
    <3> QED
      BY <3>1, <3>2, <3>3
  <2>2. UNCHANGED <<stage, ids, plan, rows, list, scopes, members, complete>>
    BY <1>1 DEF Retry
  <2> QED
    BY <2>1, <2>2 DEF Typed, TypeOK, Named, Idle, Planned, list, scopes, members, Keys
<1>2. CASE ListFails
  <2>1. /\ ReadingList /\ read' = TRUE /\ complete' = FALSE
        /\ UNCHANGED <<stage, ids, plan, rows, page, listed, shown, scopes, members>>
    BY <1>2 DEF ListFails
  <2>2. requests' \in 0 .. MaxRequests /\ attempt' \in 0 .. 2
    BY <1>2, BudgetSteps DEF ListFails
  <2>3. TypeOK' /\ Named'
    BY <2>1, <2>2 DEF Typed, TypeOK, Named, scopes, members, Keys
  <2>4. Idle' /\ Planned'
    BY <2>1 DEF Typed, Idle, Planned, ReadingList
  <2> QED
    BY <2>3, <2>4 DEF Typed
<1>3. CASE Finish
  <2>1. /\ stage = "members" /\ plan = <<>> /\ stage' \in {"malformed", "failed", "done"}
        /\ UNCHANGED <<ids, plan, budget, list, scopes, members, complete>>
    BY <1>3 DEF Finish
  <2>2. TypeOK' /\ Named'
    BY <2>1 DEF Typed, TypeOK, Named, budget, list, scopes, members, Keys
  <2>3. Idle' /\ Planned'
    BY <2>1 DEF Typed, Idle, Planned, list
  <2> QED
    BY <2>2, <2>3 DEF Typed
<1>4. CASE UNCHANGED vars
  BY <1>4 DEF vars, budget, list, scopes, members, Typed, TypeOK, Named, Idle, Planned, Keys
<1> QED
  BY <1>1, <1>2, <1>3, <1>4

LEMMA NextTyped == Typed /\ [Next]_vars => Typed'
BY ScopeStepTyped, PageTyped, GroupProjectsTyped, ContainTyped, MemberTyped, MembersDoneTyped,
   OtherTyped DEF Next

\* Requests, rows and pages stay within their budgets (request and listing, client.rs
\* 25-178), and every record is of an entity that was configured or that a row named.
THEOREM TypeCorrect == Spec => []TypeOK
<1>1. Typed => TypeOK
  BY DEF Typed
<1> QED
  BY InitTyped, NextTyped, <1>1, PTL DEF Spec

-----------------------------------------------------------------------------
(***************************************************************************)
(* Whole lists: no row of the pages is met twice, and only the last of     *)
(* them is said to be the last.                                            *)
(***************************************************************************)
NoRowTwice ==
  \A p, q \in DOMAIN shown :
    \A i \in DOMAIN shown[p].items, j \in DOMAIN shown[q].items :
      shown[p].items[i].id = shown[q].items[j].id => <<p, i>> = <<q, j>>

\* While a list is read, what it has shown is in hand.
Whole ==
  /\ shown \in Seq([items : Seq(Rows), more : BOOLEAN])
  /\ ~read => /\ \A p \in DOMAIN shown : shown[p].more
              /\ \A p \in DOMAIN shown : \A i \in DOMAIN shown[p].items :
                   shown[p].items[i].id \in Ids(listed)
  /\ ~read \/ complete => NoRowTwice
  /\ ListsAreWhole

LEMMA NoneRepeated ==
  ASSUME Typed, NEW items \in Seq(Rows)
  PROVE  /\ Objection(items) = 0 =>
              /\ \A i \in DOMAIN items : items[i].id # 0 /\ items[i].id \notin Ids(listed)
              /\ \A i, j \in DOMAIN items : items[i].id = items[j].id => i = j
         /\ \A i \in 1 .. Objection(items) - 1 : items[i].id \notin Ids(listed)
<1>1. ASSUME Objection(items) = 0, NEW i \in DOMAIN items, NEW j \in DOMAIN items, i < j
      PROVE  items[i].id # items[j].id
  <2>1. Len(items) \in Nat /\ DOMAIN items = 1 .. Len(items)
    OBVIOUS
  <2>2. i \in DOMAIN SubSeq(items, 1, j - 1) /\ SubSeq(items, 1, j - 1)[i] = items[i]
    BY <1>1, <2>1
  <2>3. items[i].id \in Ids(SubSeq(items, 1, j - 1))
    BY <2>2 DEF Ids
  <2>4. ~Repeats(items, j)
    BY <1>1, ObjectionIs
  <2> QED
    BY <2>3, <2>4 DEF Repeats
<1>2. ASSUME Objection(items) = 0, NEW i \in DOMAIN items, NEW j \in DOMAIN items,
             items[i].id = items[j].id
      PROVE  i = j
  <2>1. i \in Int /\ j \in Int
    OBVIOUS
  <2>2. ~(i < j) /\ ~(j < i)
    BY <1>1, <1>2
  <2> QED
    BY <2>1, <2>2
<1>3. ASSUME Objection(items) = 0, NEW i \in DOMAIN items
      PROVE  items[i].id # 0 /\ items[i].id \notin Ids(listed)
  BY <1>3, ObjectionIs DEF Repeats
<1>4. ASSUME NEW i \in 1 .. Objection(items) - 1 PROVE items[i].id \notin Ids(listed)
  BY <1>4, ObjectionIs DEF Repeats
<1> QED
  BY <1>2, <1>3, <1>4

LEMMA PageWhole ==
  ASSUME Typed, Whole, NEW items \in Pages, NEW h \in Headers, Page(items, h)
  PROVE  Whole'
<1> DEFINE end == PageEnds(items, h)
           more == More(h, Len(items))
           n == Len(shown) + 1
<1>1. /\ shown' = Append(shown, [items |-> items, more |-> more])
      /\ read' = (end # "more")
      /\ complete' = (complete /\ end \in {"more", "end"})
  BY DEF Page
<1>2. /\ items \in Seq(Rows) /\ ~read
      /\ end \in {"end", "more"} => Objection(items) = 0 /\ listed' = listed \o items
      /\ (end = "more" => more) /\ (end = "end" => ~more)
  <2>1. items \in Seq(Rows) /\ ~read
    BY PageIs
  <2>2. end \in {"end", "more"} => Objection(items) = 0 /\ listed' = listed \o items
    BY PageIs
  <2>3. (end = "more" => more) /\ (end = "end" => ~more)
    BY PageIs
  <2> QED
    BY <2>1, <2>2, <2>3
<1>3. (end = "more" => more) /\ (end = "end" => ~more)
  BY PageIs
<1>4. more \in BOOLEAN
  <2>1. CASE Signals(h) = {}
    <3>1. more = (Len(items) = PageSize)
      BY <2>1 DEF More
    <3> QED
      BY <3>1
  <2>2. CASE Signals(h) # {}
    <3>1. more = (TRUE \in Signals(h))
      BY <2>2 DEF More
    <3> QED
      BY <3>1
  <2> QED
    BY <2>1, <2>2
<1> HIDE DEF end, more
<1>5. shown \in Seq([items : Seq(Rows), more : BOOLEAN])
  BY DEF Whole
<1>6. [items |-> items, more |-> more] \in [items : Seq(Rows), more : BOOLEAN]
  BY <1>2, <1>4
<1>7. /\ shown' \in Seq([items : Seq(Rows), more : BOOLEAN])
      /\ Len(shown) \in Nat /\ DOMAIN shown = 1 .. Len(shown)
      /\ Len(shown') = n /\ DOMAIN shown' = 1 .. n /\ n \in DOMAIN shown'
      /\ \A p \in 1 .. Len(shown) : shown'[p] = shown[p]
      /\ shown'[n] = [items |-> items, more |-> more]
  BY <1>1, <1>5, <1>6
<1>8. /\ shown'[n].items = items /\ shown'[n].more = more
      /\ \A p \in DOMAIN shown' : p \in DOMAIN shown \/ p = n
      /\ \A p \in DOMAIN shown : p # n /\ shown'[p].items = shown[p].items /\ shown[p].more
  BY <1>2, <1>7 DEF Whole
<1> HIDE DEF n
<1>9. ASSUME end \in {"more", "end"} PROVE NoRowTwice'
  <2>1. Objection(items) = 0
    BY <1>2, <1>9
  <2>2. /\ \A i \in DOMAIN items : items[i].id \notin Ids(listed)
        /\ \A i, j \in DOMAIN items : items[i].id = items[j].id => i = j
    BY <1>2, <2>1, NoneRepeated
  <2>3. \A p \in DOMAIN shown : \A i \in DOMAIN shown[p].items :
          shown[p].items[i].id \in Ids(listed)
    BY <1>2 DEF Whole
  <2>4. NoRowTwice
    BY <1>2 DEF Whole
  <2>5. ASSUME NEW p \in DOMAIN shown', NEW q \in DOMAIN shown',
               NEW i \in DOMAIN shown'[p].items, NEW j \in DOMAIN shown'[q].items,
               shown'[p].items[i].id = shown'[q].items[j].id
        PROVE  <<p, i>> = <<q, j>>
    <3>1. CASE p = n /\ q = n
      BY <1>8, <2>2, <2>5, <3>1
    <3>2. CASE p = n /\ q \in DOMAIN shown
      BY <1>8, <2>2, <2>3, <2>5, <3>2
    <3>3. CASE p \in DOMAIN shown /\ q = n
      BY <1>8, <2>2, <2>3, <2>5, <3>3
    <3>4. CASE p \in DOMAIN shown /\ q \in DOMAIN shown
      BY <1>8, <2>4, <2>5, <3>4 DEF NoRowTwice
    <3> QED
      BY <1>8, <3>1, <3>2, <3>3, <3>4
  <2> QED
    BY <2>5 DEF NoRowTwice
<1>10. ASSUME ~read'
       PROVE  /\ \A p \in DOMAIN shown' : shown'[p].more
              /\ \A p \in DOMAIN shown' : \A i \in DOMAIN shown'[p].items :
                   shown'[p].items[i].id \in Ids(listed)'
  <2>1. end = "more" /\ more /\ listed' = listed \o items
    BY <1>1, <1>2, <1>3, <1>10
  <2>2. listed \in Seq(Rows)
    BY DEF Typed, TypeOK
  <2>3. Ids(listed) \subseteq Ids(listed)' /\ \A i \in DOMAIN items : items[i].id \in Ids(listed)'
    <3>1. \A i \in DOMAIN listed : i \in DOMAIN listed' /\ listed'[i] = listed[i]
      BY <1>2, <2>1, <2>2, Joined
    <3>2. \A i \in DOMAIN items :
            Len(listed) + i \in DOMAIN listed' /\ listed'[Len(listed) + i] = items[i]
      BY <1>2, <2>1, <2>2, Joined
    <3> QED
      BY <3>1, <3>2 DEF Ids
  <2>4. \A p \in DOMAIN shown : \A i \in DOMAIN shown[p].items :
          shown[p].items[i].id \in Ids(listed)
    BY <1>2 DEF Whole
  <2>5. ASSUME NEW p \in DOMAIN shown' PROVE shown'[p].more
    <3>1. CASE p = n
      BY <1>8, <2>1, <3>1
    <3>2. CASE p \in DOMAIN shown
      BY <1>7, <1>8, <3>2
    <3> QED
      BY <1>8, <3>1, <3>2
  <2>6. ASSUME NEW p \in DOMAIN shown', NEW i \in DOMAIN shown'[p].items
        PROVE  shown'[p].items[i].id \in Ids(listed)'
    BY <1>8, <2>3, <2>4
  <2> QED
    BY <2>5, <2>6
<1>11. ASSUME read', complete'
       PROVE  shown' # <<>> /\ \A p \in DOMAIN shown' : shown'[p].more = (p # Len(shown'))
  <2>1. end = "end"
    BY <1>1, <1>11
  <2>2. ~more /\ n = Len(shown')
    BY <1>3, <1>7, <2>1 DEF n
  <2>3. ASSUME NEW p \in DOMAIN shown' PROVE shown'[p].more = (p # n)
    <3>1. shown'[p].more \in BOOLEAN
      <4>1. shown'[p] \in [items : Seq(Rows), more : BOOLEAN]
        <5>1. shown' \in Seq([items : Seq(Rows), more : BOOLEAN])
          BY <1>7
        <5> QED
          BY <5>1, ElementOfSeq
      <4> QED
        BY <4>1
    <3>2. CASE p = n
      <4>1. ~shown'[p].more
        BY <1>8, <2>2, <3>2
      <4> QED
        BY <3>1, <3>2, <4>1
    <3>3. CASE p \in DOMAIN shown
      <4>1. shown'[p].more /\ p # n
        BY <1>7, <1>8, <3>3
      <4> QED
        BY <3>1, <4>1
    <3> QED
      BY <1>8, <3>2, <3>3
  <2> QED
    BY <1>7, <2>2, <2>3
<1>12. ~read' \/ complete' => end \in {"more", "end"}
  BY <1>1
<1> QED
  BY <1>7, <1>9, <1>10, <1>11, <1>12 DEF Whole, ListsAreWhole, NoRowTwice

\* Lists that are left as they are, but for rows that are handled, stay whole.
LEMMA SameWhole ==
  ASSUME Whole, UNCHANGED shown, complete' => complete,
         \/ read' = read /\ (read \/ listed' = listed)
         \/ read' /\ ~complete'
  PROVE  Whole'
<1>1. NoRowTwice' = NoRowTwice
  BY DEF NoRowTwice
<1>2. ~read' => ~read /\ listed' = listed
  OBVIOUS
<1>3. ~read' \/ complete' => ~read \/ complete
  OBVIOUS
<1>4. read' /\ complete' => read /\ complete
  OBVIOUS
<1>5. ListsAreWhole'
  BY <1>4 DEF Whole, ListsAreWhole
<1>6. ~read' => Ids(listed)' = Ids(listed)
  BY <1>2 DEF Ids
<1> QED
  BY <1>1, <1>2, <1>3, <1>5, <1>6 DEF Whole

LEMMA NewWhole == ASSUME NextList PROVE Whole'
<1>1. shown' = <<>> /\ ~read'
  BY DEF NextList
<1> QED
  BY <1>1 DEF Whole, ListsAreWhole, NoRowTwice

LEMMA NextWhole == Typed /\ Whole /\ [Next]_vars => Whole'
<1> SUFFICES ASSUME Typed, Whole, [Next]_vars PROVE Whole'
  OBVIOUS
<1>1. CASE \/ Retry \/ ScopeFails \/ GroupsDone \/ GroupProjectsDone \/ Contain \/ Finish
           \/ UNCHANGED vars \/ \E parent \in Namespaces \cup {0} : Group(parent) \/ Project(parent)
  <2>1. UNCHANGED list
    BY <1>1 DEF Retry, ScopeFails, GroupsDone, GroupProjectsDone, Contain, Finish, vars,
       Group, Project
  <2>2. complete' => complete
    BY <1>1 DEF Retry, ScopeFails, GroupsDone, GroupProjectsDone, Contain, Finish, vars,
       Group, Project
  <2> QED
    BY <2>1, <2>2, SameWhole DEF list
<1>2. CASE ListFails
  <2>1. UNCHANGED shown /\ read' /\ ~complete'
    BY <1>2 DEF ListFails
  <2> QED
    BY <2>1, SameWhole
<1>3. CASE Member
  <2>1. UNCHANGED <<shown, read>> /\ read
    BY <1>3 DEF Member
  <2>2. complete' => complete
    BY <1>3 DEF Member
  <2> QED
    BY <2>1, <2>2, SameWhole
<1>4. CASE GroupProjects \/ MembersDone
  <2>1. NextList
    BY <1>4 DEF GroupProjects, MembersDone
  <2> QED
    BY <2>1, NewWhole
<1> QED
  BY <1>1, <1>2, <1>3, <1>4, PageWhole DEF Next

\* "Duplicate IDs invalidate the affected list" (docs/gitlab.md 89), on whichever
\* pages they are, and only the page that says so is the last: whatever pages GitLab
\* answers with, no other list ends with the claim to be complete.
THEOREM ListsWhole == Spec => []ListsAreWhole
<1>1. Init => Whole
  BY DEF Init, Whole, ListsAreWhole, NoRowTwice
<1>2. Whole => ListsAreWhole
  BY DEF Whole
<1> QED
  BY InitTyped, NextTyped, <1>1, NextWhole, <1>2, PTL DEF Spec

-----------------------------------------------------------------------------
(***************************************************************************)
(* Groups and projects.                                                    *)
(***************************************************************************)
\* Unless something failed, what was configured or found is observed or about to be.
ScopesCovered ==
  complete =>
    /\ stage = "groups" => GroupIds \subseteq ids \cup DOMAIN groups
    /\ stage # "groups" => GroupIds \subseteq DOMAIN groups
    /\ stage = "projects" => ProjectIds \cup found \subseteq ids \cup observed
    /\ stage \in {"members", "done"} => ProjectIds \cup found \subseteq observed

\* Every resource has its parent, and a project that was found is below a group.
Contained ==
  /\ \A k \in DOMAIN resources : resources[k] \in {None} \cup DOMAIN resources
  /\ \A k \in DOMAIN resources : k[1] = "project" /\ k[2] \notin ProjectIds =>
       \E p \in DOMAIN groups : resources[k] = GroupKey(p)

Scoped ==
  /\ \A id \in DOMAIN groups : GroupKey(id) \in DOMAIN resources
  /\ \A id \in observed : ProjectKey(id) \in DOMAIN resources
  /\ ScopesCovered /\ Contained
  /\ stage = "members" => \A k \in DOMAIN plan : plan[k].scope \in DOMAIN resources

LEMMA InitScoped == Init => Scoped
BY DEF Init, Scoped, ScopesCovered, Contained, Empty

LEMMA GroupScoped ==
  ASSUME Typed, Scoped, NEW parent, Group(parent) PROVE Scoped'
<1> DEFINE g == First(ids)
<1>1. /\ stage = "groups" /\ ids # {} /\ ids' = ids \ {g}
      /\ DOMAIN groups' = DOMAIN groups \cup {g}
      /\ DOMAIN resources' = DOMAIN resources \cup {GroupKey(g)}
      /\ \A k \in DOMAIN resources' :
           resources'[k] = IF k = GroupKey(g) THEN None ELSE resources[k]
      /\ UNCHANGED <<stage, plan, found, observed, complete>>
  BY DEF Group, Put
<1>2. GroupKey(g)[1] = "group"
  BY DEF GroupKey
<1> HIDE DEF g
<1>3. Contained'
  <2>1. ASSUME NEW k \in DOMAIN resources' PROVE resources'[k] \in {None} \cup DOMAIN resources'
    <3>1. CASE k = GroupKey(g)
      BY <1>1, <3>1
    <3>2. CASE k # GroupKey(g)
      <4>1. k \in DOMAIN resources /\ resources'[k] = resources[k]
        BY <1>1, <3>2
      <4> QED
        BY <1>1, <4>1 DEF Scoped, Contained
    <3> QED
      BY <3>1, <3>2
  <2>2. ASSUME NEW k \in DOMAIN resources', k[1] = "project", k[2] \notin ProjectIds
        PROVE  \E p \in DOMAIN groups' : resources'[k] = GroupKey(p)
    <3>1. k # GroupKey(g)
      BY <1>2, <2>2
    <3>2. k \in DOMAIN resources /\ resources'[k] = resources[k]
      BY <1>1, <3>1
    <3> QED
      BY <1>1, <2>2, <3>2 DEF Scoped, Contained
  <2> QED
    BY <2>1, <2>2 DEF Contained, None
<1>4. ScopesCovered'
  BY <1>1 DEF Scoped, ScopesCovered
<1> QED
  BY <1>1, <1>3, <1>4 DEF Scoped

LEMMA ProjectScoped ==
  ASSUME Typed, Scoped, NEW parent, Project(parent) PROVE Scoped'
<1> DEFINE id == First(ids)
<1>1. /\ stage = "projects" /\ ids # {} /\ ids' = ids \ {id}
      /\ UNCHANGED <<stage, plan, found, groups>>
  BY DEF Project
<1>2. CASE InScope(id, parent)
  <2>1. /\ observed' = observed \cup {id} /\ complete' = complete
        /\ DOMAIN resources' = DOMAIN resources \cup {ProjectKey(id)}
        /\ \A k \in DOMAIN resources' :
             resources'[k] = IF k = ProjectKey(id) THEN Parent(parent) ELSE resources[k]
    BY <1>2 DEF Project, Put
  <2>2. /\ Parent(parent) \in {None} \cup DOMAIN resources
        /\ id \notin ProjectIds => \E p \in DOMAIN groups : Parent(parent) = GroupKey(p)
    BY <1>2 DEF InScope, Parent, Scoped
  <2>3. ProjectKey(id)[2] = id
    BY DEF ProjectKey
  <2> HIDE DEF id
  <2>4. Contained'
    <3>1. ASSUME NEW k \in DOMAIN resources'
          PROVE  resources'[k] \in {None} \cup DOMAIN resources'
      <4>1. CASE k = ProjectKey(id)
        BY <2>1, <2>2, <4>1
      <4>2. CASE k # ProjectKey(id)
        <5>1. k \in DOMAIN resources /\ resources'[k] = resources[k]
          BY <2>1, <4>2
        <5> QED
          BY <2>1, <5>1 DEF Scoped, Contained
      <4> QED
        BY <4>1, <4>2
    <3>2. ASSUME NEW k \in DOMAIN resources', k[1] = "project", k[2] \notin ProjectIds
          PROVE  \E p \in DOMAIN groups' : resources'[k] = GroupKey(p)
      <4>1. CASE k = ProjectKey(id)
        BY <1>1, <2>1, <2>2, <2>3, <3>2, <4>1
      <4>2. CASE k # ProjectKey(id)
        <5>1. k \in DOMAIN resources /\ resources'[k] = resources[k]
          BY <2>1, <4>2
        <5> QED
          BY <1>1, <3>2, <5>1 DEF Scoped, Contained
      <4> QED
        BY <4>1, <4>2
    <3> QED
      BY <3>1, <3>2 DEF Contained, None
  <2>5. ScopesCovered'
    BY <1>1, <2>1 DEF Scoped, ScopesCovered
  <2> QED
    BY <1>1, <2>1, <2>4, <2>5 DEF Scoped
<1>3. CASE ~InScope(id, parent)
  <2>1. complete' = FALSE /\ UNCHANGED <<observed, resources>>
    BY <1>3 DEF Project
  <2> QED
    BY <1>1, <2>1 DEF Scoped, ScopesCovered, Contained
<1> QED
  BY <1>2, <1>3

LEMMA ContainScoped == ASSUME Typed, Scoped, Contain PROVE Scoped'
<1>1. /\ stage = "projects" /\ ids = {} /\ stage' \in {"failed", "members"}
      /\ DOMAIN resources' = DOMAIN resources
      /\ UNCHANGED <<groups, found, observed>>
      /\ \A k \in DOMAIN resources :
           resources'[k] = IF k[1] = "group" /\ groups[k[2]] # k[2]
                           THEN Parent(groups[k[2]]) ELSE resources[k]
  BY DEF Contain
<1>2. complete' => complete
  BY DEF Contain
<1>3. ASSUME NEW k \in DOMAIN resources PROVE Parent(groups[k[2]]) \in {None} \cup DOMAIN resources
  BY DEF Parent, Scoped
<1>4. Contained'
  <2>1. ASSUME NEW k \in DOMAIN resources' PROVE resources'[k] \in {None} \cup DOMAIN resources'
    BY <1>1, <1>3 DEF Scoped, Contained
  <2>2. ASSUME NEW k \in DOMAIN resources', k[1] = "project", k[2] \notin ProjectIds
        PROVE  \E p \in DOMAIN groups' : resources'[k] = GroupKey(p)
    BY <1>1, <2>2 DEF Scoped, Contained
  <2> QED
    BY <2>1, <2>2 DEF Contained, None
<1>5. ScopesCovered'
  BY <1>1, <1>2 DEF Scoped, ScopesCovered
<1>6. \A k \in DOMAIN plan' : plan'[k].scope \in DOMAIN resources
  BY MemberPlan DEF Scoped
<1> QED
  BY <1>1, <1>4, <1>5, <1>6 DEF Scoped

LEMMA NextScoped == Typed /\ Scoped /\ [Next]_vars => Scoped'
<1> SUFFICES ASSUME Typed, Scoped, [Next]_vars PROVE Scoped'
  OBVIOUS
<1>1. CASE ScopeFails
  <2>1. /\ stage \in {"groups", "projects"} /\ complete' = FALSE
        /\ UNCHANGED <<stage, plan, scopes>>
    BY <1>1 DEF ScopeFails
  <2> QED
    BY <2>1 DEF scopes, Scoped, ScopesCovered, Contained
<1>2. CASE GroupsDone \/ GroupProjectsDone
  <2>1. /\ UNCHANGED <<scopes, complete>>
        /\ \/ stage = "groups" /\ ids = {} /\ stage' = "group projects"
           \/ stage = "group projects" /\ stage' = "failed"
           \/ stage = "group projects" /\ stage' = "projects" /\ ids' = found \cup ProjectIds
    BY <1>2 DEF GroupsDone, GroupProjectsDone
  <2> QED
    BY <2>1 DEF scopes, Scoped, ScopesCovered, Contained
<1>3. CASE GroupProjects
  <2>1. /\ stage = "group projects" /\ UNCHANGED <<stage, groups, observed, resources>>
    BY <1>3 DEF GroupProjects
  <2>2. complete' => complete
    BY <1>3 DEF GroupProjects
  <2> QED
    BY <2>1, <2>2 DEF Scoped, ScopesCovered, Contained
<1>4. CASE Retry \/ ListFails \/ Member \/ (\E items \in Pages, h \in Headers : Page(items, h))
           \/ UNCHANGED vars
  <2>1. UNCHANGED <<stage, ids, plan, scopes>>
    BY <1>4 DEF Retry, ListFails, Member, Page, vars
  <2>2. complete' => complete
    BY <1>4 DEF Retry, ListFails, Member, Page, vars
  <2> QED
    BY <2>1, <2>2 DEF scopes, Scoped, ScopesCovered, Contained
<1>5. CASE MembersDone
  <2>1. /\ stage = "members" /\ read /\ plan' = Tail(plan)
        /\ UNCHANGED <<stage, ids, scopes, complete>>
    BY <1>5 DEF MembersDone, NextList
  <2>2. ASSUME NEW k \in DOMAIN plan' PROVE plan'[k].scope \in DOMAIN resources
    <3>1. plan # <<>> /\ plan \in Seq([scope : Scope, effective : BOOLEAN])
      BY <2>1 DEF Typed, Idle, Planned
    <3>2. k + 1 \in DOMAIN plan /\ plan'[k] = plan[k + 1]
      BY <2>1, <3>1, Dropped
    <3> QED
      BY <2>1, <3>2 DEF Scoped
  <2> QED
    BY <2>1, <2>2 DEF scopes, Scoped, ScopesCovered, Contained
<1>6. CASE Finish
  <2>1. /\ stage = "members" /\ stage' \in {"malformed", "failed", "done"}
        /\ UNCHANGED <<scopes, complete>>
    BY <1>6 DEF Finish
  <2> QED
    BY <2>1 DEF scopes, Scoped, ScopesCovered, Contained
<1> QED
  BY <1>1, <1>2, <1>3, <1>4, <1>5, <1>6, GroupScoped, ProjectScoped, ContainScoped DEF Next

-----------------------------------------------------------------------------
(***************************************************************************)
(* Accounts: what is known of a user stays known, if only as blocked.      *)
(***************************************************************************)
Known == DOMAIN accounts \cup blocked

HandledAgrees(h) ==
  complete \/ (h.row.person # Bad /\ (h.row.usable \/ h.known)) =>
    /\ h.row.id \in Known
    /\ h.row.id \in DOMAIN accounts => accounts[h.row.id].person = h.row.person

People ==
  /\ DOMAIN accounts \cap blocked = {}
  /\ complete => blocked = {}
  /\ \A h \in handled : HandledAgrees(h)
  /\ \A m \in memberships : m[1] \in Known /\ m[2] \in DOMAIN resources
  /\ \A g \in DOMAIN grants : g[3] \in Known /\ g[2] \in DOMAIN resources

LEMMA InitPeople == Init => People
BY DEF Init, People, Known, Empty

\* The list that a row is of, and the grant it may make.
GrantOf(at, row) == <<at.effective, at.scope, row.id>>

\* What Collection::member does with a row.
LEMMA MemberIs ==
  ASSUME Typed, People, Member
  PROVE  LET row == Head(listed)
             at  == Head(plan) IN
         /\ stage = "members" /\ read /\ listed # <<>> /\ plan # <<>>
         /\ listed' = Tail(listed) /\ UNCHANGED <<stage, plan, read, scopes, examined>>
         /\ handled' = handled \cup {[row |-> row, known |-> row.id \in Known]}
         /\ MemberVerdict(row) = "accepted" =>
              /\ row.person # Bad /\ row.id \notin blocked /\ ~Conflicts(row)
              /\ complete' = complete /\ blocked' = blocked
              /\ DOMAIN accounts' = DOMAIN accounts \cup {row.id}
              /\ accounts'[row.id].person = row.person
              /\ \A id \in DOMAIN accounts : id # row.id => accounts'[id] = accounts[id]
              /\ memberships' = IF at.scope[1] = "group" /\ ~at.effective
                                THEN memberships \cup {<<row.id, at.scope>>} ELSE memberships
              /\ grants' = IF row.level = 0 THEN grants
                           ELSE Put(grants, GrantOf(at, row), row.level)
         /\ MemberVerdict(row) # "accepted" =>
              /\ complete' = FALSE /\ UNCHANGED <<memberships, grants>>
              /\ DOMAIN accounts' = DOMAIN accounts \ blocked'
              /\ \A id \in DOMAIN accounts' : accounts'[id] = accounts[id]
              /\ blocked' = IF MemberVerdict(row) = "conflict" THEN blocked \cup {row.id}
                            ELSE blocked
         /\ MemberVerdict(row) = "malformed" => row.person = Bad
         /\ MemberVerdict(row) = "blocked" => row.id \in blocked
         /\ MemberVerdict(row) = "unusable" => ~row.usable /\ ~Conflicts(row)
         /\ MemberVerdict(row) \in {"accepted", "malformed", "blocked", "conflict", "unusable"}
<1> DEFINE row == Head(listed)
           at  == Head(plan)
<1>1. /\ stage = "members" /\ read /\ listed # <<>>
      /\ listed' = Tail(listed) /\ UNCHANGED <<stage, plan, read, scopes, examined>>
      /\ handled' = handled \cup {[row |-> row, known |-> row.id \in Known]}
      /\ blocked' = IF MemberVerdict(row) = "conflict" THEN blocked \cup {row.id} ELSE blocked
  BY DEF Member, Known
<1>2. plan # <<>>
  BY <1>1 DEF Typed, Idle
<1>3. /\ MemberVerdict(row) = "malformed" => row.person = Bad
      /\ MemberVerdict(row) = "blocked" => row.id \in blocked
      /\ MemberVerdict(row) = "unusable" => ~row.usable /\ ~Conflicts(row)
      /\ MemberVerdict(row) \in {"accepted", "malformed", "blocked", "conflict", "unusable"}
      /\ MemberVerdict(row) = "accepted" =>
           row.person # Bad /\ row.id \notin blocked /\ ~Conflicts(row)
  BY DEF MemberVerdict
<1>4. ASSUME MemberVerdict(row) = "accepted"
      PROVE  /\ complete' = complete
             /\ DOMAIN accounts' = DOMAIN accounts \cup {row.id}
             /\ accounts'[row.id].person = row.person
             /\ \A id \in DOMAIN accounts : id # row.id => accounts'[id] = accounts[id]
             /\ memberships' = IF at.scope[1] = "group" /\ ~at.effective
                               THEN memberships \cup {<<row.id, at.scope>>} ELSE memberships
             /\ grants' = IF row.level = 0 THEN grants
                          ELSE Put(grants, GrantOf(at, row), row.level)
  <2>1. Accept(row, at) /\ complete' = complete
    BY <1>4 DEF Member
  <2>2. accounts' = Put(accounts, row.id,
                        [ person |-> row.person,
                          bot    |-> row.bot \/ (row.id \in DOMAIN accounts
                                                   /\ accounts[row.id].bot) ])
    BY <2>1 DEF Accept
  <2>3. /\ memberships' = IF at.scope[1] = "group" /\ ~at.effective
                          THEN memberships \cup {<<row.id, at.scope>>} ELSE memberships
        /\ grants' = IF row.level = 0 THEN grants
                     ELSE Put(grants, GrantOf(at, row), row.level)
    BY <2>1 DEF Accept, GrantOf
  <2> HIDE DEF row, at
  <2>4. /\ DOMAIN accounts' = DOMAIN accounts \cup {row.id}
        /\ accounts'[row.id].person = row.person
        /\ \A id \in DOMAIN accounts : id # row.id => accounts'[id] = accounts[id]
    BY <2>2 DEF Put
  <2> QED
    BY <2>1, <2>3, <2>4
<1>5. ASSUME MemberVerdict(row) # "accepted"
      PROVE  /\ complete' = FALSE /\ UNCHANGED <<memberships, grants>>
             /\ DOMAIN accounts' = DOMAIN accounts \ blocked'
             /\ \A id \in DOMAIN accounts' : accounts'[id] = accounts[id]
  BY <1>5 DEF Member
<1> QED
  BY <1>1, <1>2, <1>3, <1>4, <1>5

LEMMA MemberPeople == ASSUME Typed, Scoped, People, Member PROVE People'
<1> DEFINE row == Head(listed)
           at  == Head(plan)
           new == [row |-> row, known |-> row.id \in Known]
<1>1. /\ stage = "members" /\ plan # <<>> /\ resources' = resources
      /\ handled' = handled \cup {new}
      /\ MemberVerdict(row) \in {"accepted", "malformed", "blocked", "conflict", "unusable"}
  BY MemberIs DEF scopes
<1>2. at.scope \in DOMAIN resources
  <2>1. plan \in Seq([scope : Scope, effective : BOOLEAN])
    BY DEF Typed, Planned
  <2>2. 1 \in DOMAIN plan /\ plan[1] = at
    BY <1>1, <2>1, Dropped
  <2> QED
    BY <1>1, <2>2 DEF Scoped
<1>3. CASE MemberVerdict(row) = "accepted"
  <2>1. /\ row.person # Bad /\ row.id \notin blocked /\ ~Conflicts(row)
        /\ complete' = complete /\ blocked' = blocked
        /\ DOMAIN accounts' = DOMAIN accounts \cup {row.id}
        /\ accounts'[row.id].person = row.person
        /\ \A id \in DOMAIN accounts : id # row.id => accounts'[id] = accounts[id]
        /\ memberships' = IF at.scope[1] = "group" /\ ~at.effective
                          THEN memberships \cup {<<row.id, at.scope>>} ELSE memberships
        /\ grants' = IF row.level = 0 THEN grants
                     ELSE Put(grants, GrantOf(at, row), row.level)
    BY <1>3, MemberIs
  <2>2. Known' = Known \cup {row.id}
    BY <2>1 DEF Known
  <2>3. row.id \in DOMAIN accounts => accounts[row.id].person = row.person
    BY <2>1 DEF Conflicts
  <2> HIDE DEF row, at
  <2>4. ASSUME NEW h \in handled PROVE HandledAgrees(h)'
    <3>1. HandledAgrees(h)
      BY DEF People
    <3>2. CASE h.row.id = row.id
      BY <2>1, <2>2, <2>3, <3>1, <3>2 DEF HandledAgrees, Known
    <3>3. CASE h.row.id # row.id
      BY <2>1, <2>2, <3>1, <3>3 DEF HandledAgrees
    <3> QED
      BY <3>2, <3>3
  <2>5. ASSUME NEW h, h = new PROVE HandledAgrees(h)'
    <3>1. h.row = row
      BY <2>5
    <3> QED
      BY <2>1, <2>2, <3>1 DEF HandledAgrees
  <2>6. \A m \in memberships' : m[1] \in Known' /\ m[2] \in DOMAIN resources'
    <3>1. memberships' \subseteq memberships \cup {<<row.id, at.scope>>}
      BY <2>1
    <3> QED
      BY <1>1, <1>2, <2>2, <3>1 DEF People
  <2>7. \A g \in DOMAIN grants' : g[3] \in Known' /\ g[2] \in DOMAIN resources'
    <3>1. DOMAIN grants' \subseteq DOMAIN grants \cup {<<at.effective, at.scope, row.id>>}
      BY <2>1 DEF Put, GrantOf
    <3> QED
      BY <1>1, <1>2, <2>2, <3>1 DEF People
  <2>8. DOMAIN accounts' \cap blocked' = {} /\ (complete' => blocked' = {})
    BY <2>1 DEF People
  <2>9. \A h \in handled' : HandledAgrees(h)'
    BY <1>1, <2>4, <2>5
  <2> QED
    BY <2>6, <2>7, <2>8, <2>9 DEF People
<1>4. CASE MemberVerdict(row) # "accepted"
  <2>1. /\ complete' = FALSE /\ UNCHANGED <<memberships, grants>>
        /\ DOMAIN accounts' = DOMAIN accounts \ blocked'
        /\ \A id \in DOMAIN accounts' : accounts'[id] = accounts[id]
        /\ blocked' \in {blocked, blocked \cup {row.id}}
        /\ MemberVerdict(row) = "conflict" => row.id \in blocked'
    BY <1>4, MemberIs
  <2>2. Known \subseteq Known' /\ DOMAIN accounts' \subseteq DOMAIN accounts
    BY <2>1 DEF Known
  <2>3. ASSUME NEW h \in handled PROVE HandledAgrees(h)'
    BY <2>1, <2>2 DEF People, HandledAgrees
  <2>4. ASSUME NEW h, h = new PROVE HandledAgrees(h)'
    <3>1. h.row = row /\ h.known = (row.id \in Known)
      BY <2>4
    <3>2. CASE MemberVerdict(row) = "malformed"
      <4>1. row.person = Bad
        BY <3>2, MemberIs
      <4> QED
        BY <2>1, <3>1, <4>1 DEF HandledAgrees
    <3>3. CASE MemberVerdict(row) \in {"blocked", "conflict"}
      <4>1. row.id \in blocked'
        BY <2>1, <3>3, MemberIs
      <4>2. row.id \in Known' /\ row.id \notin DOMAIN accounts'
        BY <2>1, <4>1 DEF Known
      <4> HIDE DEF row
      <4> QED
        BY <3>1, <4>2 DEF HandledAgrees
    <3>4. CASE MemberVerdict(row) = "unusable"
      <4>1. ~row.usable /\ (row.id \in DOMAIN accounts => accounts[row.id].person = row.person)
        BY <3>4, MemberIs DEF Conflicts
      <4> HIDE DEF row
      <4>2. h.known => h.row.id \in Known
        BY <3>1
      <4> QED
        BY <2>1, <2>2, <3>1, <4>1, <4>2 DEF HandledAgrees
    <3> QED
      BY <1>1, <1>4, <3>2, <3>3, <3>4
  <2>5. DOMAIN accounts' \cap blocked' = {}
    BY <2>1
  <2>6. \A h \in handled' : HandledAgrees(h)'
    BY <1>1, <2>3, <2>4
  <2>7. /\ \A m \in memberships' : m[1] \in Known' /\ m[2] \in DOMAIN resources'
        /\ \A g \in DOMAIN grants' : g[3] \in Known' /\ g[2] \in DOMAIN resources'
    BY <1>1, <2>1, <2>2 DEF People
  <2> QED
    BY <2>1, <2>5, <2>6, <2>7 DEF People
<1> QED
  BY <1>3, <1>4

LEMMA NextPeople == Typed /\ Scoped /\ People /\ [Next]_vars => People'
<1> SUFFICES ASSUME Typed, Scoped, People, [Next]_vars PROVE People'
  OBVIOUS
<1>1. CASE ~Member
  <2>1. UNCHANGED members
    BY <1>1 DEF Next, Retry, Group, Project, ScopeFails, GroupsDone, Page, ListFails,
       GroupProjects, GroupProjectsDone, Contain, MembersDone, Finish, vars
  <2>2. complete' => complete
    BY <1>1 DEF Next, Retry, Group, Project, ScopeFails, GroupsDone, Page, ListFails,
       GroupProjects, GroupProjectsDone, Contain, MembersDone, Finish, vars
  <2>3. DOMAIN resources \subseteq DOMAIN resources'
    BY <1>1 DEF Next, Retry, Group, Project, ScopeFails, GroupsDone, Page, ListFails,
       GroupProjects, GroupProjectsDone, Contain, MembersDone, Finish, vars, scopes, Put
  <2> QED
    BY <2>1, <2>2, <2>3 DEF members, People, Known, HandledAgrees
<1> QED
  BY <1>1, MemberPeople

\* "An invalid final graph can reject the operation" (docs/gitlab.md 90), but never
\* by the collection's own doing.
LEMMA Closes == ASSUME Scoped, People PROVE Closed
<1>1. \A m \in Memberships : m[1] \in DOMAIN accounts /\ m[2] \in DOMAIN resources
  BY DEF People, Known, Memberships, Unblocked
<1>2. \A g \in Grants : g[3] \in DOMAIN accounts /\ g[2] \in DOMAIN resources
  BY DEF People, Known, Grants, Unblocked
<1> QED
  BY <1>1, <1>2 DEF Closed, Scoped, Contained

LEMMA NotMalformed ==
  stage # "malformed" /\ Scoped /\ People /\ [Next]_vars => (stage # "malformed")'
<1> SUFFICES ASSUME stage # "malformed", Scoped, People, [Next]_vars PROVE stage' # "malformed"
  OBVIOUS
<1>1. CASE Finish
  BY <1>1, Closes DEF Finish
<1>2. CASE ~Finish
  BY <1>2 DEF Next, Retry, Group, Project, ScopeFails, GroupsDone, Page, ListFails,
     GroupProjects, GroupProjectsDone, Contain, Member, MembersDone, vars
<1> QED
  BY <1>1, <1>2

\* A project that was not configured is below a group of the snapshot when its members
\* are claimed, whatever has moved since it was listed, and finish never meets a record
\* without the one it refers to.
THEOREM ScopeKept == Spec => []ScopeIsKept
<1>1. Init => stage # "malformed"
  BY DEF Init
<1>2. Typed /\ Scoped /\ People /\ stage # "malformed" => ScopeIsKept
  <2> SUFFICES ASSUME Typed, Scoped, People, stage # "malformed" PROVE ScopeIsKept
    OBVIOUS
  <2>1. ASSUME NEW key \in DOMAIN resources, key[1] = "project", key[2] \notin ProjectIds
        PROVE  resources[key] \in {GroupKey(id) : id \in GroupIds} \cap DOMAIN resources
    <3>1. PICK p \in DOMAIN groups : resources[key] = GroupKey(p)
      BY <2>1 DEF Scoped, Contained
    <3>2. p \in GroupIds
      BY DEF Typed, TypeOK
    <3> QED
      BY <3>1, <3>2 DEF Scoped
  <2>2. \A g \in Grants : g[2] \in DOMAIN resources
    BY DEF Grants, People
  <2> QED
    BY <2>1, <2>2 DEF ScopeIsKept
<1> QED
  BY InitTyped, NextTyped, InitScoped, NextScoped, InitPeople, NextPeople, <1>1, NotMalformed,
     <1>2, PTL DEF Spec

-----------------------------------------------------------------------------
(***************************************************************************)
(* The rows of all lists, and what was made of them.                       *)
(***************************************************************************)
\* A row of members, as examined: its list and itself.
Pending(e) == \E i \in DOMAIN listed : listed[i] = e[2]

\* It is of the list that is being read or handled.
Current(e) == stage = "members" /\ plan # <<>> /\ e[1] = Head(plan)

Recorded(e) ==
  /\ e[2].id \in DOMAIN accounts
  /\ e[2].level # 0 =>
       GrantOf(e[1], e[2]) \in DOMAIN grants /\ grants[GrantOf(e[1], e[2])] = e[2].level
  /\ e[1].scope[1] = "group" /\ ~e[1].effective => <<e[2].id, e[1].scope>> \in memberships

\* The rows in hand are of different users, so that none overrides another's grant; a
\* row no longer in hand is of a user who is not in hand either.
RowMet(e) ==
  /\ e[1] \in [scope : Scope, effective : BOOLEAN]
  /\ stage = "members" => \A k \in DOMAIN plan : e[1] = plan[k] => k = 1
  /\ Current(e) => Pending(e) \/ (read /\ e[2].id \notin Ids(listed))
  /\ GrantOf(e[1], e[2]) \in DOMAIN grants => grants[GrantOf(e[1], e[2])] = e[2].level
  /\ complete => (Current(e) /\ Pending(e)) \/ Recorded(e)

Distinct ==
  /\ \A i \in DOMAIN listed : listed[i].id # 0
  /\ \A i, j \in DOMAIN listed : listed[i].id = listed[j].id => i = j

\* No list is read twice, and there is no grant of one that has not been read.
PlanOnce == stage = "members" => \A k, l \in DOMAIN plan : plan[k] = plan[l] => k = l

Unread ==
  stage = "members" =>
    \A k \in DOMAIN plan : k # 1 \/ ~read =>
      \A g \in DOMAIN grants : g[1] # plan[k].effective \/ g[2] # plan[k].scope

ProjectMet(e) == complete => e[2].id \in found \/ (stage = "group projects" /\ Pending(e))

Early == stage \in {"groups", "group projects", "projects"}

Granted ==
  /\ Early => DOMAIN grants = {} /\ \A e \in examined : ~IsMember(e[2])
  /\ Distinct /\ PlanOnce /\ Unread
  /\ \A e \in examined : IF IsMember(e[2]) THEN RowMet(e) ELSE ProjectMet(e)

LEMMA InitGranted == Init => Granted
BY DEF Init, Granted, Early, Distinct, PlanOnce, Unread, Empty

\* The list that is being read is the first of the plan.
LEMMA HeadOfPlan ==
  ASSUME Typed, plan # <<>>
  PROVE  /\ Head(plan) \in [scope : Scope, effective : BOOLEAN]
         /\ 1 \in DOMAIN plan /\ plan[1] = Head(plan)
         /\ \A k \in DOMAIN Tail(plan) : k + 1 \in DOMAIN plan /\ Tail(plan)[k] = plan[k + 1]
         /\ \A k \in DOMAIN plan : plan[k] \in [scope : Scope, effective : BOOLEAN]
<1>1. plan \in Seq([scope : Scope, effective : BOOLEAN])
  BY DEF Typed, Planned
<1> QED
  BY <1>1, Dropped, ElementOfSeq

\* What a page leaves in hand.
LEMMA PageInHand ==
  ASSUME Typed, Granted, NEW items \in Pages, NEW h \in Headers, Page(items, h)
  PROVE  /\ Distinct'
         /\ ~read' \/ complete' =>
              /\ \A i \in DOMAIN listed : \E j \in DOMAIN listed' : listed'[j] = listed[i]
              /\ \A i \in DOMAIN items : \E j \in DOMAIN listed' : listed'[j] = items[i]
         /\ \A i \in DOMAIN listed :
              \/ \E j \in DOMAIN listed' : listed'[j] = listed[i]
              \/ read' /\ listed[i].id \notin Ids(listed)'
         /\ \A i \in Looked(PageEnds(items, h), items) :
              /\ i \in DOMAIN items
              /\ \/ \E j \in DOMAIN listed' : listed'[j] = items[i]
                 \/ read' /\ items[i].id \notin Ids(listed)'
<1> DEFINE end == PageEnds(items, h)
           looked == Looked(end, items)
<1>1. /\ read' = (end # "more") /\ complete' = (complete /\ end \in {"more", "end"})
  BY DEF Page
<1>0. items \in Seq(Rows)
  BY PageIs
<1>2. /\ items \in Seq(Rows) /\ Len(items) \in Nat /\ DOMAIN items = 1 .. Len(items)
      /\ end \in {"oversized", "limit", "pagination", "malformed", "repeated", "end",
                  "empty", "pages", "more"}
      /\ end \in {"end", "more", "pages", "empty"} => Objection(items) = 0
      /\ end = "empty" => Len(items) = 0
      /\ end = "repeated" => listed' = <<>>
      /\ end \in {"end", "more", "pages"} => listed' = listed \o items
      /\ end \notin {"repeated", "end", "more", "pages"} => listed' = listed
  <2>1. Len(items) \in Nat /\ DOMAIN items = 1 .. Len(items)
    BY <1>0
  <2> QED
    BY <1>0, <2>1, PageIs
<1>3. end = "malformed" => Objection(items) # 0 /\ items[Objection(items)].id = 0
  BY DEF PageEnds
<1>4. /\ end \in {"oversized", "limit", "pagination"} => looked = {}
      /\ end \in {"malformed", "repeated"} => looked = 1 .. Objection(items)
      /\ end \in {"end", "empty", "pages", "more"} => looked = DOMAIN items
  BY DEF Looked
<1>5. listed \in Seq(Rows) /\ Objection(items) \in 0 .. Len(items)
  BY <1>2, ObjectionIs DEF Typed, TypeOK
<1> HIDE DEF end, looked
<1>6. CASE end \in {"end", "more", "pages"}
  <2>1. listed' = listed \o items /\ Objection(items) = 0 /\ looked = DOMAIN items
    BY <1>2, <1>4, <1>6
  <2>2. \A i \in DOMAIN listed : i \in DOMAIN listed' /\ listed'[i] = listed[i]
    BY <1>2, <1>5, <2>1, Joined
  <2>3. \A i \in DOMAIN items :
          Len(listed) + i \in DOMAIN listed' /\ listed'[Len(listed) + i] = items[i]
    BY <1>2, <1>5, <2>1, Joined
  <2>4. /\ \A i \in DOMAIN items : items[i].id # 0 /\ items[i].id \notin Ids(listed)
        /\ \A i, j \in DOMAIN items : items[i].id = items[j].id => i = j
    BY <1>2, <2>1, NoneRepeated
  <2>5. ASSUME NEW i \in DOMAIN listed'
        PROVE  \/ i \in DOMAIN listed /\ listed'[i] = listed[i]
               \/ i - Len(listed) \in DOMAIN items /\ listed'[i] = items[i - Len(listed)]
    BY <1>2, <1>5, <2>1, Joined
  <2>6. Len(listed) \in Nat /\ DOMAIN listed' \subseteq Int
    <3>1. listed' \in Seq(Rows)
      BY <1>2, <1>5, <2>1, Joined
    <3> QED
      BY <1>5, <3>1
  <2>7. ASSUME NEW i \in DOMAIN listed', NEW j \in DOMAIN listed',
               listed'[i].id = listed'[j].id
        PROVE  i = j
    <3>1. CASE i \in DOMAIN listed /\ listed'[i] = listed[i]
      <4>1. listed'[i].id \in Ids(listed) /\ listed'[j].id \in Ids(listed)
        BY <2>7, <3>1 DEF Ids
      <4>2. j \in DOMAIN listed /\ listed'[j] = listed[j]
        BY <2>4, <2>5, <4>1
      <4> QED
        BY <2>7, <3>1, <4>2 DEF Granted, Distinct
    <3>2. CASE i - Len(listed) \in DOMAIN items /\ listed'[i] = items[i - Len(listed)]
      <4>1. listed'[j].id \notin Ids(listed)
        BY <2>4, <2>7, <3>2
      <4>2. j - Len(listed) \in DOMAIN items /\ listed'[j] = items[j - Len(listed)]
        BY <2>5, <4>1 DEF Ids
      <4>3. i - Len(listed) = j - Len(listed)
        BY <2>4, <2>7, <3>2, <4>2
      <4> QED
        BY <2>6, <4>3
    <3> QED
      BY <2>5, <3>1, <3>2
  <2>8. \A i \in DOMAIN listed' : listed'[i].id # 0
    BY <2>4, <2>5 DEF Granted, Distinct
  <2>9. Distinct'
    BY <2>7, <2>8 DEF Distinct
  <2>10. \A i \in DOMAIN listed : \E j \in DOMAIN listed' : listed'[j] = listed[i]
    BY <2>2
  <2>11. \A i \in DOMAIN items : \E j \in DOMAIN listed' : listed'[j] = items[i]
    BY <2>3
  <2> QED
    BY <2>1, <2>9, <2>10, <2>11 DEF looked, end
<1>7. CASE end = "repeated"
  <2>1. listed' = <<>> /\ read' /\ looked = 1 .. Objection(items) /\ ~complete'
    BY <1>1, <1>2, <1>4, <1>7
  <2>2. (\A i \in DOMAIN listed' : FALSE) /\ \A id : id \notin Ids(listed)'
    BY <2>1 DEF Ids
  <2>3. \A i \in looked : i \in DOMAIN items
    BY <1>2, <1>5, <2>1
  <2> QED
    BY <2>1, <2>2, <2>3 DEF Distinct, looked, end
<1>8. CASE end \in {"oversized", "limit", "pagination", "malformed", "empty"}
  <2>1. listed' = listed /\ read' /\ ~complete'
    BY <1>1, <1>2, <1>8
  <2>2. ASSUME NEW i \in looked PROVE i \in DOMAIN items /\ items[i].id \notin Ids(listed)
    <3>1. end # "empty"
      <4>1. end = "empty" => looked = 1 .. 0
        BY <1>2, <1>4
      <4>2. 1 .. 0 = {}
        OBVIOUS
      <4> QED
        BY <2>2, <4>1, <4>2
    <3>2. end = "malformed" /\ i \in 1 .. Objection(items)
      BY <1>4, <1>8, <2>2, <3>1
    <3>3. i \in DOMAIN items
      BY <1>2, <1>5, <3>2
    <3>4. CASE i = Objection(items)
      <4>1. items[i].id = 0
        BY <1>3, <3>2, <3>4
      <4> QED
        BY <3>3, <4>1 DEF Granted, Distinct, Ids
    <3>5. CASE i \in 1 .. Objection(items) - 1
      BY <1>2, <3>3, <3>5, NoneRepeated
    <3> QED
      BY <1>5, <3>2, <3>4, <3>5
  <2>3. Ids(listed)' = Ids(listed)
    BY <2>1 DEF Ids
  <2>4. Distinct'
    BY <2>1 DEF Granted, Distinct
  <2> QED
    BY <2>1, <2>2, <2>3, <2>4 DEF looked, end
<1> QED
  BY <1>2, <1>6, <1>7, <1>8

LEMMA PageGranted ==
  ASSUME Typed, Granted, NEW items \in Pages, NEW h \in Headers, Page(items, h)
  PROVE  Granted'
<1> DEFINE looked == Looked(PageEnds(items, h), items)
<1>1. /\ UNCHANGED <<stage, plan, found, accounts, memberships, grants>>
      /\ examined' = examined \cup {<<Head(plan), items[i]>> : i \in looked}
  BY DEF Page, scopes, members
<1>2. complete' => complete
  BY DEF Page
<1>3. plan # <<>> /\ ~read /\ stage \in {"group projects", "members"}
  BY PageIs
<1>4. /\ Distinct'
      /\ ~read' \/ complete' =>
           /\ \A i \in DOMAIN listed : \E j \in DOMAIN listed' : listed'[j] = listed[i]
           /\ \A i \in DOMAIN items : \E j \in DOMAIN listed' : listed'[j] = items[i]
      /\ \A i \in DOMAIN listed :
           \/ \E j \in DOMAIN listed' : listed'[j] = listed[i]
           \/ read' /\ listed[i].id \notin Ids(listed)'
      /\ \A i \in looked :
           /\ i \in DOMAIN items
           /\ \/ \E j \in DOMAIN listed' : listed'[j] = items[i]
              \/ read' /\ items[i].id \notin Ids(listed)'
  BY PageInHand
<1>5. /\ Head(plan) \in [scope : Scope, effective : BOOLEAN]
      /\ 1 \in DOMAIN plan /\ plan[1] = Head(plan)
  BY <1>3, HeadOfPlan
<1> HIDE DEF looked
<1>6. PlanOnce' /\ Unread'
  BY <1>1, <1>3 DEF Granted, PlanOnce, Unread
<1>7. CASE stage = "group projects"
  <2>1. ASSUME NEW e \in examined' PROVE ~IsMember(e[2]) /\ ProjectMet(e)'
    <3>1. CASE e \in examined
      <4>1. ~IsMember(e[2]) /\ ProjectMet(e)
        BY <1>7, <3>1 DEF Granted, Early
      <4>2. complete' /\ Pending(e) => Pending(e)'
        BY <1>4 DEF Pending
      <4> QED
        BY <1>1, <1>2, <4>1, <4>2 DEF ProjectMet
    <3>2. ASSUME NEW i \in looked, e = <<Head(plan), items[i]>>
          PROVE  ~IsMember(e[2]) /\ ProjectMet(e)'
      <4>1. items \in ProjectPages /\ i \in DOMAIN items /\ e[2] = items[i]
        BY <1>4, <1>7, <3>2 DEF Pages
      <4>2. ~IsMember(items[i])
        BY <4>1, PageRows
      <4>3. complete' => Pending(e)'
        BY <1>4, <4>1 DEF Pending
      <4> QED
        BY <1>1, <1>7, <4>1, <4>2, <4>3 DEF ProjectMet
    <3> QED
      BY <1>1, <3>1, <3>2
  <2>2. DOMAIN grants' = {}
    BY <1>1, <1>7 DEF Granted, Early
  <2> QED
    BY <1>4, <1>6, <2>1, <2>2 DEF Granted, Early
<1>8. CASE stage = "members"
  <2>1. ASSUME NEW e \in examined PROVE IF IsMember(e[2]) THEN RowMet(e)' ELSE ProjectMet(e)'
    <3>1. CASE ~IsMember(e[2])
      <4>1. ProjectMet(e)
        BY <3>1 DEF Granted
      <4> QED
        BY <1>1, <1>2, <1>8, <3>1, <4>1 DEF ProjectMet
    <3>2. CASE IsMember(e[2])
      <4>1. RowMet(e)
        BY <3>2 DEF Granted
      <4>2. Current(e)' = Current(e) /\ Recorded(e)' = Recorded(e)
        BY <1>1 DEF Current, Recorded
      <4>3. Current(e) => Pending(e)
        BY <1>3, <4>1 DEF RowMet
      <4>4. Pending(e) => Pending(e)' \/ (read' /\ e[2].id \notin Ids(listed)')
        BY <1>4 DEF Pending
      <4>5. Pending(e) /\ complete' => Pending(e)'
        BY <1>4 DEF Pending
      <4>6. RowMet(e)'
        BY <1>1, <1>2, <4>1, <4>2, <4>3, <4>4, <4>5 DEF RowMet
      <4> QED
        BY <3>2, <4>6
    <3> QED
      BY <3>1, <3>2
  <2>2. ASSUME NEW e, NEW i \in looked, e = <<Head(plan), items[i]>>
        PROVE  IF IsMember(e[2]) THEN RowMet(e)' ELSE ProjectMet(e)'
    <3>1. items \in MemberPages /\ i \in DOMAIN items /\ e[2] = items[i] /\ e[1] = Head(plan)
      BY <1>4, <1>8, <2>2 DEF Pages
    <3>2. IsMember(e[2])
      BY <3>1, PageRows
    <3>3. Current(e)'
      BY <1>1, <1>3, <1>8, <3>1 DEF Current
    <3>4. Pending(e)' \/ (read' /\ e[2].id \notin Ids(listed)')
      BY <1>4, <3>1 DEF Pending
    <3>5. complete' => Pending(e)'
      BY <1>4, <3>1 DEF Pending
    <3>6. GrantOf(e[1], e[2]) \notin DOMAIN grants
      <4>1. \A g \in DOMAIN grants : g[1] # e[1].effective \/ g[2] # e[1].scope
        BY <1>3, <1>5, <1>8, <3>1 DEF Granted, Unread
      <4>2. GrantOf(e[1], e[2])[1] = e[1].effective /\ GrantOf(e[1], e[2])[2] = e[1].scope
        BY DEF GrantOf
      <4> QED
        BY <4>1, <4>2
    <3>7. \A k \in DOMAIN plan : e[1] = plan[k] => k = 1
      BY <1>5, <1>8, <3>1 DEF Granted, PlanOnce
    <3>8. RowMet(e)'
      BY <1>1, <1>5, <3>1, <3>3, <3>4, <3>5, <3>6, <3>7 DEF RowMet
    <3> QED
      BY <3>2, <3>8
  <2>3. ~Early'
    BY <1>1, <1>8 DEF Early
  <2>4. \A e \in examined' : IF IsMember(e[2]) THEN RowMet(e)' ELSE ProjectMet(e)'
    BY <1>1, <2>1, <2>2
  <2> QED
    BY <1>4, <1>6, <2>3, <2>4 DEF Granted
<1> QED
  BY <1>3, <1>7, <1>8

LEMMA MemberGranted == ASSUME Typed, People, Granted, Member PROVE Granted'
<1> DEFINE row == Head(listed)
           at  == Head(plan)
<1>1. /\ stage = "members" /\ read /\ listed # <<>> /\ plan # <<>>
      /\ listed' = Tail(listed) /\ UNCHANGED <<stage, plan, read, found, examined>>
  BY MemberIs DEF scopes
<1>2. /\ at \in [scope : Scope, effective : BOOLEAN]
      /\ 1 \in DOMAIN plan /\ plan[1] = at
      /\ \A k \in DOMAIN plan : plan[k] \in [scope : Scope, effective : BOOLEAN]
  BY <1>1, HeadOfPlan
<1>3. /\ 1 \in DOMAIN listed /\ listed[1] = row
      /\ \A i \in DOMAIN listed' : i + 1 \in DOMAIN listed /\ listed'[i] = listed[i + 1]
      /\ \A i \in DOMAIN listed : i = 1 \/ (i - 1 \in DOMAIN listed' /\ listed'[i - 1] = listed[i])
      /\ DOMAIN listed' \subseteq Nat \ {0}
  <2>1. listed \in Seq(Rows)
    BY DEF Typed, TypeOK
  <2>2. Tail(listed) \in Seq(Rows)
    BY <1>1, <2>1, Dropped
  <2> QED
    BY <1>1, <2>1, <2>2, Dropped
<1>4. \/ grants' = grants
      \/ row.level # 0 /\ grants' = Put(grants, GrantOf(at, row), row.level)
  <2>1. CASE MemberVerdict(row) = "accepted"
    <3>1. grants' = IF row.level = 0 THEN grants ELSE Put(grants, GrantOf(at, row), row.level)
      BY <2>1, MemberIs
    <3> QED
      BY <3>1
  <2>2. CASE MemberVerdict(row) # "accepted"
    BY <2>2, MemberIs
  <2> QED
    BY <2>1, <2>2
<1>5. ASSUME NEW g, g # GrantOf(at, row)
      PROVE  (g \in DOMAIN grants' <=> g \in DOMAIN grants) /\ (g \in DOMAIN grants => grants'[g] = grants[g])
  BY <1>4, <1>5 DEF Put
<1> HIDE DEF row, at
<1>6. Distinct'
  <2>1. ASSUME NEW i \in DOMAIN listed', NEW j \in DOMAIN listed', listed'[i].id = listed'[j].id
        PROVE  i = j
    <3>1. i + 1 = j + 1
      BY <1>3, <2>1 DEF Granted, Distinct
    <3> QED
      BY <1>3, <3>1
  <2> QED
    BY <1>3, <2>1 DEF Granted, Distinct
<1>7. row.id \in Ids(listed) /\ row.id \notin Ids(listed)' /\ Ids(listed)' \subseteq Ids(listed)
  <2>1. ASSUME NEW i \in DOMAIN listed' PROVE listed'[i].id # row.id
    <3>1. i + 1 # 1
      BY <1>3
    <3> QED
      BY <1>3, <3>1 DEF Granted, Distinct
  <2> QED
    BY <1>3, <2>1 DEF Ids
<1>8. PlanOnce'
  BY <1>1 DEF Granted, PlanOnce
<1>9. Unread'
  <2>1. ASSUME NEW k \in DOMAIN plan, k # 1, NEW g \in DOMAIN grants'
        PROVE  g[1] # plan[k].effective \/ g[2] # plan[k].scope
    <3>1. CASE g = GrantOf(at, row)
      <4>1. g[1] = at.effective /\ g[2] = at.scope
        BY <3>1 DEF GrantOf
      <4>2. plan[k] # at
        BY <1>1, <1>2, <2>1 DEF Granted, PlanOnce
      <4>3. plan[k].effective # at.effective \/ plan[k].scope # at.scope
        BY <1>2, <4>2
      <4> QED
        BY <4>1, <4>3
    <3>2. CASE g # GrantOf(at, row)
      BY <1>1, <1>5, <2>1, <3>2 DEF Granted, Unread
    <3> QED
      BY <3>1, <3>2
  <2> QED
    BY <1>1, <2>1 DEF Unread
<1>10. ASSUME NEW e \in examined, IsMember(e[2]) PROVE RowMet(e)'
  <2>1. RowMet(e)
    BY <1>10 DEF Granted
  <2>2. Current(e)' = Current(e)
    BY <1>1 DEF Current
  <2>3. CASE Current(e) /\ e[2] = row
    <3>1. e[2].id \notin Ids(listed)' /\ read' /\ e[1] = at
      BY <1>1, <1>7, <2>3 DEF Current, at
    <3>2. GrantOf(e[1], e[2]) \in DOMAIN grants' =>
            grants'[GrantOf(e[1], e[2])] = e[2].level
      BY <1>4, <2>1, <2>3, <3>1 DEF RowMet, Put
    <3>3. complete' => Recorded(e)'
      <4> SUFFICES ASSUME complete' PROVE Recorded(e)'
        OBVIOUS
      <4>1. /\ DOMAIN accounts' = DOMAIN accounts \cup {row.id}
            /\ memberships' = IF at.scope[1] = "group" /\ ~at.effective
                              THEN memberships \cup {<<row.id, at.scope>>} ELSE memberships
            /\ grants' = IF row.level = 0 THEN grants
                         ELSE Put(grants, GrantOf(at, row), row.level)
        BY MemberIs DEF row, at
      <4>2. row.level # 0 =>
              GrantOf(at, row) \in DOMAIN grants' /\ grants'[GrantOf(at, row)] = row.level
        BY <4>1 DEF Put
      <4> QED
        BY <2>3, <3>1, <4>1, <4>2 DEF Recorded
    <3> QED
      BY <1>1, <2>1, <2>2, <3>1, <3>2, <3>3 DEF RowMet
  <2>4. CASE ~Current(e) \/ e[2] # row
    <3>1. GrantOf(e[1], e[2]) # GrantOf(at, row)
      <4>1. CASE ~Current(e)
        <5>1. e[1] # at /\ e[1] \in [scope : Scope, effective : BOOLEAN]
          BY <1>1, <2>1, <4>1 DEF Current, RowMet, at
        <5>2. e[1].effective # at.effective \/ e[1].scope # at.scope
          BY <1>2, <5>1
        <5> QED
          BY <5>2 DEF GrantOf
      <4>2. CASE Current(e) /\ e[2] # row
        <5>1. e[2].id # row.id
          <6>1. CASE Pending(e)
            BY <1>3, <4>2, <6>1 DEF Pending, Granted, Distinct
          <6>2. CASE e[2].id \notin Ids(listed)
            BY <1>7, <6>2
          <6> QED
            BY <2>1, <4>2, <6>1, <6>2 DEF RowMet
        <5> QED
          BY <5>1 DEF GrantOf
      <4> QED
        BY <2>4, <4>1, <4>2
    <3>2. GrantOf(e[1], e[2]) \in DOMAIN grants' =>
            grants'[GrantOf(e[1], e[2])] = e[2].level
      BY <1>5, <2>1, <3>1 DEF RowMet
    <3>3. Pending(e) /\ Current(e) => Pending(e)'
      BY <1>3, <2>4 DEF Pending
    <3>4. e[2].id \notin Ids(listed) => e[2].id \notin Ids(listed)'
      BY <1>7
    <3>5. complete' /\ Recorded(e) => complete /\ Recorded(e)'
      <4> SUFFICES ASSUME complete', Recorded(e) PROVE complete /\ Recorded(e)'
        OBVIOUS
      <4>1. /\ complete /\ DOMAIN accounts' = DOMAIN accounts \cup {row.id}
            /\ memberships' = IF at.scope[1] = "group" /\ ~at.effective
                              THEN memberships \cup {<<row.id, at.scope>>} ELSE memberships
        BY MemberIs DEF row, at
      <4> QED
        BY <1>5, <3>1, <4>1 DEF Recorded
    <3>6. complete' => complete
      BY MemberIs
    <3> QED
      BY <1>1, <2>1, <2>2, <3>2, <3>3, <3>4, <3>5, <3>6 DEF RowMet
  <2> QED
    BY <2>3, <2>4
<1>11. ASSUME NEW e \in examined, ~IsMember(e[2]) PROVE ProjectMet(e)'
  <2>1. ProjectMet(e)
    BY <1>11 DEF Granted
  <2>2. complete' => complete
    BY MemberIs
  <2> QED
    BY <1>1, <2>1, <2>2 DEF ProjectMet
<1>12. ~Early'
  BY <1>1 DEF Early
<1> QED
  BY <1>1, <1>6, <1>8, <1>9, <1>10, <1>11, <1>12 DEF Granted

LEMMA MembersDoneGranted == ASSUME Typed, Granted, MembersDone PROVE Granted'
<1>1. /\ stage = "members" /\ read /\ listed = <<>> /\ ~read' /\ listed' = <<>>
      /\ plan' = Tail(plan)
      /\ UNCHANGED <<stage, found, accounts, memberships, grants, complete, examined>>
  BY DEF MembersDone, NextList, scopes, members
<1>2. plan # <<>>
  BY <1>1 DEF Typed, Idle
<1>3. /\ 1 \in DOMAIN plan /\ plan[1] = Head(plan) /\ DOMAIN plan' \subseteq Nat \ {0}
      /\ \A k \in DOMAIN plan' : k + 1 \in DOMAIN plan /\ plan'[k] = plan[k + 1] /\ k + 1 # 1
  <2>1. plan \in Seq([scope : Scope, effective : BOOLEAN])
    BY DEF Typed, Planned
  <2>2. plan' \in Seq([scope : Scope, effective : BOOLEAN])
    BY <1>1, <1>2, <2>1, Dropped
  <2>3. DOMAIN plan' \subseteq Nat \ {0}
    BY <2>2
  <2> QED
    BY <1>1, <1>2, <2>3, HeadOfPlan
<1>4. \A i \in DOMAIN listed' : FALSE
  BY <1>1
<1>5. \A i \in DOMAIN listed : FALSE
  BY <1>1
<1>6. PlanOnce'
  <2>1. ASSUME NEW k \in DOMAIN plan', NEW l \in DOMAIN plan', plan'[k] = plan'[l] PROVE k = l
    <3>1. k + 1 = l + 1
      BY <1>1, <1>3, <2>1 DEF Granted, PlanOnce
    <3> QED
      BY <1>3, <3>1
  <2> QED
    BY <2>1 DEF PlanOnce
<1>7. Unread'
  BY <1>1, <1>3 DEF Granted, Unread
<1>8. ASSUME NEW e \in examined, IsMember(e[2]) PROVE RowMet(e)'
  <2>1. RowMet(e)
    BY <1>8 DEF Granted
  <2>2. \A k \in DOMAIN plan' : e[1] # plan'[k]
    BY <1>1, <1>3, <2>1 DEF RowMet
  <2>3. ~Current(e)'
    <3>1. Planned'
      BY MembersDoneTyped DEF Typed
    <3>2. plan' # <<>> => 1 \in DOMAIN plan' /\ plan'[1] = Head(plan')
      BY <3>1, Dropped DEF Planned
    <3> QED
      BY <2>2, <3>2 DEF Current
  <2>4. ~Pending(e)
    BY <1>5 DEF Pending
  <2>5. Recorded(e)' = Recorded(e)
    BY <1>1 DEF Recorded
  <2> QED
    BY <1>1, <2>1, <2>2, <2>3, <2>4, <2>5 DEF RowMet
<1>9. ASSUME NEW e \in examined, ~IsMember(e[2]) PROVE ProjectMet(e)'
  <2>1. ProjectMet(e)
    BY <1>9 DEF Granted
  <2> QED
    BY <1>1, <2>1 DEF ProjectMet
<1> QED
  BY <1>1, <1>4, <1>6, <1>7, <1>8, <1>9 DEF Granted, Early, Distinct

LEMMA ScopeStepGranted ==
  ASSUME Typed, Granted,
         \/ GroupsDone \/ GroupProjectsDone \/ ScopeFails \/ GroupProjects \/ Contain
         \/ \E parent : Group(parent) \/ Project(parent)
  PROVE  Granted'
<1>1. Early /\ DOMAIN grants = {} /\ UNCHANGED <<accounts, memberships, grants, examined>>
      /\ \A e \in examined : ~IsMember(e[2]) /\ ProjectMet(e)
  BY DEF GroupsDone, GroupProjectsDone, ScopeFails, GroupProjects, Contain, Group, Project,
     Granted, Early, members
<1>2. listed' = <<>>
  BY DEF GroupsDone, GroupProjectsDone, ScopeFails, GroupProjects, Contain, Group, Project,
     NextList, Typed, Idle, list
<1>3. \A i \in DOMAIN listed' : FALSE
  BY <1>2
<1>4. Distinct' /\ Unread'
  BY <1>1, <1>3 DEF Distinct, Unread
<1>5. PlanOnce'
  <2>1. CASE Contain
    BY <2>1, MemberPlan DEF PlanOnce
  <2>2. CASE ~Contain
    <3>1. stage' # "members"
      BY <2>2 DEF GroupsDone, GroupProjectsDone, ScopeFails, GroupProjects, Group, Project
    <3> QED
      BY <3>1 DEF PlanOnce
  <2> QED
    BY <2>1, <2>2
<1>6. ASSUME NEW e \in examined PROVE ProjectMet(e)'
  <2>1. complete' => complete
    BY DEF GroupsDone, GroupProjectsDone, ScopeFails, GroupProjects, Contain, Group, Project
  <2>2. CASE GroupProjects
    <3>1. /\ found' = found \cup {listed[i].id : i \in {j \in DOMAIN listed : Owned(listed[j])}}
          /\ complete' => {j \in DOMAIN listed : Owned(listed[j])} = DOMAIN listed
      BY <2>2 DEF GroupProjects
    <3>2. complete' /\ Pending(e) => e[2].id \in found'
      BY <3>1 DEF Pending
    <3> QED
      BY <1>1, <2>1, <3>1, <3>2 DEF ProjectMet
  <2>3. CASE ~GroupProjects
    <3>1. listed = <<>> /\ found' = found
      BY <2>3 DEF GroupsDone, GroupProjectsDone, ScopeFails, Contain, Group, Project,
         Typed, Idle, scopes
    <3>2. ~Pending(e)
      <4>1. \A i \in DOMAIN listed : FALSE
        BY <3>1
      <4> QED
        BY <4>1 DEF Pending
    <3> QED
      BY <1>1, <2>1, <3>1, <3>2 DEF ProjectMet
  <2> QED
    BY <2>2, <2>3
<1> QED
  BY <1>1, <1>4, <1>5, <1>6 DEF Granted

LEMMA OtherGranted ==
  ASSUME Typed, Granted, Retry \/ ListFails \/ Finish \/ UNCHANGED vars PROVE Granted'
<1>1. /\ UNCHANGED <<plan, listed, found, accounts, memberships, grants, examined>>
      /\ stage' = stage \/ (stage = "members" /\ plan = <<>> /\ stage' \in {"malformed", "failed", "done"})
  BY DEF Retry, ListFails, Finish, vars, list, scopes, members
<1>2. (complete' => complete) /\ (read => read')
  BY DEF Retry, ListFails, Finish, vars, list
<1>3. Early' => Early
  BY <1>1 DEF Early
<1>4. Ids(listed)' = Ids(listed)
  BY <1>1 DEF Ids
<1>5. ASSUME NEW e \in examined, IsMember(e[2]) PROVE RowMet(e)'
  <2>1. RowMet(e)
    BY <1>5 DEF Granted
  <2>2. Current(e)' = Current(e) /\ Recorded(e)' = Recorded(e) /\ Pending(e)' = Pending(e)
    BY <1>1 DEF Current, Recorded, Pending
  <2> QED
    BY <1>1, <1>2, <1>4, <2>1, <2>2 DEF RowMet
<1>6. ASSUME NEW e \in examined, ~IsMember(e[2]) PROVE ProjectMet(e)'
  <2>1. ProjectMet(e) /\ Pending(e)' = Pending(e)
    BY <1>1, <1>6 DEF Granted, Pending
  <2> QED
    BY <1>1, <1>2, <2>1 DEF ProjectMet
<1>7. Distinct' /\ PlanOnce' /\ Unread'
  BY <1>1, <1>2 DEF Granted, Distinct, PlanOnce, Unread
<1> QED
  BY <1>1, <1>3, <1>5, <1>6, <1>7 DEF Granted

LEMMA NextGranted == Typed /\ People /\ Granted /\ [Next]_vars => Granted'
BY PageGranted, MemberGranted, MembersDoneGranted, ScopeStepGranted, OtherGranted DEF Next

-----------------------------------------------------------------------------
\* A complete snapshot has every configured scope, every project listed, and every row
\* of every page of members with its membership and its level.
THEOREM CompleteLosesNothing == Spec => []NothingLost
<1>1. Typed /\ Scoped /\ People /\ Granted => NothingLost
  <2> SUFFICES ASSUME Typed, Scoped, People, Granted, stage = "done", complete
               PROVE  /\ {GroupKey(id) : id \in GroupIds} \subseteq DOMAIN resources
                      /\ {ProjectKey(id) : id \in ProjectIds \cup found} \subseteq DOMAIN resources
                      /\ \A e \in examined :
                           IF "person" \in DOMAIN e[2]
                           THEN /\ e[2].id \in DOMAIN accounts
                                /\ e[2].level # 0 =>
                                     grants[<<e[1].effective, e[1].scope, e[2].id>>] = e[2].level
                                /\ e[1].scope[1] = "group" /\ ~e[1].effective =>
                                     <<e[2].id, e[1].scope>> \in Memberships
                           ELSE ProjectKey(e[2].id) \in DOMAIN resources
    BY DEF NothingLost
  <2>1. /\ {GroupKey(id) : id \in GroupIds} \subseteq DOMAIN resources
        /\ {ProjectKey(id) : id \in ProjectIds \cup found} \subseteq DOMAIN resources
    BY DEF Scoped, ScopesCovered
  <2>2. ASSUME NEW e \in examined, IsMember(e[2])
        PROVE  /\ e[2].id \in DOMAIN accounts
               /\ e[2].level # 0 =>
                    grants[<<e[1].effective, e[1].scope, e[2].id>>] = e[2].level
               /\ e[1].scope[1] = "group" /\ ~e[1].effective =>
                    <<e[2].id, e[1].scope>> \in Memberships
    <3>1. Recorded(e)
      BY <2>2 DEF Granted, RowMet, Current
    <3>2. memberships \subseteq Memberships
      BY DEF Memberships, Unblocked, People
    <3> QED
      BY <3>1, <3>2 DEF Recorded, GrantOf
  <2>3. ASSUME NEW e \in examined, ~IsMember(e[2]) PROVE ProjectKey(e[2].id) \in DOMAIN resources
    <3>1. e[2].id \in found
      BY <2>3 DEF Granted, ProjectMet
    <3> QED
      BY <2>1, <3>1
  <2> QED
    BY <2>1, <2>2, <2>3 DEF IsMember
<1> QED
  BY InitTyped, NextTyped, InitScoped, NextScoped, InitPeople, NextPeople, InitGranted,
     NextGranted, <1>1, PTL DEF Spec

\* No account of a snapshot is described otherwise by a row whose username and status
\* can be read and that could be used or came after it, nor in a complete snapshot by
\* any row; and no grant has another level in a row of its list, complete or not.
THEOREM RecordsUncontradicted == Spec => []Uncontradicted
<1>1. People /\ Granted => Uncontradicted
  <2> SUFFICES ASSUME People, Granted PROVE Uncontradicted
    OBVIOUS
  <2>1. ASSUME NEW h \in handled, h.row.id \in DOMAIN accounts,
               complete \/ (h.row.person # Bad /\ (h.row.usable \/ h.known))
        PROVE  accounts[h.row.id].person = h.row.person
    BY <2>1 DEF People, HandledAgrees
  <2>2. ASSUME NEW e \in examined, IsMember(e[2]), GrantOf(e[1], e[2]) \in Grants
        PROVE  grants[GrantOf(e[1], e[2])] = e[2].level
    BY <2>2 DEF Granted, RowMet, Grants
  <2> QED
    BY <2>1, <2>2 DEF Uncontradicted, GrantOf, IsMember
<1> QED
  BY InitTyped, NextTyped, InitScoped, NextScoped, InitPeople, NextPeople, InitGranted,
     NextGranted, <1>1, PTL DEF Spec

=============================================================================
