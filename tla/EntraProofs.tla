----------------------------- MODULE EntraProofs -----------------------------
(***************************************************************************)
(* Theorems about Entra: whatever pages the server hands out and in        *)
(* whichever order the groups are walked, no id is resolved as two kinds,  *)
(* the memberships are those that were shown, the budgets hold, and a      *)
(* snapshot that claims to be complete was read along whole lists and has  *)
(* lost nothing of them.                                                   *)
(***************************************************************************)
EXTENDS Entra, FiniteSetTheorems, TLAPS

\* listing takes a page up to the first row that stops it.
LEMMA TakenPrefix ==
  ASSUME NEW objects \in Seq(Object)
  PROVE  /\ Taken(objects) \in 0 .. Len(objects)
         /\ \A i \in 1 .. Taken(objects) : ~Stops(objects, i)
<1> DEFINE going == {i \in 1 .. Len(objects) : \A j \in 1 .. i : ~Stops(objects, j)}
           n == Cardinality(going)
<1>0. Len(objects) \in Nat
  OBVIOUS
<1>1. IsFiniteSet(going) /\ n \in Nat /\ n <= Len(objects)
  <2>1. IsFiniteSet(1 .. Len(objects)) /\ Cardinality(1 .. Len(objects)) = Len(objects)
    <3>1. 1 \in Int /\ Len(objects) \in Int
      BY <1>0
    <3> QED
      BY <1>0, <3>1, FS_Interval
  <2>2. going \subseteq 1 .. Len(objects)
    OBVIOUS
  <2> HIDE DEF going
  <2> QED
    BY <1>0, <2>1, <2>2, FS_Subset, FS_CardinalityType
<1>2. ASSUME NEW i \in going PROVE i <= n
  <2>1. 1 .. i \subseteq going
    OBVIOUS
  <2>2. Cardinality(1 .. i) = i
    BY <1>0, FS_Interval
  <2> QED
    BY <1>1, <2>1, <2>2, FS_Subset
<1>3. ASSUME NEW i \in 1 .. Len(objects), i \notin going PROVE n < i
  <2>1. going \subseteq 1 .. i - 1
    <3>1. ASSUME NEW k \in going, k >= i PROVE i \in going
      BY <1>0, <3>1
    <3>2. \A k \in going : k < i
      BY <1>0, <1>3, <3>1
    <3> QED
      BY <1>0, <3>2
  <2>2. IsFiniteSet(1 .. i - 1) /\ Cardinality(1 .. i - 1) = i - 1
    <3>1. 1 \in Int /\ i - 1 \in Nat
      BY <1>0
    <3>2. /\ IsFiniteSet(1 .. i - 1)
          /\ Cardinality(1 .. i - 1) = IF 1 > i - 1 THEN 0 ELSE (i - 1) - 1 + 1
      BY <3>1, FS_Interval
    <3> QED
      BY <3>1, <3>2
  <2>3. n <= i - 1
    BY <2>1, <2>2, FS_Subset
  <2> QED
    BY <1>0, <1>1, <2>3
<1> HIDE DEF n
<1>4. \A i \in 1 .. Len(objects) : i <= n <=> i \in going
  BY <1>0, <1>1, <1>2, <1>3
<1>5. \A i \in 1 .. n : ~Stops(objects, i)
  BY <1>0, <1>1, <1>4
<1>6. n < Len(objects) => Stops(objects, n + 1)
  <2> SUFFICES ASSUME n < Len(objects) PROVE Stops(objects, n + 1)
    OBVIOUS
  <2>1. n + 1 \in 1 .. Len(objects) /\ n + 1 \notin going
    BY <1>0, <1>1, <1>4
  <2>2. PICK j \in 1 .. n + 1 : Stops(objects, j)
    BY <2>1
  <2> QED
    BY <1>1, <1>5, <2>2
<1>7. \E k \in 0 .. Len(objects) :
        /\ \A i \in 1 .. k : ~Stops(objects, i)
        /\ k < Len(objects) => Stops(objects, k + 1)
  BY <1>0, <1>1, <1>5, <1>6
<1> QED
  BY <1>7 DEF Taken

-----------------------------------------------------------------------------
(***************************************************************************)
(* The walk over the lists.                                                *)
(***************************************************************************)
Early == {"tenant", "users", "servicePrincipals", "groups"}

Walking == stage \in {"members", "done", "malformed"}

\* What has been examined is of the lists so far, and of the current one it is what
\* has been listed; of groups that are still to be walked it is nothing.
InOrder ==
  \A e \in examined :
    /\ e[1] \in Lists /\ e[3] \in Object
    /\ e[1] # "members" => e[2] = NoGroup
    /\ e[1] = "users" => stage # "tenant"
    /\ e[1] = "servicePrincipals" => stage \notin {"tenant", "users"}
    /\ e[1] = "groups" => stage \notin {"tenant", "users", "servicePrincipals"}
    /\ e[1] = "members" => stage \notin Early /\ e[2] \in groups \ todo

Current ==
  /\ listed \in Seq(Object)
  /\ stage \in Lists => Objects = {e[3] : e \in {x \in examined : x[1] = stage /\ x[2] = group}}

Start ==
  /\ stage = "tenant" => ~read /\ listed = <<>>
  /\ stage \in {"tenant", "users"} => DOMAIN accounts = {}
  /\ stage \in Early => group = NoGroup /\ groups = {} /\ todo = {} /\ members = {}

\* Groups are walked once each, and members are listed of one.
OfGroup ==
  /\ groups \subseteq Ids /\ todo \subseteq groups
  /\ group \in (groups \ todo) \cup {NoGroup}
  /\ stage = "members" /\ group = NoGroup => ~read
  /\ stage = "done" => group = NoGroup

AccountsTyped == accounts \in [DOMAIN accounts -> BOOLEAN] /\ DOMAIN accounts \subseteq Ids

MembersSoFar ==
  Walking =>
    members = {<<e[3].type, e[3].id, e[2]>> :
                 e \in {x \in examined : x[1] = "members" /\ x[2] # group /\ Resolved(x[3])}}

IInv ==
  /\ InOrder /\ Current /\ Start /\ OfGroup /\ AccountsTyped /\ OneKind /\ MembersSoFar

LEMMA InitInv == Init => IInv
BY DEF Init, IInv, InOrder, Current, Start, OfGroup, AccountsTyped, OneKind, MembersSoFar,
       Walking, Lists

\* A page adds to the list, and to what has been examined, the rows that are taken.
LEMMA PageAdds ==
  ASSUME Current, ReadingList, NEW objects \in Seq(Object), NEW link, Page(objects, link)
  PROVE  \E new \in SUBSET Object :
           /\ listed' \in Seq(Object) /\ Objects' = Objects \cup new
           /\ examined' = examined \cup {<<stage, group, o>> : o \in new}
<1> DEFINE n == Taken(objects)
           new == {objects[i] : i \in 1 .. n}
<1>1. n \in 0 .. Len(objects)
  BY TakenPrefix
<1> HIDE DEF n
<1>2. SubSeq(objects, 1, n) \in Seq(Object)
  BY <1>1
<1>3. /\ Len(SubSeq(objects, 1, n)) = n
      /\ \A i \in 1 .. n : SubSeq(objects, 1, n)[i] = objects[i]
  BY <1>1
<1>4. listed' = listed \o SubSeq(objects, 1, n)
  BY DEF Page, n
<1>5. listed' \in Seq(Object)
  BY <1>2, <1>4 DEF Current
<1>6. Objects' = Objects \cup new
  <2> DEFINE m == Len(listed)
  <2>1. /\ m \in Nat /\ DOMAIN listed = 1 .. m /\ DOMAIN listed' = 1 .. m + n
        /\ \A i \in 1 .. m : listed'[i] = listed[i]
        /\ \A i \in m + 1 .. m + n : listed'[i] = objects[i - m]
    BY <1>1, <1>2, <1>3, <1>4 DEF Current
  <2> HIDE DEF m
  <2>2. ASSUME NEW i \in 1 .. n PROVE objects[i] \in Objects'
    <3>1. i + m \in m + 1 .. m + n /\ i + m \in 1 .. m + n /\ (i + m) - m = i
      BY <1>1, <2>1
    <3> QED
      BY <2>1, <3>1 DEF Objects
  <2>3. ASSUME NEW i \in 1 .. m + n PROVE listed'[i] \in Objects \cup new
    <3>1. i \in 1 .. m \/ (i \in m + 1 .. m + n /\ i - m \in 1 .. n)
      BY <1>1, <2>1
    <3> QED
      BY <2>1, <3>1 DEF Objects
  <2>4. \A i \in 1 .. m : i \in 1 .. m + n
    BY <1>1, <2>1
  <2> QED
    BY <2>1, <2>2, <2>3, <2>4 DEF Objects
<1>7. new \subseteq Object
  BY <1>1
<1>8. examined' = examined \cup {<<stage, group, o>> : o \in new}
  <2>1. examined' = examined \cup {<<stage, group, objects[i]>> : i \in 1 .. n}
    BY DEF Page, n
  <2>2. {<<stage, group, objects[i]>> : i \in 1 .. n} = {<<stage, group, o>> : o \in new}
    OBVIOUS
  <2> QED
    BY <2>1, <2>2
<1> QED
  BY <1>5, <1>6, <1>7, <1>8

\* The steps within a list.
LEMMA NothingTaken ==
  ASSUME IInv, UNCHANGED <<stage, todo, group, found, examined, listed>>,
         read' => read \/ group # NoGroup \/ stage \in Early \ {"tenant"}
  PROVE  IInv'
<1> USE DEF found, IInv
<1>1. InOrder'
  BY DEF InOrder
<1>a. Current'
  BY DEF Current, Objects
<1>b. AccountsTyped'
  BY DEF AccountsTyped
<1>2. Start' /\ OfGroup'
  BY DEF Start, OfGroup, Early
<1>3. OneKind' /\ MembersSoFar'
  BY DEF OneKind, MembersSoFar, Walking, Resolved
<1> QED
  BY <1>1, <1>a, <1>b, <1>2, <1>3

LEMMA StepPage ==
  ASSUME IInv, NEW objects \in Seq(Object), NEW link, Page(objects, link)
  PROVE  IInv'
<1> USE DEF IInv
<1>1. ReadingList /\ UNCHANGED <<stage, todo, group, found>>
  BY DEF Page
<1>2. PICK new \in SUBSET Object :
        /\ listed' \in Seq(Object) /\ Objects' = Objects \cup new
        /\ examined' = examined \cup {<<stage, group, o>> : o \in new}
  BY <1>1, PageAdds
<1>3. stage = "members" => group \in groups \ todo
  BY <1>1 DEF ReadingList, OfGroup
<1>4. stage # "members" => stage \in Early \ {"tenant"} /\ group = NoGroup
  BY <1>1 DEF ReadingList, Lists, Early, Start
<1>5. InOrder'
  BY <1>1, <1>2, <1>3, <1>4 DEF InOrder, ReadingList, Lists, Early, found
<1>6. Current'
  <2>1. ASSUME NEW e \in examined', e[1] = stage, e[2] = group
        PROVE  e[3] \in Objects'
    BY <1>1, <1>2, <2>1 DEF Current, ReadingList
  <2>2. ASSUME NEW o \in Objects'
        PROVE  \E e \in examined' : e[1] = stage /\ e[2] = group /\ e[3] = o
    <3>1. CASE o \in Objects
      BY <1>1, <1>2, <3>1 DEF Current, ReadingList
    <3>2. CASE o \in new
      <4>1. <<stage, group, o>> \in examined'
        BY <1>2, <3>2
      <4> QED
        BY <4>1
    <3> QED
      BY <1>2, <3>1, <3>2
  <2>3. Objects' = {e[3] : e \in {x \in examined' : x[1] = stage /\ x[2] = group}}
    BY <2>1, <2>2
  <2> QED
    BY <1>1, <1>2, <2>3 DEF Current
<1>7. Start' /\ OfGroup' /\ AccountsTyped'
  BY <1>1, <1>3, <1>4 DEF ReadingList, Start, OfGroup, AccountsTyped, Lists, Early, found
<1>8. OneKind'
  BY <1>1, <1>2 DEF OneKind, found
<1>9. MembersSoFar'
  <2>1. {x \in examined' : x[1] = "members" /\ x[2] # group /\ Resolved(x[3])}
          = {x \in examined : x[1] = "members" /\ x[2] # group /\ Resolved(x[3])}
    BY <1>2
  <2>2. \A o : Resolved(o)' = Resolved(o)
    BY <1>1 DEF Resolved, found
  <2> QED
    BY <1>1, <2>1, <2>2 DEF MembersSoFar, Walking, found
<1> QED
  BY <1>5, <1>6, <1>7, <1>8, <1>9

LEMMA StepTenant == IInv /\ (TenantProved \/ TenantFails) => IInv'
<1> SUFFICES ASSUME IInv, TenantProved \/ TenantFails PROVE IInv'
  OBVIOUS
<1> USE DEF IInv
<1>1. /\ stage = "tenant" /\ stage' \in {"users", "failed"}
      /\ UNCHANGED <<list, todo, group, found, examined>>
  BY DEF TenantProved, TenantFails
<1>2. examined = {} /\ listed = <<>> /\ ~read
  BY <1>1 DEF InOrder, Start, Lists, Early
<1>3. InOrder' /\ Current' /\ Start' /\ OfGroup' /\ AccountsTyped'
  BY <1>1, <1>2 DEF InOrder, Current, Objects, Start, OfGroup, AccountsTyped, Early, list, found
<1>4. OneKind' /\ MembersSoFar'
  BY <1>1 DEF OneKind, MembersSoFar, Walking, Start, Early, found
<1> QED
  BY <1>3, <1>4

LEMMA StepTakeAccounts == IInv /\ TakeAccounts => IInv'
<1> SUFFICES ASSUME IInv, TakeAccounts PROVE IInv'
  OBVIOUS
<1> USE DEF IInv, TakeAccounts
<1> DEFINE service == stage = "servicePrincipals"
           fresh == {o.id : o \in Accounts(service)}
<1>1. stage \in {"users", "servicePrincipals"} /\ stage' \in {"servicePrincipals", "groups"} \ {stage}
  OBVIOUS
<1>2. InOrder'
  BY <1>1 DEF InOrder, Early
<1>3. Current' /\ Start' /\ OfGroup'
  BY <1>1 DEF Current, Objects, NewList, InOrder, Start, OfGroup, Early
<1>4. \A o \in Objects : o \in Object /\ \E e \in examined : e[1] = stage /\ e[3] = o
  BY <1>1 DEF Current, Lists, InOrder
<1>5. /\ DOMAIN accounts' = DOMAIN accounts \cup fresh
      /\ \A id \in fresh : accounts'[id] = service
      /\ \A id \in DOMAIN accounts : id \notin fresh /\ accounts'[id] = accounts[id]
  BY DEF Accounts
<1>6. AccountsTyped'
  <2>1. accounts' = [id \in DOMAIN accounts' |-> accounts'[id]]
    OBVIOUS
  <2>2. \A id \in DOMAIN accounts' : accounts'[id] \in BOOLEAN
    BY <1>5 DEF AccountsTyped
  <2>3. fresh \subseteq Ids
    BY <1>4 DEF Accounts, Object
  <2> QED
    BY <1>5, <2>1, <2>2, <2>3 DEF AccountsTyped
<1>7. OneKind'
  <2>1. ASSUME NEW id \in fresh
        PROVE  \E e \in examined :
                 /\ e[3].id = id
                 /\ IF accounts'[id]
                    THEN e[1] = "servicePrincipals" /\ e[3].type \in {"absent", "servicePrincipal"}
                    ELSE e[1] = "users" /\ e[3].type \in {"absent", "user"}
    <3>1. PICK o \in Objects :
            o.id = id /\ o.type \in {"absent", IF service THEN "servicePrincipal" ELSE "user"}
      BY <2>1 DEF Accounts
    <3>2. PICK e \in examined : e[1] = stage /\ e[3] = o
      BY <1>4
    <3>3. accounts'[id] = (stage = "servicePrincipals")
      BY <1>5, <2>1
    <3> QED
      BY <1>1, <3>1, <3>2, <3>3
  <2>2. ASSUME NEW id \in DOMAIN accounts'
        PROVE  id \in fresh \/ (id \in DOMAIN accounts /\ accounts'[id] = accounts[id])
    BY <1>5
  <2>3. stage' \notin {"members", "done", "malformed"} /\ examined' = examined
    BY <1>1
  <2> HIDE DEF fresh, TakeAccounts
  <2> QED
    BY <1>5, <2>1, <2>2, <2>3 DEF OneKind
<1>8. MembersSoFar'
  BY <1>1 DEF MembersSoFar, Walking
<1> QED
  BY <1>2, <1>3, <1>6, <1>7, <1>8

LEMMA StepTakeGroups == IInv /\ TakeGroups => IInv'
<1> SUFFICES ASSUME IInv, TakeGroups PROVE IInv'
  OBVIOUS
<1> USE DEF IInv, TakeGroups
<1>1. \A o \in Objects : o \in Object
  BY DEF Current, Lists, InOrder
<1>2. groups' \subseteq Ids /\ DOMAIN accounts \cap groups' = {}
  BY <1>1 DEF Groups, Object
<1>3. group = NoGroup /\ \A e \in examined : e[1] # "members"
  BY DEF Start, InOrder, Early
<1>4. InOrder' /\ Current' /\ Start'
  BY <1>3 DEF InOrder, Current, Objects, NewList, Start, Early
<1>5. OfGroup' /\ AccountsTyped'
  BY <1>2, <1>3 DEF OfGroup, AccountsTyped, NewList
<1>6. OneKind'
  BY <1>2 DEF OneKind
<1>7. MembersSoFar'
  BY <1>3 DEF MembersSoFar, Start, Early
<1> QED
  BY <1>4, <1>5, <1>6, <1>7

LEMMA StepNextGroup ==
  ASSUME IInv, NEW g \in todo, NextGroup(g) PROVE IInv'
<1> USE DEF IInv, NextGroup, found
<1>1. g \in groups /\ g # NoGroup
  BY EntraAssumption DEF OfGroup
<1>2. \A e \in examined : e[1] = "members" => e[2] # g /\ e[2] # NoGroup
  BY EntraAssumption DEF InOrder, OfGroup
<1>3. Objects = {} /\ Objects' = {}
  BY <1>2 DEF Current, Objects, Lists, list
<1>4. Current'
  BY <1>2, <1>3 DEF Current, list
<1>5. InOrder' /\ Start' /\ OfGroup' /\ AccountsTyped' /\ OneKind'
  BY <1>1, <1>2 DEF InOrder, Start, OfGroup, AccountsTyped, OneKind, Early, list
<1>6. \A o : Resolved(o)' = Resolved(o)
  BY DEF Resolved
<1>7. MembersSoFar'
  BY <1>2, <1>6 DEF MembersSoFar, Walking
<1> QED
  BY <1>4, <1>5, <1>7

\* With the members of the group all that has been examined is resolved.
LEMMA StepTakeMembers == IInv /\ TakeMembers => IInv'
<1> SUFFICES ASSUME IInv, TakeMembers PROVE IInv'
  OBVIOUS
<1> USE DEF IInv, TakeMembers
<1>1. group \in groups \ todo /\ group # NoGroup /\ NoGroup \notin groups
  BY EntraAssumption DEF OfGroup
<1>2. \A e \in examined : e[1] = "members" => e[2] # NoGroup
  BY <1>1 DEF InOrder
<1>3. InOrder' /\ Current' /\ Start' /\ OfGroup' /\ AccountsTyped' /\ OneKind'
  BY <1>2 DEF InOrder, Current, Objects, NewList, Start, OfGroup, AccountsTyped, OneKind, Early
<1>4. \A o : Resolved(o)' = Resolved(o)
  BY DEF Resolved
<1>5. {<<o.type, o.id, group>> : o \in {x \in Objects : Resolved(x)}}
        = {<<e[3].type, e[3].id, e[2]>> :
             e \in {x \in examined : x[1] = "members" /\ x[2] = group /\ Resolved(x[3])}}
  BY DEF Current, Lists
<1>6. members' = {<<e[3].type, e[3].id, e[2]>> :
                    e \in {x \in examined : x[1] = "members" /\ Resolved(x[3])}}
  BY <1>5 DEF MembersSoFar, Walking
<1>7. MembersSoFar'
  BY <1>2, <1>4, <1>6 DEF MembersSoFar
<1> QED
  BY <1>3, <1>7

LEMMA StepFinish == IInv /\ Finish => IInv'
<1> SUFFICES ASSUME IInv, Finish PROVE IInv'
  OBVIOUS
<1> USE DEF IInv, Finish, list, found
<1>1. InOrder' /\ Current' /\ Start' /\ OfGroup' /\ AccountsTyped' /\ OneKind'
  BY DEF InOrder, Current, Objects, Start, OfGroup, AccountsTyped, OneKind, Early, Lists
<1>2. MembersSoFar'
  BY DEF MembersSoFar, Walking, Resolved
<1> QED
  BY <1>1, <1>2

LEMMA NextInv == IInv /\ [Next]_vars => IInv'
<1> SUFFICES ASSUME IInv, [Next]_vars PROVE IInv'
  OBVIOUS
<1>1. CASE Retry \/ ListFails \/ UNCHANGED vars
  <2>1. UNCHANGED <<stage, todo, group, found, examined, listed>>
    BY <1>1 DEF Retry, ListFails, vars, list
  <2>2. read' => read \/ group # NoGroup \/ stage \in Early \ {"tenant"}
    BY <1>1 DEF Retry, ListFails, ReadingList, vars, list, Lists, Early
  <2> QED
    BY <2>1, <2>2, NothingTaken
<1>2. CASE TenantProved \/ TenantFails
  BY <1>2, StepTenant
<1>3. ASSUME NEW objects \in Pages, NEW link, Page(objects, link) PROVE IInv'
  BY <1>3, StepPage, EntraAssumption
<1>4. CASE TakeAccounts \/ TakeGroups \/ TakeMembers \/ Finish
  BY <1>4, StepTakeAccounts, StepTakeGroups, StepTakeMembers, StepFinish
<1>5. ASSUME NEW g \in todo, NextGroup(g) PROVE IInv'
  BY <1>5, StepNextGroup
<1> QED
  BY <1>1, <1>2, <1>3, <1>4, <1>5 DEF Next

\* What one collection has claimed another does not (collect, discovery.rs 57-105).
THEOREM KindsAreDisjoint == Spec => []OneKind
<1>1. IInv => OneKind
  BY DEF IInv
<1> QED
  BY InitInv, NextInv, <1>1, PTL DEF Spec

\* The snapshot has a membership exactly for the members it was shown that are users
\* or groups of it (collect, discovery.rs 106-160).
THEOREM MembershipsExact == Spec => []MembershipsAreExact
<1>1. IInv => MembershipsAreExact
  <2> SUFFICES ASSUME IInv, stage = "done" PROVE MembershipsAreExact
    BY DEF MembershipsAreExact
  <2>1. \A x \in examined : x[1] = "members" => x[2] # group
    BY EntraAssumption DEF IInv, InOrder, OfGroup
  <2>2. members = {<<e[3].type, e[3].id, e[2]>> :
                     e \in {x \in examined : x[1] = "members" /\ Resolved(x[3])}}
    BY <2>1 DEF IInv, MembersSoFar, Walking
  <2> QED
    BY <2>2 DEF MembershipsAreExact, Resolved
<1> QED
  BY InitInv, NextInv, <1>1, PTL DEF Spec

-----------------------------------------------------------------------------
(***************************************************************************)
(* A snapshot that claims to be complete.                                  *)
(***************************************************************************)
\* What became of an object, or may still become of one of the current list.
Placed(e) ==
  CASE e[1] = "users" ->
         stage = "users" \/ (e[3].id \in DOMAIN accounts /\ ~accounts[e[3].id])
    [] e[1] = "servicePrincipals" ->
         stage = "servicePrincipals" \/ (e[3].id \in DOMAIN accounts /\ accounts[e[3].id])
    [] e[1] = "groups" -> stage = "groups" \/ e[3].id \in groups
    [] e[1] = "members" -> \/ e[2] = group
                           \/ <<e[3].type, e[3].id, e[2]>> \in members
                           \/ e[3].type = "servicePrincipal"

AllPlaced == complete => \A e \in examined : Placed(e)

LEMMA InitPlaced == Init => AllPlaced
BY DEF Init, AllPlaced

LEMMA NextPlaced == IInv /\ AllPlaced /\ [Next]_vars => AllPlaced'
<1> SUFFICES ASSUME IInv, AllPlaced, [Next]_vars, complete' PROVE \A e \in examined' : Placed(e)'
  BY DEF AllPlaced
<1>0. \A e \in examined : e[1] \in Lists /\ (complete => Placed(e))
  BY DEF IInv, InOrder, AllPlaced
<1>1. CASE Retry \/ ListFails \/ UNCHANGED vars
  <2>1. UNCHANGED <<stage, group, found, examined, complete>>
    BY <1>1 DEF Retry, ListFails, vars
  <2> QED
    BY <1>0, <2>1 DEF Placed, found, Lists
<1>2. CASE TenantProved \/ TenantFails
  <2>1. examined' = examined /\ stage = "tenant"
    BY <1>2 DEF TenantProved, TenantFails
  <2>2. examined = {}
    BY <2>1 DEF IInv, InOrder, Lists, Early
  <2> QED
    BY <2>1, <2>2
<1>3. ASSUME NEW objects \in Pages, NEW link, Page(objects, link)
      PROVE  \A e \in examined' : Placed(e)'
  <2>1. UNCHANGED <<stage, group, found>> /\ complete
    BY <1>3 DEF Page
  <2>2. \A e \in examined' : e \in examined \/ (e[1] = stage /\ e[2] = group)
    BY <1>3 DEF Page
  <2>3. stage \in Lists
    BY <1>3 DEF Page, ReadingList
  <2> QED
    BY <1>0, <2>1, <2>2, <2>3 DEF Placed, found, Lists
<1>4. CASE TakeAccounts
  <2> DEFINE service == stage = "servicePrincipals"
  <2>1. /\ complete /\ UNCHANGED <<group, groups, members, examined>>
        /\ stage \in {"users", "servicePrincipals"}
        /\ stage' \in {"servicePrincipals", "groups"} \ {stage}
        /\ \A o \in Objects : o \in Accounts(service)
    BY <1>4 DEF TakeAccounts
  <2>2. \A id \in DOMAIN accounts : id \in DOMAIN accounts' /\ accounts'[id] = accounts[id]
    BY <1>4 DEF TakeAccounts, Accounts
  <2>3. \A o \in Objects : o.id \in DOMAIN accounts' /\ accounts'[o.id] = service
    BY <1>4, <2>1 DEF TakeAccounts
  <2>4. \A e \in examined : e[1] = stage => e[3] \in Objects
    BY <2>1 DEF IInv, Current, InOrder, Start, Lists, Early
  <2>5. ASSUME NEW e \in examined PROVE Placed(e)'
    <3>1. CASE e[1] = stage
      BY <2>1, <2>3, <2>4, <3>1 DEF Placed
    <3>2. CASE e[1] # stage
      BY <1>0, <2>1, <2>2, <3>2 DEF Placed, Lists, IInv, InOrder, Early
    <3> QED
      BY <3>1, <3>2
  <2> QED
    BY <2>1, <2>5
<1>5. CASE TakeGroups
  <2>1. /\ complete /\ UNCHANGED <<group, accounts, members, examined>>
        /\ stage = "groups" /\ stage' = "members"
        /\ \A o \in Objects : o.id \in groups'
    BY <1>5 DEF TakeGroups
  <2>2. \A e \in examined : e[1] = "groups" => e[3] \in Objects
    BY <2>1 DEF IInv, Current, InOrder, Start, Lists, Early
  <2> QED
    BY <1>0, <2>1, <2>2 DEF Placed, Lists, IInv, InOrder, Early
<1>6. ASSUME NEW g \in todo, NextGroup(g) PROVE \A e \in examined' : Placed(e)'
  <2>1. complete /\ UNCHANGED <<stage, found, examined>> /\ group = NoGroup /\ stage = "members"
    BY <1>6 DEF NextGroup
  <2>2. \A e \in examined : e[1] = "members" => e[2] # NoGroup
    BY EntraAssumption DEF IInv, InOrder, OfGroup
  <2> QED
    BY <1>0, <2>1, <2>2 DEF Placed, Lists, found
<1>7. CASE TakeMembers
  <2>1. /\ complete /\ UNCHANGED <<stage, accounts, groups, examined>> /\ stage = "members"
        /\ \A o \in Objects : Resolved(o) \/ o.type = "servicePrincipal"
        /\ members' = members \cup {<<o.type, o.id, group>> : o \in {x \in Objects : Resolved(x)}}
    BY <1>7 DEF TakeMembers, Skipped
  <2>2. \A e \in examined : e[1] = "members" /\ e[2] = group => e[3] \in Objects
    BY <2>1 DEF IInv, Current, Lists
  <2> QED
    BY <1>0, <2>1, <2>2 DEF Placed, Lists
<1>8. CASE Finish
  <2>1. complete /\ UNCHANGED <<group, found, examined>> /\ stage = "members"
    BY <1>8 DEF Finish
  <2> QED
    BY <1>0, <2>1 DEF Placed, Lists, found
<1> QED
  BY <1>1, <1>2, <1>3, <1>4, <1>5, <1>6, <1>7, <1>8 DEF Next

\* Every object of every list is a record or a membership of a snapshot that claims
\* to be complete, but for service principals in groups (collect, discovery.rs
\* 57-160).
THEOREM CompleteLosesNothing == Spec => []NothingLost
<1>1. IInv /\ AllPlaced => NothingLost
  <2> SUFFICES ASSUME IInv, AllPlaced, stage = "done", complete PROVE NothingLost
    BY DEF NothingLost
  <2>1. \A e \in examined : e[1] \in Lists /\ Placed(e) /\ (e[1] = "members" => e[2] # group)
    BY EntraAssumption DEF IInv, InOrder, OfGroup, AllPlaced
  <2> QED
    BY <2>1 DEF Placed, NothingLost, Lists
<1> QED
  BY InitInv, NextInv, InitPlaced, NextPlaced, <1>1, PTL DEF Spec

-----------------------------------------------------------------------------
(***************************************************************************)
(* A list.                                                                 *)
(***************************************************************************)
PageShown ==
  [url : Urls \cup {"first", "none", "bad"}, objects : Pages, next : Urls \cup {"none", "bad"}]

\* The pages so far were asked for by the links they handed out, none of them twice.
Chained ==
  /\ shown \in Seq(PageShown)
  /\ next \in Urls \cup {"first", "none", "bad"}
  /\ \A p, q \in DOMAIN shown :
       /\ p > 1 => shown[p].url = shown[p - 1].next
       /\ shown[p].url = shown[q].url => p = q

\* The link that is followed next is the latest one, and a new one.
Asking ==
  ~read =>
    /\ \A p \in DOMAIN shown : shown[p].url \in urls
    /\ next \notin urls
    /\ shown # <<>> => shown[Len(shown)].next = next

\* Until the claim to be complete is given up, every object that was shown is listed,
\* and none of them was shown twice.
Once ==
  complete =>
    \A p, q \in DOMAIN shown :
      \A i \in DOMAIN shown[p].objects, k \in DOMAIN shown[q].objects :
        /\ shown[p].objects[i].id \in {listed[m].id : m \in DOMAIN listed}
        /\ shown[p].objects[i].id = shown[q].objects[k].id => <<p, i>> = <<q, k>>

Ended == read /\ complete => shown # <<>> /\ shown[Len(shown)].next = "none"

WInv == Chained /\ Asking /\ Once /\ Ended

LEMMA InitW == Init => WInv
BY DEF Init, WInv, Chained, Asking, Once, Ended

LEMMA WStart ==
  ASSUME NewList PROVE WInv'
BY DEF NewList, WInv, Chained, Asking, Once, Ended

LEMMA WPage ==
  ASSUME IInv, WInv, NEW objects \in Pages, NEW link \in Urls \cup {"none", "bad"},
         Page(objects, link)
  PROVE  WInv'
<1> DEFINE latest == [url |-> next, objects |-> objects, next |-> link]
           n == Taken(objects)
           end == PageEnds(objects, link)
<1>1. objects \in Seq(Object) /\ listed \in Seq(Object) /\ shown \in Seq(PageShown)
  BY EntraAssumption DEF IInv, Current, WInv, Chained
<1>2. n \in 0 .. Len(objects) /\ \A i \in 1 .. n : ~Stops(objects, i)
  BY <1>1, TakenPrefix
<1>3. /\ ~read /\ urls' = urls \cup {next} /\ shown' = Append(shown, latest)
      /\ next' = (IF end = "more" THEN link ELSE next)
      /\ read' = (end # "more") /\ complete' = (complete /\ end # "cut")
      /\ listed' = listed \o SubSeq(objects, 1, n)
  BY DEF Page, ReadingList
<1>4. /\ end = "more" => n = Len(objects) /\ link # "none" /\ Follows(link)
      /\ end # "cut" /\ end # "more" => n = Len(objects) /\ link = "none"
  <2>1. n < Len(objects) => end = "cut"
    BY DEF PageEnds
  <2>2. n < Len(objects) \/ n = Len(objects)
    BY <1>1, <1>2
  <2>3. end # "cut" => end = IF link = "none" THEN "whole" ELSE "more"
    BY DEF PageEnds
  <2>4. end = "more" => Follows(link)
    BY DEF PageEnds
  <2> HIDE DEF n, end
  <2> QED
    BY <2>1, <2>2, <2>3, <2>4
<1> HIDE DEF n, end
<1>5. latest \in PageShown
  BY DEF PageShown, WInv, Chained
<1>6. /\ DOMAIN shown' = 1 .. Len(shown) + 1 /\ Len(shown) \in Nat /\ DOMAIN shown = 1 .. Len(shown)
      /\ Len(shown') = Len(shown) + 1 /\ shown' # <<>> /\ (Len(shown) > 0 => shown # <<>>)
      /\ shown' \in Seq(PageShown)
      /\ shown'[Len(shown) + 1] = latest
      /\ \A p \in 1 .. Len(shown) : shown'[p] = shown[p]
  BY <1>1, <1>3, <1>5
<1>7. Chained'
  <2>1. ASSUME NEW p \in DOMAIN shown', p > 1
        PROVE  shown'[p].url = shown'[p - 1].next
    <3>1. CASE p = Len(shown) + 1
      <4>1. p - 1 = Len(shown) /\ Len(shown) > 0 /\ p - 1 \in 1 .. Len(shown)
        BY <1>6, <2>1, <3>1
      <4>2. shown'[p - 1] = shown[Len(shown)] /\ shown'[p] = latest
        BY <1>6, <3>1, <4>1
      <4>3. shown[Len(shown)].next = next
        BY <1>3, <1>6, <4>1 DEF WInv, Asking
      <4> QED
        BY <4>2, <4>3
    <3>2. CASE p \in DOMAIN shown
      BY <1>6, <2>1, <3>2 DEF WInv, Chained
    <3> QED
      BY <1>6, <3>1, <3>2
  <2>2. ASSUME NEW p \in DOMAIN shown', NEW q \in DOMAIN shown',
               shown'[p].url = shown'[q].url
        PROVE  p = q
    BY <1>3, <1>6, <2>2 DEF WInv, Chained, Asking
  <2>3. next' \in Urls \cup {"first", "none", "bad"}
    BY <1>3 DEF WInv, Chained
  <2> QED
    BY <1>6, <2>1, <2>2, <2>3 DEF Chained
<1>8. Asking'
  <2> SUFFICES ASSUME end = "more" PROVE Asking'
    BY <1>3 DEF Asking
  <2>1. next' = link /\ link \notin urls' /\ shown'[Len(shown')].next = link
    BY <1>3, <1>4, <1>6 DEF Follows
  <2>2. \A p \in DOMAIN shown' : shown'[p].url \in urls'
    BY <1>3, <1>6 DEF WInv, Asking
  <2> QED
    BY <2>1, <2>2 DEF Asking
<1>9. Ended'
  <2> SUFFICES ASSUME end # "more", end # "cut" PROVE Ended'
    BY <1>3 DEF Ended
  <2>1. shown' # <<>> /\ shown'[Len(shown')].next = "none"
    BY <1>4, <1>6
  <2> QED
    BY <2>1 DEF Ended
<1>10. ASSUME complete' PROVE Once'
  <2>1. complete /\ n = Len(objects) /\ DOMAIN objects = 1 .. n /\ SubSeq(objects, 1, n) = objects
    <3>1. complete /\ end # "cut"
      BY <1>3, <1>10
    <3>2. n = Len(objects)
      BY <1>4, <3>1
    <3> QED
      BY <1>1, <3>1, <3>2
  <2>2. /\ \A m \in DOMAIN listed : m \in DOMAIN listed' /\ listed'[m] = listed[m]
        /\ \A i \in DOMAIN objects :
             Len(listed) + i \in DOMAIN listed' /\ listed'[Len(listed) + i] = objects[i]
    <3>1. listed' = listed \o objects /\ listed \in Seq(Object) /\ objects \in Seq(Object)
      BY <1>1, <1>3, <2>1
    <3>2. ASSUME NEW m \in DOMAIN listed PROVE m \in DOMAIN listed' /\ listed'[m] = listed[m]
      BY <3>1
    <3>3. ASSUME NEW i \in DOMAIN objects
          PROVE  Len(listed) + i \in DOMAIN listed' /\ listed'[Len(listed) + i] = objects[i]
      BY <3>1
    <3> QED
      BY <3>2, <3>3
  <2>3. \A i \in DOMAIN objects :
          /\ \A m \in DOMAIN listed : objects[i].id # listed[m].id
          /\ \A k \in 1 .. i - 1 : objects[i].id # objects[k].id
    BY <1>2, <2>1 DEF Stops, Repeats
  <2>4. \A i, k \in DOMAIN objects : objects[i].id = objects[k].id => i = k
    BY <2>1, <2>3
  <2>5. ASSUME NEW p \in DOMAIN shown', NEW i \in DOMAIN shown'[p].objects
        PROVE  shown'[p].objects[i].id \in {listed'[m].id : m \in DOMAIN listed'}
    <3>1. CASE p \in DOMAIN shown
      <4>1. shown'[p] = shown[p]
        BY <1>6, <3>1
      <4>2. PICK m \in DOMAIN listed : shown[p].objects[i].id = listed[m].id
        BY <2>1, <3>1, <4>1 DEF WInv, Once
      <4>3. m \in DOMAIN listed' /\ listed'[m] = listed[m]
        BY <2>2
      <4> QED
        BY <4>1, <4>2, <4>3
    <3>2. CASE p = Len(shown) + 1
      <4>1. shown'[p].objects = objects /\ i \in DOMAIN objects
        BY <1>6, <3>2
      <4>2. Len(listed) + i \in DOMAIN listed' /\ listed'[Len(listed) + i] = objects[i]
        BY <2>2, <4>1
      <4> QED
        BY <4>1, <4>2
    <3> QED
      BY <1>6, <3>1, <3>2
  <2>6. ASSUME NEW p \in DOMAIN shown, NEW i \in DOMAIN shown[p].objects,
               NEW k \in DOMAIN objects
        PROVE  shown[p].objects[i].id # objects[k].id
    <3>1. PICK m \in DOMAIN listed : shown[p].objects[i].id = listed[m].id
      BY <2>1 DEF WInv, Once
    <3> QED
      BY <2>3, <3>1
  <2>7. ASSUME NEW p \in DOMAIN shown', NEW q \in DOMAIN shown',
               NEW i \in DOMAIN shown'[p].objects, NEW k \in DOMAIN shown'[q].objects,
               shown'[p].objects[i].id = shown'[q].objects[k].id
        PROVE  p = q /\ i = k
    <3>1. CASE p \in DOMAIN shown /\ q \in DOMAIN shown
      BY <1>6, <2>1, <2>7, <3>1 DEF WInv, Once
    <3>2. CASE p = Len(shown) + 1 /\ q = Len(shown) + 1
      BY <1>6, <2>4, <2>7, <3>2
    <3>3. ~(p \in DOMAIN shown /\ q = Len(shown) + 1)
      BY <1>6, <2>7, <2>6
    <3>4. ~(p = Len(shown) + 1 /\ q \in DOMAIN shown)
      BY <1>6, <2>7, <2>6
    <3> QED
      BY <1>6, <3>1, <3>2, <3>3, <3>4
  <2> QED
    BY <2>5, <2>7 DEF Once
<1> QED
  BY <1>7, <1>8, <1>9, <1>10 DEF WInv, Once

LEMMA NextW == IInv /\ WInv /\ [Next]_vars => WInv'
<1> SUFFICES ASSUME IInv, WInv, [Next]_vars PROVE WInv'
  OBVIOUS
<1>1. CASE \/ Retry \/ TenantProved \/ TenantFails \/ Finish \/ UNCHANGED vars
           \/ \E g \in todo : NextGroup(g)
  <2>1. UNCHANGED <<list, complete>>
    BY <1>1 DEF Retry, TenantProved, TenantFails, Finish, NextGroup, vars
  <2> QED
    BY <2>1 DEF list, WInv, Chained, Asking, Once, Ended
<1>2. CASE ListFails
  BY <1>2 DEF ListFails, WInv, Chained, Asking, Once, Ended
<1>3. ASSUME NEW objects \in Pages, NEW link \in Urls \cup {"none", "bad"}, Page(objects, link)
      PROVE  WInv'
  BY <1>3, WPage
<1>4. CASE TakeAccounts \/ TakeGroups \/ TakeMembers
  BY <1>4, WStart DEF TakeAccounts, TakeGroups, TakeMembers
<1> QED
  BY <1>1, <1>2, <1>3, <1>4 DEF Next

\* "repeated URLs/IDs" (docs/entra.md 125) end the claim to be complete (listing,
\* client.rs 90-170).
THEOREM ListsWhole == Spec => []ListsAreWhole
<1>1. WInv => ListsAreWhole
  BY DEF WInv, Chained, Once, Ended, ListsAreWhole
<1> QED
  BY InitInv, NextInv, InitW, NextW, <1>1, PTL DEF Spec

-----------------------------------------------------------------------------
(***************************************************************************)
(* Types and budgets.                                                      *)
(***************************************************************************)
\* No more objects are examined than rows were charged, and never more than allowed.
Charge ==
  /\ rows \in 0 .. MaxRows + 1 /\ IsFiniteSet(examined)
  /\ Cardinality(examined) <= rows /\ Cardinality(examined) <= MaxRows

Rest ==
  /\ stage \in Lists \cup {"tenant", "done", "failed", "malformed"}
  /\ requests \in 0 .. MaxRequests /\ attempt \in 0 .. 2
  /\ read \in BOOLEAN /\ next \in Urls \cup {"first"} /\ urls \subseteq Urls \cup {"first"}
  /\ members \subseteq {"user", "group"} \X Ids \X Ids
  /\ complete \in BOOLEAN

LEMMA InitTypes == Init => Charge /\ Rest
<1> SUFFICES ASSUME Init PROVE Charge /\ Rest
  OBVIOUS
<1>1. Charge
  BY EntraAssumption, FS_EmptySet DEF Init, Charge
<1>2. read \in BOOLEAN /\ complete \in BOOLEAN
  BY DEF Init
<1>3. /\ stage \in Lists \cup {"tenant", "done", "failed", "malformed"}
      /\ requests \in 0 .. MaxRequests /\ attempt \in 0 .. 2
  BY EntraAssumption DEF Init
<1>4. /\ next \in Urls \cup {"first"} /\ urls \subseteq Urls \cup {"first"}
      /\ members \subseteq {"user", "group"} \X Ids \X Ids
  BY DEF Init
<1> QED
  BY <1>1, <1>2, <1>3, <1>4 DEF Rest

LEMMA PageCharges ==
  ASSUME Charge, NEW objects \in Seq(Object), NEW link, Page(objects, link)
  PROVE  Charge'
<1> DEFINE n == Taken(objects)
           new == {<<stage, group, objects[i]>> : i \in 1 .. n}
<1>1. n \in 0 .. Len(objects) /\ \A i \in 1 .. n : ~Stops(objects, i)
  BY TakenPrefix
<1>2. rows' = Charged(IF n < Len(objects) THEN n + 1 ELSE n) /\ examined' = examined \cup new
  BY DEF Page
<1> HIDE DEF n
<1>3. n \in Nat /\ Len(objects) \in Nat /\ (n > 0 => rows + n <= MaxRows)
  <2>1. n \in Nat /\ Len(objects) \in Nat
    BY <1>1
  <2>2. ASSUME n > 0 PROVE rows + n <= MaxRows
    <3>1. ~Stops(objects, n)
      BY <1>1, <2>1, <2>2
    <3> QED
      BY <2>1, <3>1, EntraAssumption DEF Stops, Charge
  <2> QED
    BY <2>1, <2>2
<1>4. IsFiniteSet(new) /\ Cardinality(new) <= n
  <2>1. IsFiniteSet(1 .. n) /\ Cardinality(1 .. n) = n
    <3>1. 1 \in Int /\ n \in Int
      BY <1>3
    <3>2. IsFiniteSet(1 .. n) /\ Cardinality(1 .. n) = IF 1 > n THEN 0 ELSE n - 1 + 1
      BY <3>1, FS_Interval
    <3> QED
      BY <1>3, <3>2
  <2> DEFINE f == [i \in 1 .. n |-> <<stage, group, objects[i]>>]
  <2>2. f \in Surjection(1 .. n, new)
    BY DEF Surjection
  <2> HIDE DEF f, new
  <2> QED
    BY <2>1, <2>2, FS_Surjection
<1> HIDE DEF new
<1>5. /\ IsFiniteSet(examined') /\ Cardinality(examined') \in Nat
      /\ Cardinality(examined') <= Cardinality(examined) + n
  <2>1. IsFiniteSet(examined \cap new) /\ IsFiniteSet(examined \cup new)
    BY <1>4, FS_Intersection, FS_Union DEF Charge
  <2>2. Cardinality(examined \cup new)
          = Cardinality(examined) + Cardinality(new) - Cardinality(examined \cap new)
    BY <1>4, FS_Union DEF Charge
  <2>3. /\ Cardinality(examined \cap new) \in Nat /\ Cardinality(new) \in Nat
        /\ Cardinality(examined) \in Nat /\ Cardinality(examined \cup new) \in Nat
    BY <1>4, <2>1, FS_CardinalityType DEF Charge
  <2> QED
    BY <1>2, <1>3, <1>4, <2>1, <2>2, <2>3
<1>6. /\ rows' \in 0 .. MaxRows + 1
      /\ n > 0 => rows' >= rows + n
      /\ n = 0 => rows' >= rows
  BY <1>2, <1>3, EntraAssumption DEF Charge, Charged
<1>7. Cardinality(examined) \in Nat
  BY FS_CardinalityType DEF Charge
<1>8. Cardinality(examined') <= rows' /\ Cardinality(examined') <= MaxRows
  BY <1>3, <1>5, <1>6, <1>7, EntraAssumption DEF Charge
<1> QED
  BY <1>5, <1>6, <1>8 DEF Charge

LEMMA NextTypes == IInv /\ Charge /\ Rest /\ [Next]_vars => Charge' /\ Rest'
<1> SUFFICES ASSUME IInv, Charge, Rest, [Next]_vars PROVE Charge' /\ Rest'
  OBVIOUS
<1> USE EntraAssumption DEF Rest
<1>1. CASE Retry \/ TenantProved \/ TenantFails \/ ListFails \/ Finish \/ UNCHANGED vars
  <2>1. UNCHANGED <<rows, examined, next, urls, members>>
    BY <1>1 DEF Retry, TenantProved, TenantFails, ListFails, Finish, vars, budget, list, found
  <2>2. requests' \in 0 .. MaxRequests /\ attempt' \in 0 .. 2
    BY <1>1 DEF Retry, TenantProved, TenantFails, ListFails, Finish, vars, budget, Answered, Failed
  <2>3. /\ read' \in BOOLEAN /\ complete' \in BOOLEAN
        /\ stage' \in Lists \cup {"tenant", "done", "failed", "malformed"}
    BY <1>1 DEF Retry, TenantProved, TenantFails, ListFails, Finish, vars, list, Lists
  <2> QED
    BY <2>1, <2>2, <2>3 DEF Charge
<1>2. ASSUME NEW objects \in Pages, NEW link \in Urls \cup {"none", "bad"}, Page(objects, link)
      PROVE  Charge' /\ Rest'
  <2>1. Charge'
    BY <1>2, PageCharges
  <2>2. requests' \in 0 .. MaxRequests /\ attempt' \in 0 .. 2
    BY <1>2 DEF Page, Answered
  <2>3. UNCHANGED <<stage, members>> /\ read' \in BOOLEAN /\ urls' \subseteq Urls \cup {"first"}
    BY <1>2 DEF Page, found
  <2>4. complete' \in BOOLEAN
    BY <1>2 DEF Page
  <2>5. next' \in Urls \cup {"first"}
    <3>1. PageEnds(objects, link) = "more" => link \in Urls
      BY <1>2 DEF PageEnds, Follows
    <3> QED
      BY <1>2, <3>1 DEF Page
  <2> QED
    BY <2>1, <2>2, <2>3, <2>4, <2>5
<1>3. CASE TakeAccounts \/ TakeGroups \/ TakeMembers \/ \E g \in todo : NextGroup(g)
  <2>1. UNCHANGED <<rows, requests, attempt, examined>>
    BY <1>3 DEF TakeAccounts, TakeGroups, TakeMembers, NextGroup, budget
  <2>2. read' \in BOOLEAN /\ next' \in Urls \cup {"first"} /\ urls' \subseteq Urls \cup {"first"}
    BY <1>3 DEF TakeAccounts, TakeGroups, TakeMembers, NextGroup, NewList, list
  <2>3. complete' \in BOOLEAN /\ stage' \in Lists
    BY <1>3 DEF TakeAccounts, TakeGroups, TakeMembers, NextGroup, Lists
  <2>4. members' \subseteq {"user", "group"} \X Ids \X Ids
    <3>1. CASE TakeMembers
      <4>1. group \in Ids
        BY <3>1 DEF TakeMembers, IInv, OfGroup
      <4>2. \A o \in Objects : Resolved(o) => o.type \in {"user", "group"} /\ o.id \in Ids
        BY DEF Resolved, IInv, OfGroup, AccountsTyped
      <4> QED
        BY <3>1, <4>1, <4>2 DEF TakeMembers
    <3>2. CASE ~TakeMembers
      BY <1>3, <3>2 DEF TakeAccounts, TakeGroups, NextGroup, found
    <3> QED
      BY <3>1, <3>2
  <2> QED
    BY <2>1, <2>2, <2>3, <2>4 DEF Charge
<1> QED
  BY <1>1, <1>2, <1>3 DEF Next

\* The budgets hold for pages of any size and groups of any number: no more than
\* MAX_ROWS objects and MAX_REQUESTS requests (Budget, client.rs).
THEOREM TypeCorrect == Spec => []TypeOK
<1>1. IInv /\ Charge /\ Rest => TypeOK
  <2> SUFFICES ASSUME IInv, Charge, Rest PROVE TypeOK
    OBVIOUS
  <2>1. listed \in Seq(Object) /\ todo \subseteq groups /\ group \in groups \cup {NoGroup}
    BY DEF IInv, Current, OfGroup
  <2>2. DOMAIN accounts \subseteq Ids /\ groups \subseteq Ids
    BY DEF IInv, AccountsTyped, OfGroup
  <2> QED
    BY <2>1, <2>2 DEF TypeOK, Charge, Rest
<1> QED
  BY InitInv, NextInv, InitTypes, NextTypes, <1>1, PTL DEF Spec

=============================================================================
