--------------------------- MODULE CloudflareProofs ---------------------------
(***************************************************************************)
(* Theorems about Cloudflare: whatever lists the server hands out and in   *)
(* whichever order the groups are walked, the accounts that are left with  *)
(* memberships are those no policy speaks against that is not understood,  *)
(* every list is as long as its totals say, and a snapshot that claims to  *)
(* be complete has lost nothing.                                           *)
(***************************************************************************)
EXTENDS Cloudflare, FiniteSetTheorems, TLAPS

Walking == stage \in {"groupMembers", "done", "malformed"}

SaidMembers == Said("members", NoGroup)

SaidGroups == Said("groups", NoGroup)

PageShown == [rows : UNION {Seq(Row[l]) : l \in Lists}, info : Infos]

\* Rows are of the list that is read; no group has the name for none.
Typed ==
  /\ shown \in Seq(PageShown)
  /\ stage \in Lists => \A p \in DOMAIN shown : shown[p].rows \in Seq(Row[stage])
  /\ stage = "account" => shown = <<>>
  /\ \A g \in SaidGroups : g.id \in GroupIds

\* Members are listed of a group.
OfGroup == stage = "groupMembers" /\ read => group # NoGroup

\* A list has been examined only when it is behind, and that of a group when the
\* group is.
InOrder ==
  \A e \in examined :
    /\ e[1] = "members" => stage \notin {"account", "members"}
    /\ e[1] = "groups" => Walking \/ stage = "failed"
    /\ e[1] = "groupMembers" =>
         /\ stage \notin {"account", "members", "zones", "groups"}
         /\ e[2] \in groups \/ stage = "failed"
         /\ e[2] # group

\* Before the groups are walked nobody is in the snapshot.
Empty ==
  stage \in {"account", "members", "zones", "groups"} =>
    /\ group = NoGroup /\ denied = FALSE /\ groups = {} /\ memberships = {}

MembersKept == stage \in {"zones", "groups"} => members = SaidMembers

AccountsActive ==
  Walking => accounts = {m.id : m \in {x \in SaidMembers : x.status = "accepted"}}

\* Groups are walked once each.
GroupsWalked ==
  stage = "groupMembers" =>
    /\ todo \subseteq SaidGroups
    /\ \A g \in todo : g.id \notin groups
    /\ \A g \in SaidGroups : g.id \in groups => g.usable
    /\ groups \subseteq {g.id : g \in SaidGroups}
    /\ group \in groups \cup {NoGroup} /\ NoGroup \notin groups
    /\ denied \in BOOLEAN
    /\ group # NoGroup => denied = \E g \in SaidGroups : g.id = group /\ ~Understood(g.policies)

\* What is known of an account while the groups are walked: who is blocked already
\* and the memberships in groups that are understood.
AccessSoFar ==
  stage = "groupMembers" =>
    /\ blocked = {a \in accounts : Suspect(a)}
    /\ memberships = {m \in accounts \X groups :
                        /\ Holds(m[1], m[2])
                        /\ ~\E g \in SaidGroups : g.id = m[2] /\ ~Understood(g.policies)}

GrantsHeld ==
  stage = "groupMembers" =>
    \A g \in grants : g[1][2] \in IF g[1][1] = "account" THEN accounts ELSE groups

IInv ==
  /\ Typed /\ OfGroup /\ InOrder /\ Empty /\ MembersKept /\ AccountsActive /\ GroupsWalked
  /\ AccessSoFar /\ GrantsHeld /\ AccessIsExact

LEMMA InitInv == Init => IInv
BY DEF Init, IInv, Typed, OfGroup, SaidGroups, Said, InOrder, Empty, MembersKept, AccountsActive, GroupsWalked,
       AccessSoFar, GrantsHeld, AccessIsExact, Walking

\* What has been said changes only where rows are examined.
LEMMA SaidSame ==
  ASSUME examined' = examined, zones' = zones
  PROVE  /\ \A l, g : Said(l, g)' = Said(l, g)
         /\ \A p : Understood(p)' = Understood(p)
         /\ \A a, g : Holds(a, g)' = Holds(a, g)
         /\ \A a : Suspect(a)' = Suspect(a)
         /\ SaidMembers' = SaidMembers /\ SaidGroups' = SaidGroups
<1>1. \A l, g : Said(l, g)' = Said(l, g)
  BY DEF Said
<1>2. \A p : Understood(p)' = Understood(p)
  BY DEF Understood
<1>3. \A a, g : Holds(a, g)' = Holds(a, g)
  BY <1>1 DEF Holds
<1>4. \A a : Suspect(a)' = Suspect(a)
  BY <1>1, <1>2, <1>3 DEF Suspect
<1> QED
  BY <1>1, <1>2, <1>3, <1>4 DEF SaidMembers, SaidGroups

\* The steps within a list.
LEMMA NothingTaken ==
  ASSUME IInv, UNCHANGED <<stage, members, zones, walk, found, examined>>, Typed', OfGroup'
  PROVE  IInv'
<1> USE SaidSame DEF walk, found, IInv
<1>1. InOrder' /\ Empty' /\ MembersKept' /\ AccountsActive' /\ GrantsHeld'
  BY DEF InOrder, Empty, MembersKept, AccountsActive, GrantsHeld, Walking
<1>2. GroupsWalked'
  BY DEF GroupsWalked
<1>3. AccessSoFar'
  BY DEF AccessSoFar
<1>4. AccessIsExact'
  BY DEF AccessIsExact
<1> QED
  BY <1>1, <1>2, <1>3, <1>4

\* The rows of a list that is examined at last are said once, without what
\* contradicts itself; what other lists say stays.
LEMMA SaidNew ==
  ASSUME Examine, NEW l, l = stage, NEW g, g = group,
         \A e \in examined : ~(e[1] = l /\ e[2] = g)
  PROVE  Said(l, g)' = Unique
<1> DEFINE of == {e[3] : e \in {x \in examined' : x[1] = l /\ x[2] = g}}
<1>1. ASSUME NEW r \in Listed PROVE r \in of
  <2>1. <<l, g, r>> \in {x \in examined' : x[1] = l /\ x[2] = g}
    BY DEF Examine
  <2>2. <<l, g, r>>[3] = r
    OBVIOUS
  <2> HIDE DEF of
  <2> QED
    BY <2>1, <2>2 DEF of
<1>2. ASSUME NEW e \in examined', e[1] = l, e[2] = g PROVE e[3] \in Listed
  BY <1>2 DEF Examine
<1>3. of = Listed
  BY <1>1, <1>2
<1> QED
  BY <1>3 DEF Said, Unique

LEMMA SaidElsewhere ==
  ASSUME Examine
  PROVE  \A l, g : l # stage \/ g # group => Said(l, g)' = Said(l, g)
<1> SUFFICES ASSUME NEW l, NEW g, l # stage \/ g # group
             PROVE  Said(l, g)' = Said(l, g)
  OBVIOUS
<1>1. {e[3] : e \in {x \in examined' : x[1] = l /\ x[2] = g}}
        = {e[3] : e \in {x \in examined : x[1] = l /\ x[2] = g}}
  BY DEF Examine
<1> QED
  BY <1>1 DEF Said

\* The rows of a page that is taken are those of the list.
LEMMA TypedPages ==
  ASSUME Typed, stage \in Lists, NEW values \in Pages[stage], NEW info \in Infos,
         TakePage(values, info)
  PROVE  Typed'
<1> USE DEF TakePage, Typed
<1>1. values \in Seq(Row[stage])
  BY CloudflareAssumption
<1>2. [rows |-> values, info |-> info] \in PageShown
  BY <1>1 DEF PageShown
<1>3. shown' \in Seq(PageShown)
  BY <1>2
<1>4. \A p \in DOMAIN shown' : shown'[p].rows \in Seq(Row[stage])
  BY <1>1, <1>2
<1>5. SaidGroups' = SaidGroups
  BY DEF SaidGroups, Said
<1>6. stage # "account" /\ stage' = stage
  BY DEF Lists, Row
<1> QED
  BY <1>3, <1>4, <1>5, <1>6

LEMMA TypedElsewhere ==
  ASSUME Typed, UNCHANGED <<shown, examined>>,
         stage' = stage \/ shown = <<>> \/ stage' \notin Lists \cup {"account"}
  PROVE  Typed'
<1>1. SaidGroups' = SaidGroups
  BY DEF SaidGroups, Said
<1> QED
  BY <1>1 DEF Typed

LEMMA ListedRows ==
  ASSUME Typed, stage \in Lists
  PROVE  Listed \subseteq Row[stage]
BY DEF Typed, Listed, Rows

\* A list is done with, and it is not that of the groups.
LEMMA TypedNew ==
  ASSUME Typed, NewList, Examine, stage # "groups", stage' # "account"
  PROVE  Typed'
<1>1. SaidGroups' = SaidGroups
  BY SaidElsewhere DEF SaidGroups
<1> QED
  BY <1>1 DEF Typed, NewList

LEMMA StepTakeMembers == IInv /\ TakeMembers => IInv'
<1> SUFFICES ASSUME IInv, TakeMembers PROVE IInv'
  OBVIOUS
<1> USE DEF IInv, TakeMembers, found, walk
<1>0. Typed'
  BY TypedNew
<1>1. InOrder' /\ Empty' /\ AccountsActive' /\ GrantsHeld' /\ OfGroup'
  BY DEF NewList, OfGroup, InOrder, Empty, AccountsActive, GrantsHeld, Walking, Examine
<1>2. SaidMembers' = Unique
  BY SaidNew DEF SaidMembers, InOrder, Empty
<1>3. GroupsWalked' /\ AccessSoFar' /\ AccessIsExact' /\ MembersKept'
  BY <1>2 DEF GroupsWalked, AccessSoFar, AccessIsExact, MembersKept
<1> QED
  BY <1>0, <1>1, <1>3

LEMMA StepTakeZones == IInv /\ TakeZones => IInv'
<1> SUFFICES ASSUME IInv, TakeZones PROVE IInv'
  OBVIOUS
<1> USE DEF IInv, TakeZones, found, walk
<1>0. Typed'
  BY TypedNew
<1>1. InOrder' /\ Empty' /\ AccountsActive' /\ GrantsHeld' /\ OfGroup'
  BY DEF NewList, OfGroup, InOrder, Empty, AccountsActive, GrantsHeld, Walking, Examine
<1>2. SaidMembers' = SaidMembers
  BY SaidElsewhere DEF SaidMembers
<1>3. GroupsWalked' /\ AccessSoFar' /\ AccessIsExact' /\ MembersKept'
  BY <1>2 DEF GroupsWalked, AccessSoFar, AccessIsExact, MembersKept
<1> QED
  BY <1>0, <1>1, <1>3

LEMMA UnderstoodSame ==
  ASSUME UNCHANGED zones PROVE \A p : Understood(p)' = Understood(p)
BY DEF Understood

\* With the groups, the accounts are known, and who of them is blocked by what the
\* account itself is assigned: no member of a group has been listed yet.
LEMMA StepTakeGroups == IInv /\ TakeGroups => IInv'
<1> SUFFICES ASSUME IInv, TakeGroups PROVE IInv'
  OBVIOUS
<1> USE DEF IInv, TakeGroups
<1>1. InOrder' /\ Empty' /\ MembersKept' /\ OfGroup'
  BY DEF NewList, OfGroup, InOrder, Empty, MembersKept, Walking, Examine
<1>2. SaidMembers' = members /\ SaidGroups' = Unique
  BY SaidNew, SaidElsewhere DEF SaidMembers, SaidGroups, MembersKept, InOrder, Empty, Walking
<1>3. AccountsActive' /\ Typed'
  <2>1. \A r \in Listed : r \in GroupRow
    BY ListedRows DEF Row, Lists
  <2> QED
    BY <1>2, <2>1 DEF AccountsActive, Typed, NewList, Unique, GroupRow
<1>4. CASE stage' # "groupMembers"
  BY <1>1, <1>3, <1>4 DEF GroupsWalked, AccessSoFar, AccessIsExact, GrantsHeld
<1>5. CASE stage' = "groupMembers"
  <2>1. GrantsHeld'
    <3>1. ASSUME NEW x \in grants'
          PROVE  x[1][1] = "account" /\ x[1][2] \in accounts'
      <4>1. PICK m \in members : /\ m.status = "accepted"
                                 /\ x \in GrantsOf(<<"account", m.id>>, m.policies)
        BY <3>1
      <4>2. x[1] = <<"account", m.id>>
        BY <4>1 DEF GrantsOf
      <4>3. m.id \in accounts'
        BY <4>1
      <4> QED
        BY <4>2, <4>3
    <3> QED
      BY <3>1 DEF GrantsHeld
  <2>2. \A a, g : ~Holds(a, g)'
    <3>1. \A e \in examined' : e[1] # "groupMembers"
      BY DEF Examine, InOrder
    <3>2. \A g : Said("groupMembers", g)' = {}
      BY <3>1 DEF Said
    <3> QED
      BY <3>2 DEF Holds
  <2>3. GroupsWalked'
    BY <1>2, <1>5 DEF GroupsWalked, Empty
  <2>4. \A m, n \in members : m.id = n.id => m = n
    BY DEF MembersKept, SaidMembers, Said
  <2>5. blocked' = {a \in accounts' : Suspect(a)'}
    BY <1>2, <2>2, <2>4, UnderstoodSame DEF Suspect, SaidMembers
  <2>6. AccessSoFar'
    BY <2>2, <2>5 DEF AccessSoFar, Empty
  <2> QED
    BY <1>1, <1>3, <1>5, <2>1, <2>3, <2>6 DEF AccessIsExact
<1> QED
  BY <1>4, <1>5

LEMMA StepSkipGroup ==
  ASSUME IInv, NEW g \in todo, SkipGroup(g) PROVE IInv'
<1> USE DEF IInv, SkipGroup, found
<1>0. Typed'
  BY TypedElsewhere DEF list, Lists, Row
<1>1. InOrder' /\ Empty' /\ MembersKept' /\ AccountsActive' /\ GrantsHeld' /\ OfGroup'
  BY SaidSame DEF list, OfGroup, InOrder, Empty, MembersKept, AccountsActive, GrantsHeld, Walking
<1>2. GroupsWalked'
  BY SaidSame DEF GroupsWalked
<1>3. AccessSoFar'
  BY SaidSame DEF AccessSoFar
<1>4. AccessIsExact'
  BY DEF AccessIsExact
<1> QED
  BY <1>0, <1>1, <1>2, <1>3, <1>4

LEMMA StepNextGroup ==
  ASSUME IInv, NEW g \in todo, NextGroup(g) PROVE IInv'
<1> USE DEF IInv, NextGroup
<1>0. Typed'
  BY TypedElsewhere DEF list, Lists, Row
<1>1. /\ SaidMembers' = SaidMembers /\ SaidGroups' = SaidGroups
      /\ \A p : Understood(p)' = Understood(p)
      /\ \A a, h : Holds(a, h)' = Holds(a, h)
      /\ \A a : Suspect(a)' = Suspect(a)
  BY SaidSame
<1>2. g \in SaidGroups /\ g.id \notin groups /\ g.id # NoGroup
  BY CloudflareAssumption DEF GroupsWalked, Typed
<1>3. \A h \in SaidGroups : h.id = g.id => h = g
  BY <1>2 DEF SaidGroups, Said
<1>4. InOrder' /\ Empty' /\ MembersKept' /\ AccountsActive' /\ OfGroup'
  BY <1>1, <1>2 DEF list, OfGroup, InOrder, Empty, MembersKept, AccountsActive, Walking
<1>5. CASE stage' # "groupMembers"
  BY <1>0, <1>4, <1>5 DEF GroupsWalked, AccessSoFar, AccessIsExact, GrantsHeld
<1>6. CASE stage' = "groupMembers"
  <2>1. GroupsWalked'
    <3>1. denied' = \E h \in SaidGroups : h.id = g.id /\ ~Understood(h.policies)
      BY <1>2, <1>3
    <3> QED
      BY <1>1, <1>2, <1>3, <3>1 DEF GroupsWalked
  <2>2. \A a : ~Holds(a, g.id)
    BY <1>2 DEF Holds, Said, InOrder
  <2>3. AccessSoFar'
    BY <1>1, <2>2 DEF AccessSoFar
  <2>4. GrantsHeld'
    <3>1. ASSUME NEW x \in GrantsOf(<<"group", g.id>>, g.policies)
          PROVE  x[1] = <<"group", g.id>>
      BY DEF GrantsOf
    <3> QED
      BY <3>1 DEF GrantsHeld
  <2> QED
    BY <1>0, <1>4, <1>6, <2>1, <2>3, <2>4 DEF AccessIsExact
<1> QED
  BY <1>5, <1>6

\* The members of a group are walked after its policies: with them its memberships
\* are complete, or they are blocked whatever they have elsewhere.
LEMMA StepTakeGroupMembers == IInv /\ TakeGroupMembers => IInv'
<1> SUFFICES ASSUME IInv, TakeGroupMembers PROVE IInv'
  OBVIOUS
<1> USE DEF IInv, TakeGroupMembers
<1>0. group # NoGroup /\ group \in groups
  BY DEF OfGroup, GroupsWalked
<1>1. Typed' /\ OfGroup'
  BY TypedNew DEF OfGroup, NewList
<1>2. /\ SaidMembers' = SaidMembers /\ SaidGroups' = SaidGroups
      /\ \A p : Understood(p)' = Understood(p)
  BY SaidElsewhere, UnderstoodSame DEF SaidMembers, SaidGroups
<1>3. InOrder' /\ Empty' /\ MembersKept' /\ AccountsActive' /\ GrantsHeld'
  BY <1>0, <1>2 DEF GroupsWalked, InOrder, Empty, MembersKept, AccountsActive, GrantsHeld, Walking, Examine
<1>4. CASE stage' # "groupMembers"
  BY <1>1, <1>3, <1>4 DEF GroupsWalked, AccessSoFar, AccessIsExact
<1>5. CASE stage' = "groupMembers"
  <2>1. GroupsWalked'
    BY <1>2 DEF GroupsWalked
  <2> DEFINE resolved ==
        {m.id : m \in {x \in Unique : x.status = "accepted" /\ x.id \in accounts}}
  <2>2. PICK g : g = group
    OBVIOUS
  <2>3. Said("groupMembers", g)' = Unique /\ Said("groupMembers", g) = {}
    <3>1. \A e \in examined : ~(e[1] = "groupMembers" /\ e[2] = g)
      BY <2>2 DEF InOrder
    <3> QED
      BY <2>2, <3>1, SaidNew DEF Said
  <2>4. \A a : ~Holds(a, g) /\ (a \in accounts => (Holds(a, g)' <=> a \in resolved))
    BY <2>3 DEF Holds
  <2>5. \A a, h : h # g => Holds(a, h)' = Holds(a, h)
    BY <2>2, SaidElsewhere DEF Holds
  <2>6. resolved = {m.id : m \in {x \in {y \in Unique : ~Ignored(y)} :
                                    x.status = "accepted" /\ x.id \in accounts}}
    BY DEF Ignored
  <2>7. PICK r \in SaidGroups : r.id = g
    BY <1>0, <2>2 DEF GroupsWalked
  <2>8. \A h \in SaidGroups : h.id = g => h = r
    BY <2>7 DEF SaidGroups, Said
  <2>9. r.usable /\ (denied <=> ~Understood(r.policies))
    BY <1>0, <2>2, <2>7, <2>8 DEF GroupsWalked
  <2>10. \A a \in accounts : Suspect(a)' <=> Suspect(a) \/ (denied /\ a \in resolved)
    BY <1>2, <2>4, <2>5, <2>7, <2>8, <2>9 DEF Suspect, SaidMembers, SaidGroups
  <2>11. blocked' = {a \in accounts : Suspect(a)'}
    BY <2>6, <2>10 DEF AccessSoFar
  <2>12. memberships' = {m \in accounts \X groups :
                           /\ Holds(m[1], m[2])'
                           /\ ~\E h \in SaidGroups : h.id = m[2] /\ ~Understood(h.policies)}
    <3>1. memberships' = IF denied THEN memberships ELSE memberships \cup (resolved \X {g})
      BY <2>2, <2>6
    <3>2. denied <=> \E h \in SaidGroups : h.id = g /\ ~Understood(h.policies)
      BY <2>7, <2>8, <2>9
    <3> HIDE DEF resolved
    <3>3. resolved \subseteq accounts
      BY DEF resolved
    <3>4. ASSUME NEW m \in accounts \X groups
          PROVE  m \in memberships' <=>
                   /\ Holds(m[1], m[2])'
                   /\ ~\E h \in SaidGroups : h.id = m[2] /\ ~Understood(h.policies)
      BY <1>0, <2>2, <2>4, <2>5, <3>1, <3>2, <3>3 DEF AccessSoFar
    <3>5. memberships' \subseteq accounts \X groups
      BY <1>0, <2>2, <3>1, <3>3 DEF AccessSoFar
    <3> QED
      BY <3>4, <3>5
  <2>13. AccessSoFar'
    BY <1>2, <2>11, <2>12 DEF AccessSoFar
  <2> QED
    BY <1>1, <1>3, <1>5, <2>1, <2>13 DEF AccessIsExact
<1> QED
  BY <1>4, <1>5

LEMMA StepFinish == IInv /\ Finish => IInv'
<1> SUFFICES ASSUME IInv, Finish PROVE IInv'
  OBVIOUS
<1> USE DEF IInv, Finish
<1>0. Typed'
  BY TypedElsewhere DEF list, Lists, Row
<1>1. InOrder' /\ Empty' /\ MembersKept' /\ AccountsActive' /\ GrantsHeld' /\ OfGroup'
  BY SaidSame DEF list, OfGroup, walk, InOrder, Empty, MembersKept, AccountsActive, GrantsHeld, Walking
<1>2. GroupsWalked' /\ AccessSoFar'
  BY DEF GroupsWalked, AccessSoFar
<1>3. Closed(memberships', grants')
  BY DEF Closed, Kept, AccessSoFar, GrantsHeld
<1>4. memberships' = {m \in accounts \X groups : Holds(m[1], m[2]) /\ ~Suspect(m[1])}
  <2>1. ASSUME NEW m \in accounts \X groups, Holds(m[1], m[2]), ~Suspect(m[1])
        PROVE  ~\E g \in SaidGroups : g.id = m[2] /\ ~Understood(g.policies)
    BY <2>1 DEF GroupsWalked, Suspect, SaidGroups
  <2> QED
    BY <2>1 DEF Kept, AccessSoFar
<1>5. \A g \in grants' : g[1][1] = "account" => ~Suspect(g[1][2])
  BY DEF AccessSoFar, GrantsHeld
<1>6. AccessIsExact'
  BY <1>3, <1>4, <1>5, SaidSame DEF AccessIsExact
<1> QED
  BY <1>0, <1>1, <1>2, <1>6

LEMMA NextInv == IInv /\ [Next]_vars => IInv'
<1> SUFFICES ASSUME IInv, [Next]_vars PROVE IInv'
  OBVIOUS
<1>1. CASE Retry \/ ListFails \/ UNCHANGED vars
  <2>1. UNCHANGED <<stage, members, zones, walk, found, examined, shown>>
    BY <1>1 DEF Retry, ListFails, vars, list
  <2>2. Typed'
    BY <2>1, TypedElsewhere DEF IInv
  <2>3. OfGroup'
    BY <1>1 DEF Retry, ListFails, ReadingList, vars, list, walk, IInv, OfGroup
  <2> QED
    BY <2>1, <2>2, <2>3, NothingTaken
<1>2. CASE AccountRead \/ AccountFails
  <2>1. Typed' /\ OfGroup'
    BY <1>2, TypedElsewhere DEF AccountRead, AccountFails, list, IInv, Typed, OfGroup
  <2>2. UNCHANGED <<members, zones, walk, found, examined>>
    BY <1>2 DEF AccountRead, AccountFails
  <2>3. stage = "account" /\ stage' \in {"members", "failed"}
    BY <1>2 DEF AccountRead, AccountFails
  <2> QED
    BY <2>1, <2>2, <2>3 DEF walk, found, IInv, InOrder, Empty, MembersKept, AccountsActive,
         GroupsWalked, AccessSoFar, GrantsHeld, AccessIsExact, Walking
<1>3. ASSUME NEW values \in IF stage \in Lists THEN Pages[stage] ELSE {}, NEW info \in Infos,
             TakePage(values, info) \/ RefusePage(values, info)
      PROVE  IInv'
  <2>1. stage \in Lists /\ values \in Pages[stage]
    BY <1>3
  <2>2. UNCHANGED <<stage, members, zones, walk, found, examined>>
    BY <1>3 DEF TakePage, RefusePage
  <2>3. Typed'
    BY <1>3, <2>1, TypedPages, TypedElsewhere DEF RefusePage, IInv
  <2>4. OfGroup'
    BY <1>3 DEF TakePage, RefusePage, ReadingList, walk, OfGroup
  <2> QED
    BY <2>2, <2>3, <2>4, NothingTaken
<1>4. CASE TakeMembers \/ TakeZones \/ TakeGroups \/ TakeGroupMembers \/ Finish
  BY <1>4, StepTakeMembers, StepTakeZones, StepTakeGroups, StepTakeGroupMembers, StepFinish
<1>5. ASSUME NEW g \in todo, SkipGroup(g) \/ NextGroup(g) PROVE IInv'
  BY <1>5, StepSkipGroup, StepNextGroup
<1> QED
  BY <1>1, <1>2, <1>3, <1>4, <1>5 DEF Next

\* "a denying group blocks other access paths for its known members"
\* (docs/cloudflare.md 77; collect, records.rs 164-288), for every server and in
\* whichever order the groups are walked.
THEOREM AccessExact == Spec => []AccessIsExact
<1>1. IInv => AccessIsExact
  BY DEF IInv
<1> QED
  BY InitInv, NextInv, <1>1, PTL DEF Spec

-----------------------------------------------------------------------------
(***************************************************************************)
(* A snapshot that claims to be complete.                                  *)
(***************************************************************************)
Assigned(kind, row) == GrantsOf(<<kind, row.id>>, row.policies) \subseteq grants

\* What became of a row.
Placed(e) ==
  CASE e[1] = "members" ->
         IF stage \in {"zones", "groups"} THEN e[3] \in members
         ELSE /\ e[3].status # Bad
              /\ e[3].status = "accepted" => e[3].id \in accounts /\ Assigned("account", e[3])
    [] e[1] = "zones" -> e[3].id \in zones
    [] e[1] = "groups" -> e[3] \in todo \/ (e[3].id \in groups /\ Assigned("group", e[3]))
    [] e[1] = "groupMembers" -> e[3].status = "pending" \/ <<e[3].id, e[2]>> \in memberships

Clean ==
  /\ blocked = {} /\ denied = FALSE
  /\ \A e, f \in examined : e[1] = f[1] /\ e[2] = f[2] /\ e[3].id = f[3].id => e = f
  /\ stage \notin {"failed", "malformed"} => \A e \in examined : Placed(e)

\* Every row is of a list, and of a group if the list is; until a claim to be complete
\* is given up, nothing is blocked, contradicted or lost.
JInv ==
  /\ \A e \in examined :
       /\ e[1] \in Lists
       /\ e[1] # "groupMembers" => e[2] = NoGroup
       /\ e[1] = "members" => e[3].status \in {"accepted", "pending", Bad}
       /\ e[1] = "zones" => stage \notin {"account", "members", "zones"}
  /\ stage \in {"account", "members", "zones", "groups"} => blocked = {}
  /\ stage = "done" => todo = {}
  /\ complete => Clean

LEMMA InitJ == Init => JInv
BY DEF Init, JInv, Clean

LEMMA NoneContradicts ==
  ASSUME Examine, Unique = Listed, \A e \in examined : ~(e[1] = stage /\ e[2] = group),
         \A e, f \in examined : e[1] = f[1] /\ e[2] = f[2] /\ e[3].id = f[3].id => e = f
  PROVE  \A e, f \in examined' : e[1] = f[1] /\ e[2] = f[2] /\ e[3].id = f[3].id => e = f
<1>1. ASSUME NEW r \in Listed, NEW s \in Listed, r.id = s.id PROVE r = s
  BY <1>1 DEF Unique
<1> QED
  BY <1>1 DEF Examine

LEMMA JNothingTaken ==
  ASSUME JInv, UNCHANGED <<stage, members, zones, walk, found, examined>>, complete' => complete
  PROVE  JInv'
BY DEF walk, found, JInv, Clean, Placed, Assigned

LEMMA JTakeMembers == IInv /\ JInv /\ TakeMembers => JInv'
<1> SUFFICES ASSUME IInv, JInv, TakeMembers PROVE JInv'
  OBVIOUS
<1> USE DEF TakeMembers, found, walk
<1>1. group = NoGroup /\ examined = {}
  BY DEF IInv, InOrder, Empty, JInv, Lists, Row, Walking
<1>2. \A r \in Listed : r.status \in {"accepted", "pending", Bad}
  BY ListedRows DEF IInv, Lists, Row, MemberRow
<1>3. \A e \in examined' : e[1] = "members" /\ e[2] = NoGroup /\ e[3] \in Listed
  BY <1>1 DEF Examine
<1>4. ASSUME complete' PROVE Clean'
  <2>1. Unique = Listed
    BY <1>4
  <2>2. \A e \in examined' : Placed(e)'
    BY <1>3, <2>1 DEF Placed
  <2> QED
    BY <1>1, <1>4, <2>1, <2>2, NoneContradicts DEF JInv, IInv, Empty, Clean
<1> QED
  BY <1>2, <1>3, <1>4 DEF JInv, Lists, Row

LEMMA JTakeZones == IInv /\ JInv /\ TakeZones => JInv'
<1> SUFFICES ASSUME IInv, JInv, TakeZones PROVE JInv'
  OBVIOUS
<1> USE DEF TakeZones, found, walk
<1>1. group = NoGroup /\ \A e \in examined : e[1] = "members"
  BY DEF IInv, InOrder, Empty, JInv, Lists, Row, Walking
<1>2. \A e \in examined' : e \in examined \/ (e[1] = "zones" /\ e[2] = NoGroup /\ e[3] \in Listed)
  BY <1>1 DEF Examine
<1>3. ASSUME complete' PROVE Clean'
  <2>1. Unique = Listed /\ Listed = {z \in Unique : z.ours /\ z.usable}
    BY <1>3 DEF Unique
  <2>2. \A e \in examined' : Placed(e)'
    BY <1>1, <1>2, <1>3, <2>1 DEF JInv, Clean, Placed
  <2> QED
    BY <1>1, <1>3, <2>1, <2>2, NoneContradicts DEF JInv, IInv, Empty, Clean
<1> QED
  BY <1>1, <1>2, <1>3 DEF JInv, Lists, Row

LEMMA JTakeGroups == IInv /\ JInv /\ TakeGroups => JInv'
<1> SUFFICES ASSUME IInv, JInv, TakeGroups PROVE JInv'
  OBVIOUS
<1> USE DEF TakeGroups
<1>1. group = NoGroup /\ denied = FALSE /\ \A e \in examined : e[1] \in {"members", "zones"}
  BY DEF IInv, InOrder, Empty, JInv, Lists, Row, Walking
<1>2. \A e \in examined' : e \in examined \/ (e[1] = "groups" /\ e[2] = NoGroup /\ e[3] \in Listed)
  BY <1>1 DEF Examine
<1>3. ASSUME complete' PROVE Clean'
  <2>1. complete /\ Unique = Listed
    BY <1>3
  <2>2. \A m \in members : m.status # Bad /\ (m.status = "accepted" => Understood(m.policies))
    BY <1>3
  <2>3. ASSUME NEW m \in members, m.status = "accepted"
        PROVE  m.id \in accounts' /\ Assigned("account", m)'
    BY <2>2, <2>3 DEF Assigned
  <2>4. \A e \in examined' : stage' = "groupMembers" => Placed(e)'
    BY <1>1, <1>2, <2>1, <2>2, <2>3 DEF JInv, Clean, Placed
  <2>5. blocked' = {}
    BY <1>3
  <2> QED
    BY <1>1, <2>1, <2>4, <2>5, NoneContradicts DEF JInv, Clean
<1> QED
  BY <1>1, <1>2, <1>3 DEF JInv, Lists, Row

LEMMA JSkipGroup ==
  ASSUME JInv, NEW g \in todo, SkipGroup(g) PROVE JInv'
BY DEF JInv, SkipGroup, found

LEMMA JNextGroup ==
  ASSUME IInv, JInv, NEW g \in todo, NextGroup(g) PROVE JInv'
<1> USE DEF NextGroup
<1>1. ASSUME complete' PROVE Clean'
  <2>1. grants \subseteq grants' /\ Assigned("group", g)'
    BY <1>1 DEF Assigned
  <2>2. ASSUME NEW e \in examined, stage' = "groupMembers" PROVE Placed(e)'
    <3>1. Placed(e) /\ complete
      BY <1>1 DEF JInv, Clean
    <3>2. CASE e[1] = "members"
      BY <2>1, <2>2, <3>1, <3>2 DEF Placed, Assigned
    <3>3. CASE e[1] = "groups"
      BY <2>1, <3>1, <3>3 DEF Placed, Assigned
    <3>4. CASE e[1] \in {"zones", "groupMembers"}
      BY <3>1, <3>4 DEF Placed
    <3> QED
      BY <3>2, <3>3, <3>4 DEF JInv, Lists, Row
  <2> QED
    BY <1>1, <2>2 DEF JInv, Clean
<1> QED
  BY <1>1 DEF JInv, Lists, Row

LEMMA JTakeGroupMembers == IInv /\ JInv /\ TakeGroupMembers => JInv'
<1> SUFFICES ASSUME IInv, JInv, TakeGroupMembers PROVE JInv'
  OBVIOUS
<1> USE DEF TakeGroupMembers
<1>1. \A e \in examined' :
        e \in examined \/ (e[1] = "groupMembers" /\ e[2] = group /\ e[3] \in Listed)
  BY DEF Examine
<1>2. \A e \in examined : ~(e[1] = stage /\ e[2] = group)
  BY DEF IInv, InOrder
<1>3. ASSUME complete' PROVE Clean'
  <2>1. complete /\ Unique = Listed /\ denied = FALSE /\ blocked' = {}
    BY <1>3 DEF JInv, Clean
  <2>2. \A r \in Listed : r.status = "pending" \/ <<r.id, group>> \in memberships'
    BY <1>3, <2>1 DEF Ignored
  <2>3. memberships \subseteq memberships'
    BY <2>1
  <2>4. ASSUME NEW e \in examined', stage' = "groupMembers" PROVE Placed(e)'
    <3>1. CASE e[1] = "groupMembers" /\ e[2] = group /\ e[3] \in Listed
      BY <2>2, <3>1 DEF Placed
    <3>2. CASE e \in examined
      <4>1. Placed(e) /\ e[1] \in Lists
        BY <2>1, <3>2 DEF JInv, Clean
      <4> QED
        BY <2>3, <2>4, <4>1 DEF Placed, Assigned, Lists, Row
    <3> QED
      BY <1>1, <3>1, <3>2
  <2> QED
    BY <1>2, <2>1, <2>4, NoneContradicts DEF JInv, Clean
<1> QED
  BY <1>1, <1>3 DEF JInv, Lists, Row

LEMMA JFinish == JInv /\ Finish => JInv'
<1> SUFFICES ASSUME JInv, Finish PROVE JInv'
  OBVIOUS
<1> USE DEF Finish, walk
<1>1. ASSUME complete PROVE UNCHANGED <<grants, memberships>>
  BY <1>1 DEF JInv, Clean, Kept
<1> QED
  BY <1>1 DEF JInv, Clean, Placed, Assigned

LEMMA NextJ == IInv /\ JInv /\ [Next]_vars => JInv'
<1> SUFFICES ASSUME IInv, JInv, [Next]_vars PROVE JInv'
  OBVIOUS
<1>1. CASE Retry \/ ListFails \/ UNCHANGED vars
  BY <1>1, JNothingTaken DEF Retry, ListFails, vars
<1>2. CASE AccountRead \/ AccountFails
  <2>1. stage = "account" /\ stage' \in {"members", "failed"}
    BY <1>2 DEF AccountRead, AccountFails
  <2>2. UNCHANGED <<walk, found, complete, examined>>
    BY <1>2 DEF AccountRead, AccountFails
  <2>3. examined = {}
    BY <2>1 DEF IInv, InOrder, JInv, Walking, Lists, Row
  <2> QED
    BY <2>1, <2>2, <2>3 DEF JInv, Clean, walk, found
<1>3. ASSUME NEW values, NEW info, TakePage(values, info) \/ RefusePage(values, info)
      PROVE  JInv'
  BY <1>3, JNothingTaken DEF TakePage, RefusePage
<1>4. CASE TakeMembers \/ TakeZones \/ TakeGroups \/ TakeGroupMembers \/ Finish
  BY <1>4, JTakeMembers, JTakeZones, JTakeGroups, JTakeGroupMembers, JFinish
<1>5. ASSUME NEW g \in todo, SkipGroup(g) \/ NextGroup(g) PROVE JInv'
  BY <1>5, JSkipGroup, JNextGroup
<1> QED
  BY <1>1, <1>2, <1>3, <1>4, <1>5 DEF Next

\* complete=true loses nothing and hides no contradiction (collect and unique,
\* records.rs 16-288), whatever rows and policies the server hands out.
THEOREM CompleteLosesNothing == Spec => []NothingLost
<1>1. IInv /\ JInv => NothingLost
  <2> SUFFICES ASSUME IInv, JInv, stage = "done", complete PROVE NothingLost
    BY DEF NothingLost
  <2>1. Clean /\ todo = {}
    BY DEF JInv
  <2>2. ASSUME NEW e \in examined
        PROVE  CASE e[1] = "members" ->
                      \/ e[3].status = "pending"
                      \/ /\ e[3].id \in accounts
                         /\ GrantsOf(<<"account", e[3].id>>, e[3].policies) \subseteq grants
                 [] e[1] = "zones" -> e[3].id \in zones
                 [] e[1] = "groups" ->
                      /\ e[3].id \in groups
                      /\ GrantsOf(<<"group", e[3].id>>, e[3].policies) \subseteq grants
                 [] e[1] = "groupMembers" ->
                      e[3].status = "pending" \/ <<e[3].id, e[2]>> \in memberships
    <3>1. Placed(e) /\ e[1] \in Lists
      BY <2>1 DEF JInv, Clean
    <3> QED
      BY <2>1, <3>1 DEF Placed, Assigned, JInv, Lists, Row
  <2> QED
    BY <2>1, <2>2 DEF NothingLost, Clean
<1> QED
  BY InitInv, NextInv, InitJ, NextJ, <1>1, PTL DEF Spec

-----------------------------------------------------------------------------
(***************************************************************************)
(* Types and budgets.                                                      *)
(***************************************************************************)
BudgetsOK ==
  /\ requests \in 0 .. MaxRequests /\ attempt \in 0 .. 2 /\ rows \in 0 .. MaxRows + 1
  /\ Len(shown) <= MaxPages /\ (read = FALSE => Len(shown) < MaxPages)

FoundOK ==
  /\ {m.id : m \in members} \subseteq MemberIds /\ zones \subseteq ZoneIds
  /\ {g.id : g \in todo} \subseteq GroupIds /\ group \in groups \cup {NoGroup}
  /\ denied \in BOOLEAN /\ (denied => group # NoGroup)
  /\ accounts \subseteq MemberIds /\ groups \subseteq GroupIds /\ blocked \subseteq accounts
  /\ memberships \subseteq accounts \X groups

StageOK ==
  /\ stage \in Lists \cup {"account", "done", "failed", "malformed"}
  /\ read \in BOOLEAN /\ complete \in BOOLEAN

TInv == StageOK /\ BudgetsOK /\ FoundOK

LEMMA InitT == Init => TInv
<1> SUFFICES ASSUME Init PROVE TInv
  OBVIOUS
<1>1. BudgetsOK
  BY CloudflareAssumption DEF Init, BudgetsOK
<1>2. StageOK /\ FoundOK
  BY DEF Init, StageOK, FoundOK
<1> QED
  BY <1>1, <1>2 DEF TInv

\* Asking keeps within the budgets, taking a list starts another one.
LEMMA BudgetSteps ==
  ASSUME BudgetsOK, StageOK, Typed,
         \/ UNCHANGED <<budget, list>>
         \/ UNCHANGED budget /\ NewList
         \/ Retry \/ AccountRead \/ AccountFails \/ ListFails
         \/ \E values \in Seq(UNION {Row[l] : l \in Lists}), info \in Infos :
              TakePage(values, info) \/ RefusePage(values, info)
  PROVE  BudgetsOK'
<1>1. /\ MaxRequests \in Nat /\ MaxRows \in Nat /\ MaxPages \in Nat \ {0}
      /\ Len(<<>>) = 0 /\ Len(shown) \in Nat
  BY CloudflareAssumption DEF Typed
<1>2. CASE UNCHANGED <<budget, list>>
  BY <1>2 DEF budget, list, BudgetsOK
<1>3. CASE UNCHANGED budget /\ NewList
  BY <1>1, <1>3 DEF budget, NewList, BudgetsOK
<1>4. CASE Retry \/ AccountRead \/ AccountFails \/ ListFails
  BY <1>1, <1>4 DEF Retry, AccountRead, AccountFails, ListFails, Answered, Failed, list, BudgetsOK
<1>5. ASSUME NEW values \in Seq(UNION {Row[l] : l \in Lists}), NEW info \in Infos,
             TakePage(values, info) \/ RefusePage(values, info)
      PROVE  BudgetsOK'
  <2>1. Len(values) \in Nat /\ ~read
    BY <1>5 DEF TakePage, RefusePage, ReadingList
  <2>2. Len(shown') <= MaxPages /\ (read' = FALSE => Len(shown') < MaxPages)
    <3>1. CASE TakePage(values, info)
      <4>1. Len(shown') = Len(shown) + 1 /\ Len(shown) < MaxPages
        BY <1>1, <2>1, <3>1 DEF TakePage, BudgetsOK, StageOK, Typed
      <4>2. read' = FALSE => Len(shown) + 1 # MaxPages
        BY <3>1 DEF TakePage, Number
      <4> QED
        BY <1>1, <4>1, <4>2
    <3>2. CASE RefusePage(values, info)
      BY <1>1, <3>2 DEF RefusePage, BudgetsOK
    <3> QED
      BY <1>5, <3>1, <3>2
  <2>3. rows' \in 0 .. MaxRows + 1 /\ requests' \in 0 .. MaxRequests /\ attempt' = 0
    BY <1>1, <1>5, <2>1 DEF TakePage, RefusePage, Accepted, Answered, BudgetsOK
  <2> QED
    BY <2>2, <2>3 DEF BudgetsOK
<1> QED
  BY <1>2, <1>3, <1>4, <1>5

LEMMA UniqueRows ==
  ASSUME Typed, stage \in Lists
  PROVE  \A r \in Unique : r \in Row[stage] /\ r.id # Bad
BY ListedRows DEF Unique

LEMMA NextT == IInv /\ TInv /\ [Next]_vars => TInv'
<1> SUFFICES ASSUME IInv, TInv, [Next]_vars PROVE TInv'
  OBVIOUS
<1> USE DEF TInv
<1>1. CASE Retry \/ ListFails \/ AccountRead \/ AccountFails \/ UNCHANGED vars
  <2>1. UNCHANGED <<members, zones, walk, found>> /\ StageOK'
    BY <1>1 DEF Retry, ListFails, AccountRead, AccountFails, vars, list, StageOK, Lists, Row
  <2>2. FoundOK'
    BY <2>1 DEF walk, found, FoundOK
  <2> QED
    BY <1>1, <2>1, <2>2, BudgetSteps DEF vars, IInv
<1>2. ASSUME NEW values \in IF stage \in Lists THEN Pages[stage] ELSE {}, NEW info \in Infos,
             TakePage(values, info) \/ RefusePage(values, info)
      PROVE  TInv'
  <2>1. values \in Seq(UNION {Row[l] : l \in Lists})
    <3>1. stage \in Lists /\ values \in Seq(Row[stage])
      BY <1>2, CloudflareAssumption
    <3> QED
      BY <3>1
  <2>2. UNCHANGED <<members, zones, walk, found>> /\ StageOK'
    BY <1>2 DEF TakePage, RefusePage, StageOK
  <2>3. FoundOK'
    BY <2>2 DEF walk, found, FoundOK
  <2> QED
    BY <1>2, <2>1, <2>2, <2>3, BudgetSteps DEF IInv
<1>3. CASE TakeMembers
  <2>1. \A r \in Unique : r.id \in MemberIds
    BY <1>3, UniqueRows DEF TakeMembers, IInv, Lists, Row, MemberRow
  <2>2. FoundOK'
    BY <1>3, <2>1 DEF TakeMembers, walk, found, FoundOK
  <2> QED
    BY <1>3, <2>2, BudgetSteps DEF TakeMembers, NewList, IInv, StageOK, Lists, Row
<1>4. CASE TakeZones
  <2>1. \A r \in Unique : r.id \in ZoneIds
    BY <1>4, UniqueRows DEF TakeZones, IInv, Lists, Row, ZoneRow
  <2>2. FoundOK'
    BY <1>4, <2>1 DEF TakeZones, walk, found, FoundOK
  <2> QED
    BY <1>4, <2>2, BudgetSteps DEF TakeZones, NewList, IInv, StageOK, Lists, Row
<1>5. CASE TakeGroups
  <2>1. \A r \in Unique : r.id \in GroupIds
    BY <1>5, UniqueRows DEF TakeGroups, IInv, Lists, Row, GroupRow
  <2>2. FoundOK'
    BY <1>5, <2>1 DEF TakeGroups, IInv, Empty, FoundOK
  <2> QED
    BY <1>5, <2>2, BudgetSteps DEF TakeGroups, NewList, IInv, StageOK, Lists, Row
<1>6. ASSUME NEW g \in todo, SkipGroup(g) \/ NextGroup(g) PROVE TInv'
  <2>1. g.id \in GroupIds
    BY DEF FoundOK
  <2>2. FoundOK'
    <3>1. CASE SkipGroup(g)
      BY <3>1 DEF SkipGroup, found, FoundOK
    <3>2. CASE NextGroup(g)
      <4>1. denied' \in BOOLEAN /\ group' # NoGroup
        BY <2>1, <3>2, CloudflareAssumption DEF NextGroup
      <4> QED
        BY <2>1, <3>2, <4>1 DEF NextGroup, FoundOK
    <3> QED
      BY <1>6, <3>1, <3>2
  <2> QED
    BY <1>6, <2>2, BudgetSteps DEF SkipGroup, NextGroup, list, IInv, StageOK
<1>7. CASE TakeGroupMembers
  <2>1. FoundOK'
    BY <1>7 DEF TakeGroupMembers, IInv, OfGroup, FoundOK
  <2> QED
    BY <1>7, <2>1, BudgetSteps DEF TakeGroupMembers, NewList, IInv, StageOK
<1>8. CASE Finish
  <2>1. FoundOK'
    BY <1>8 DEF Finish, Kept, walk, FoundOK
  <2> QED
    BY <1>8, <2>1, BudgetSteps DEF Finish, list, IInv, StageOK
<1> QED
  BY <1>1, <1>2, <1>3, <1>4, <1>5, <1>6, <1>7, <1>8 DEF Next

\* The budgets of a discovery hold (request, client.rs 26-97; listing, 110-208), and
\* whom it blocks is an account it knows.
THEOREM TypeCorrect == Spec => []TypeOK
<1>1. TInv => TypeOK
  BY DEF TInv, StageOK, BudgetsOK, FoundOK, TypeOK
<1> QED
  BY InitInv, NextInv, InitT, NextT, <1>1, PTL DEF Spec

-----------------------------------------------------------------------------
(***************************************************************************)
(* Whole lists: what the pages add up to.                                  *)
(***************************************************************************)
\* A page that was accepted is no repetition.
Once ==
  \A p, q \in DOMAIN shown : shown[p].rows = shown[q].rows /\ shown[p].rows # <<>> => p = q

\* The pages are within their size, so that no row of them goes uncounted.
Sized == \A p \in DOMAIN shown : Len(shown[p].rows) <= PageSize

WInv == Once /\ Sized /\ ListsAreWhole

\* One more page has as many rows more as it holds.
LEMMA RowsAdded ==
  ASSUME Typed, IsFiniteSet(Rows), NEW values \in Seq(UNION {Row[l] : l \in Lists}),
         NEW info \in Infos, Len(values) <= PageSize,
         shown' = Append(shown, [rows |-> values, info |-> info])
  PROVE  IsFiniteSet(Rows') /\ Cardinality(Rows') = Received(values)
<1> DEFINE n == Len(shown) + 1
           added == {n} \X (1 .. Len(values))
<1>1. /\ Len(shown) \in Nat /\ Len(values) \in Nat /\ PageSize \in Nat
      /\ DOMAIN shown = 1 .. Len(shown) /\ DOMAIN shown' = 1 .. n
      /\ DOMAIN values = 1 .. Len(values)
      /\ \A p \in 1 .. Len(shown) : shown'[p] = shown[p]
      /\ shown'[n].rows = values
  BY CloudflareAssumption DEF Typed
<1>2. Rows' = Rows \cup added
  <2>1. ASSUME NEW r \in Rows' PROVE r \in Rows \cup added
    <3>1. /\ r \in (DOMAIN shown') \X (1 .. PageSize) /\ r[2] \in DOMAIN shown'[r[1]].rows
          /\ r[1] \in 1 .. n
      BY <1>1 DEF Rows
    <3>2. CASE r[1] = n
      BY <1>1, <3>1, <3>2
    <3>3. CASE r[1] \in 1 .. Len(shown)
      BY <1>1, <3>1, <3>3 DEF Rows
    <3> QED
      BY <1>1, <3>1, <3>2, <3>3
  <2>2. ASSUME NEW r \in Rows \cup added PROVE r \in Rows'
    <3>1. CASE r \in Rows
      BY <1>1, <3>1 DEF Rows
    <3>2. CASE r \in added
      <4>1. r \in (DOMAIN shown') \X (1 .. PageSize)
        BY <1>1, <3>2
      <4>2. r[2] \in DOMAIN shown'[r[1]].rows
        BY <1>1, <3>2
      <4> QED
        BY <4>1, <4>2 DEF Rows
    <3> QED
      BY <2>2, <3>1, <3>2
  <2> QED
    BY <2>1, <2>2
<1>3. Rows \cap added = {}
  BY <1>1 DEF Rows
<1> DEFINE f == [i \in 1 .. Len(values) |-> <<n, i>>]
<1>4. f \in Bijection(1 .. Len(values), added)
  <2>1. f \in [1 .. Len(values) -> added]
    OBVIOUS
  <2>2. \A i, j \in 1 .. Len(values) : f[i] = f[j] => i = j
    OBVIOUS
  <2>3. \A r \in added : \E i \in 1 .. Len(values) : f[i] = r
    OBVIOUS
  <2> HIDE DEF f, added
  <2> QED
    BY <2>1, <2>2, <2>3 DEF Bijection, Injection, Surjection, IsInjective
<1> HIDE DEF f, added, n
<1>5. /\ IsFiniteSet(1 .. Len(values)) /\ Cardinality(1 .. Len(values)) = Len(values)
  <2>1. ASSUME NEW k \in Nat PROVE IsFiniteSet(1 .. k) /\ Cardinality(1 .. k) = k
    <3>1. Cardinality(1 .. k) = IF 1 > k THEN 0 ELSE k - 1 + 1
      BY FS_Interval
    <3> QED
      BY <3>1, FS_Interval
  <2> QED
    BY <1>1, <2>1
<1>6. IsFiniteSet(added) /\ Cardinality(added) = Len(values)
  BY <1>4, <1>5, FS_Bijection DEF ExistsBijection
<1>7. /\ IsFiniteSet(Rows \cup added)
      /\ Cardinality(Rows \cup added)
           = Cardinality(Rows) + Cardinality(added) - Cardinality(Rows \cap added)
  BY <1>6, FS_Union
<1>8. Cardinality(Rows \cap added) = 0 /\ Cardinality(Rows) \in Nat
  BY <1>3, FS_EmptySet, FS_CardinalityType
<1> QED
  BY <1>1, <1>2, <1>6, <1>7, <1>8 DEF Received

LEMMA ShownRowsFinite == ASSUME Typed PROVE IsFiniteSet(Rows)
<1>1. Len(shown) \in Nat /\ DOMAIN shown = 1 .. Len(shown) /\ PageSize \in Nat
  BY CloudflareAssumption DEF Typed
<1>2. IsFiniteSet(1 .. Len(shown)) /\ IsFiniteSet(1 .. PageSize)
  <2>1. ASSUME NEW n \in Nat PROVE IsFiniteSet(1 .. n)
    BY FS_Interval
  <2> QED
    BY <1>1, <2>1
<1>3. IsFiniteSet((1 .. Len(shown)) \X (1 .. PageSize))
  BY <1>2, FS_Product
<1>4. Rows \subseteq (1 .. Len(shown)) \X (1 .. PageSize)
  BY <1>1 DEF Rows
<1> QED
  BY <1>3, <1>4, FS_Subset

LEMMA TakePageWhole ==
  ASSUME Typed, TInv, WInv, IsFiniteSet(Rows),
         NEW values \in Seq(UNION {Row[l] : l \in Lists}), NEW info \in Infos,
         TakePage(values, info)
  PROVE  WInv'
<1>1. /\ ~read /\ Accepted(values, info)
      /\ shown' = Append(shown, [rows |-> values, info |-> info])
      /\ read' = (~More(values, info) \/ Number = MaxPages)
      /\ complete' = (complete /\ ~(More(values, info) /\ Number = MaxPages))
  BY DEF TakePage, ReadingList
<1>2. Len(values) <= PageSize /\ ~Repeated(values) /\ Consistent(values, info)
  BY <1>1 DEF Accepted, Fits
<1>3. /\ Len(shown) \in Nat /\ DOMAIN shown = 1 .. Len(shown)
      /\ shown' # <<>> /\ Len(shown') = Number
      /\ DOMAIN shown' = 1 .. Number /\ Number = Len(shown) + 1
      /\ \A p \in 1 .. Len(shown) : shown'[p] = shown[p]
      /\ shown'[Number] = [rows |-> values, info |-> info]
  BY <1>1 DEF Typed, Number
<1>4. \A p \in 1 .. Len(shown) : values # <<>> => shown[p].rows # values
  BY <1>2, <1>3 DEF Repeated
<1>5. Once'
  BY <1>3, <1>4 DEF WInv, Once
<1>6. Sized'
  BY <1>2, <1>3 DEF WInv, Sized
<1>7. Cardinality(Rows') = Received(values) /\ IsFiniteSet(Rows')
  BY <1>1, <1>2, RowsAdded
<1>8. ASSUME read', complete', NEW p \in DOMAIN shown'
      PROVE  /\ \A n \in shown'[p].info.count : n = Cardinality(Rows')
             /\ \A k \in shown'[p].info.pages : k = Len(shown') \/ (k = 0 /\ Rows' = {})
  <2>1. ~More(values, info)
    BY <1>1, <1>8
  <2>2. shown'[p].info.count \subseteq Counts(info) /\ shown'[p].info.pages \subseteq PageCounts(info)
    <3>1. CASE p = Number
      BY <1>3, <3>1 DEF Counts, PageCounts
    <3>2. CASE p \in 1 .. Len(shown)
      BY <1>3, <3>2 DEF Counts, PageCounts
    <3> QED
      BY <1>3, <3>1, <3>2
  <2>3. /\ \A i \in Infos : i.count \subseteq Nat /\ i.pages \subseteq Nat
        /\ \A q \in DOMAIN shown : shown[q].info \in Infos
    <3>1. ASSUME NEW i \in Infos PROVE i.count \subseteq Nat /\ i.pages \subseteq Nat
      BY CloudflareAssumption
    <3>2. ASSUME NEW q \in DOMAIN shown PROVE shown[q].info \in Infos
      <4>1. shown[q] \in PageShown
        BY <1>3, <3>2 DEF Typed
      <4> QED
        BY <4>1 DEF PageShown
    <3> QED
      BY <3>1, <3>2
  <2>4. Counts(info) \subseteq Nat /\ PageCounts(info) \subseteq Nat
    BY <2>3 DEF Counts, PageCounts
  <2>5. Received(values) \in Nat
    BY <1>7, FS_CardinalityType
  <2>6. \A n \in Counts(info) : n = Received(values)
    BY <1>2, <2>1, <2>4, <2>5 DEF Consistent, More
  <2>7. \A k \in PageCounts(info) : k = Number \/ (k = 0 /\ Number = 1 /\ values = <<>>)
    BY <1>2, <1>3, <2>1, <2>4 DEF Consistent, More
  <2>8. Number = 1 /\ values = <<>> => Rows' = {}
    BY <1>3 DEF Rows
  <2> QED
    BY <1>3, <1>7, <2>2, <2>6, <2>7, <2>8
<1> QED
  BY <1>3, <1>5, <1>6, <1>8 DEF WInv, ListsAreWhole, Once

\* Whatever leaves the pages alone, or drops them, leaves the lists whole.
LEMMA SameLists ==
  ASSUME WInv, UNCHANGED shown, read' = read \/ complete' = FALSE, complete' => complete
  PROVE  WInv'
<1>1. Rows' = Rows
  BY DEF Rows
<1>2. Once' /\ Sized'
  BY DEF WInv, Once, Sized
<1>3. ASSUME read' /\ complete' PROVE read /\ complete
  BY <1>3
<1>4. ListsAreWhole'
  BY <1>1, <1>3 DEF WInv, ListsAreWhole
<1> QED
  BY <1>2, <1>4 DEF WInv

LEMMA NextW == IInv /\ TInv /\ WInv /\ [Next]_vars => WInv'
<1> SUFFICES ASSUME IInv, TInv, WInv, [Next]_vars PROVE WInv'
  OBVIOUS
<1>1. CASE Retry \/ ListFails \/ AccountRead \/ AccountFails \/ UNCHANGED vars
  <2>1. UNCHANGED shown /\ (read' = read \/ complete' = FALSE) /\ (complete' => complete)
    <3>1. CASE Retry
      BY <3>1 DEF Retry, list
    <3>2. CASE ListFails
      BY <3>2 DEF ListFails
    <3>3. CASE AccountRead \/ AccountFails
      BY <3>3 DEF AccountRead, AccountFails, list
    <3>4. CASE UNCHANGED vars
      BY <3>4 DEF vars, list
    <3> QED
      BY <1>1, <3>1, <3>2, <3>3, <3>4
  <2> QED
    BY <2>1, SameLists
<1>2. ASSUME NEW values \in IF stage \in Lists THEN Pages[stage] ELSE {}, NEW info \in Infos,
             TakePage(values, info) \/ RefusePage(values, info)
      PROVE  WInv'
  <2>1. values \in Seq(UNION {Row[l] : l \in Lists})
    <3>1. stage \in Lists /\ values \in Seq(Row[stage])
      BY <1>2, CloudflareAssumption
    <3> QED
      BY <3>1
  <2>2. CASE RefusePage(values, info)
    BY <2>2, SameLists DEF RefusePage
  <2>3. CASE TakePage(values, info)
    <3>1. IsFiniteSet(Rows)
      BY ShownRowsFinite DEF IInv
    <3> QED
      BY <2>1, <2>3, <3>1, TakePageWhole DEF IInv
  <2> QED
    BY <1>2, <2>2, <2>3
<1>3. CASE TakeMembers \/ TakeZones \/ TakeGroups \/ TakeGroupMembers
  <2>1. NewList
    BY <1>3 DEF TakeMembers, TakeZones, TakeGroups, TakeGroupMembers
  <2> QED
    BY <2>1 DEF NewList, WInv, Once, Sized, ListsAreWhole
<1>4. ASSUME NEW g \in todo, SkipGroup(g) \/ NextGroup(g) PROVE WInv'
  BY <1>4, SameLists DEF SkipGroup, NextGroup, list
<1>5. CASE Finish
  BY <1>5, SameLists DEF Finish, list
<1> QED
  BY <1>1, <1>2, <1>3, <1>4, <1>5 DEF Next

\* "Prior totals remain binding if a later response omits them" (docs/cloudflare.md
\* 103): whatever totals the pages state, come back to or leave out, a list that does
\* not end the claim to be complete has that many rows on that many pages, none twice.
THEOREM ListsWhole == Spec => []ListsAreWhole
<1>1. Init => WInv
  BY DEF Init, WInv, Once, Sized, ListsAreWhole
<1>2. WInv => ListsAreWhole
  BY DEF WInv
<1> QED
  BY InitInv, NextInv, InitT, NextT, <1>1, NextW, <1>2, PTL DEF Spec

=============================================================================
