----------------------------- MODULE GoogleProofs -----------------------------
(***************************************************************************)
(* Theorems about Google: however the server repeats its page tokens, no   *)
(* page is asked for twice; the records are those of the users that were   *)
(* read, but for the ids that came twice; and it claims to be complete     *)
(* only if they are all of them, and always if nothing was wrong.          *)
(***************************************************************************)
EXTENDS Google, WellFoundedInduction, TLAPS

PageShown ==
  [token : Tokens \cup {"none"}, users : UserPages, next : Tokens \cup {"none", Bad}]

\* What the walk keeps: the pages so far were asked for by the tokens accepted so
\* far, each by the one that the page before it named.
Chained ==
  /\ shown \in Seq(PageShown)
  /\ \A p \in DOMAIN shown : shown[p].token \in tokens \cup {"none"}
  /\ NoPageTwice

\* While a page is being asked for, `page' counts those read, and the token is the
\* latest one named, which none of them was asked for with.
Asking ==
  stage = "request" =>
    /\ page = Len(shown)
    /\ token \in (tokens \cap Tokens) \cup {"none"}
    /\ shown # <<>> => token = shown[Len(shown)].next
    /\ \A p \in DOMAIN shown : shown[p].token # token

\* Before the factory has returned nothing has been read.
Fresh ==
  stage = "factory" => shown = <<>> /\ page = 0 /\ token = "none"

Walk == Chained /\ Asking /\ Fresh

-----------------------------------------------------------------------------
LEMMA InitWalk == Init => Walk
BY DEF Init, Walk, Chained, Asking, Fresh, NoPageTwice

\* One more page keeps the chain, if its token is the one being asked for.
LEMMA Extended ==
  ASSUME Walk, stage = "request",
         NEW users \in UserPages, NEW next \in Tokens \cup {"none", Bad},
         shown' = Append(shown, [token |-> token, users |-> users, next |-> next]),
         tokens \subseteq tokens'
  PROVE  Chained'
<1> DEFINE latest == [token |-> token, users |-> users, next |-> next]
<1>1. latest \in PageShown
  BY DEF PageShown, Walk, Asking
<1>2. shown \in Seq(PageShown)
  BY DEF Walk, Chained
<1>3. /\ shown' \in Seq(PageShown)
      /\ DOMAIN shown' = 1 .. Len(shown) + 1
      /\ shown'[Len(shown) + 1] = latest
      /\ \A p \in 1 .. Len(shown) : shown'[p] = shown[p]
  BY <1>1, <1>2
<1>4. DOMAIN shown = 1 .. Len(shown) /\ Len(shown) \in Nat
  BY <1>2
<1>5. \A p \in DOMAIN shown' : shown'[p].token \in tokens' \cup {"none"}
  BY <1>3, <1>4 DEF Walk, Chained, Asking
<1>6. ASSUME NEW p \in DOMAIN shown', p > 1
      PROVE  shown'[p].token = shown'[p - 1].next
  <2>1. CASE p \in DOMAIN shown
    BY <1>3, <1>4, <1>6, <2>1 DEF Walk, Chained, NoPageTwice
  <2>2. CASE p = Len(shown) + 1
    BY <1>2, <1>3, <1>4, <1>6, <2>2 DEF Walk, Asking
  <2>3. p \in DOMAIN shown \/ p = Len(shown) + 1
    BY <1>3, <1>4
  <2> QED
    BY <2>1, <2>2, <2>3
<1>7. ASSUME NEW p \in DOMAIN shown', NEW q \in DOMAIN shown',
             shown'[p].token = shown'[q].token
      PROVE  p = q
  BY <1>3, <1>4, <1>7 DEF Walk, Chained, NoPageTwice, Asking
<1> QED
  BY <1>3, <1>5, <1>6, <1>7 DEF Chained, NoPageTwice

LEMMA NextWalk == Walk /\ [Next]_vars => Walk'
<1> SUFFICES ASSUME Walk, [Next]_vars PROVE Walk'
  OBVIOUS
<1> USE DEF walk, found
<1>1. CASE Factory
  BY <1>1 DEF Factory, Walk, Chained, Asking, Fresh, NoPageTwice
<1>2. CASE Retry
  BY <1>2 DEF Retry, Walk, Chained, Asking, Fresh, NoPageTwice
<1>3. CASE PageFails
  <2>1. Chained'
    BY <1>3 DEF PageFails, Finish, Walk, Chained, NoPageTwice
  <2> QED
    BY <1>3, <2>1 DEF PageFails, Finish, Walk, Asking, Fresh
<1>4. ASSUME NEW users \in UserPages, NEW next \in Tokens \cup {"none", Bad},
             Page(users, next)
      PROVE  Walk'
  <2>1. /\ stage = "request"
        /\ shown' = Append(shown, [token |-> token, users |-> users, next |-> next])
    BY <1>4 DEF Page
  <2>2. \/ /\ PageEnds(users, next) = "more"
           /\ page' = page + 1 /\ token' = next /\ tokens' = tokens \cup {next}
           /\ stage' = stage
        \/ stage' \in {"done", "malformed"} /\ UNCHANGED walk
    BY <1>4 DEF Page, Finish
  <2>3. Chained'
    BY <2>1, <2>2, Extended
  <2>4. CASE stage' \in {"done", "malformed"}
    BY <2>3, <2>4 DEF Walk, Asking, Fresh
  <2>5. CASE PageEnds(users, next) = "more" /\ stage' = stage
             /\ page' = page + 1 /\ token' = next /\ tokens' = tokens \cup {next}
    <3>1. next # "none" /\ Acceptable(next)
      BY <2>5 DEF PageEnds
    <3>2. next \in Tokens /\ next \notin tokens
      BY <3>1 DEF Acceptable, Bad
    <3>3. shown \in Seq(PageShown)
      BY DEF Walk, Chained
    <3>4. /\ Len(shown') = Len(shown) + 1 /\ Len(shown) \in Nat
          /\ shown' # <<>>
          /\ shown'[Len(shown')].next = next /\ shown'[Len(shown')].token = token
          /\ \A p \in 1 .. Len(shown) : shown'[p] = shown[p]
          /\ DOMAIN shown' = 1 .. Len(shown) + 1 /\ DOMAIN shown = 1 .. Len(shown)
      BY <2>1, <3>3
    <3>5. \A p \in DOMAIN shown' : shown'[p].token # next
      BY <2>1, <3>1, <3>2, <3>4 DEF Walk, Chained, Asking
    <3>6. Asking'
      BY <2>1, <2>5, <3>2, <3>4, <3>5 DEF Walk, Asking
    <3> QED
      BY <2>1, <2>3, <2>5, <3>6 DEF Walk, Fresh
  <2> QED
    BY <2>2, <2>4, <2>5
<1>5. CASE UNCHANGED vars
  BY <1>5 DEF vars, Walk, Chained, Asking, Fresh, NoPageTwice
<1> QED
  BY <1>1, <1>2, <1>3, <1>4, <1>5 DEF Next

\* Each page is asked for by the token the page before it named, and none twice
\* (collect, lib.rs 196-210), for any server and any limits.
THEOREM NoPageReadTwice == Spec => []NoPageTwice
<1>1. Walk => NoPageTwice
  BY DEF Walk, Chained
<1> QED
  BY InitWalk, NextWalk, <1>1, PTL DEF Spec

-----------------------------------------------------------------------------
(***************************************************************************)
(* What the loop over the users of a page computes.  The library's         *)
(* induction takes an operator; this one takes the set of the numbers that *)
(* have the property, and rests on the least number that has not.          *)
(***************************************************************************)
\* A set of numbers that is not empty has a least one.
LEMMA Least ==
  ASSUME NEW T \in SUBSET Nat, T # {}
  PROVE  \E x \in T : \A y \in T : x <= y
<1> DEFINE R == {e \in Nat \X Nat : e[1] < e[2]}
<1>1. IsWellFoundedOn(R, Nat)
  BY NatLessThanWellFounded DEF OpToRel
<1>2. PICK x \in T : \A y \in T : <<y, x>> \notin R
  BY <1>1, WFMin
<1>3. ASSUME NEW y \in T PROVE x <= y
  <2>1. x \in Nat /\ y \in Nat
    OBVIOUS
  <2>2. ~(y < x)
    BY <1>2, <2>1
  <2> QED
    BY <2>1, <2>2
<1> QED
  BY <1>2, <1>3

\* Induction up to a bound.
LEMMA Induction ==
  ASSUME NEW N \in Nat, NEW S, 0 \in S, \A n \in 0 .. N - 1 : n \in S => n + 1 \in S
  PROVE 0 .. N \subseteq S
<1> SUFFICES ASSUME ~(0 .. N \subseteq S) PROVE FALSE
  OBVIOUS
<1> DEFINE T == (0 .. N) \ S
<1>1. T \in SUBSET Nat /\ T # {}
  OBVIOUS
<1>2. PICK x \in T : \A y \in T : x <= y
  BY <1>1, Least
<1>3. x \in 1 .. N /\ x - 1 \in 0 .. N - 1 /\ x - 1 \notin T
  BY <1>2
<1> QED
  BY <1>2, <1>3

\* What the loop starts from.
Start == [ids |-> ids, records |-> records, complete |-> complete]

\* The recursive definition of Walked has a solution.
LEMMA LoopExists ==
  ASSUME NEW users \in Seq(User)
  PROVE  \E after : after = [n \in 0 .. Len(users) |->
                               IF n = 0 THEN Start ELSE Turn(after[n - 1], users[n])]
<1> DEFINE Loop(k) == \E after : after = [n \in 0 .. k |->
                               IF n = 0 THEN Start ELSE Turn(after[n - 1], users[n])]
           S == {k \in 0 .. Len(users) : Loop(k)}
<1>1. Loop(0)
  <2>1. [n \in 0 .. 0 |-> Start]
          = [n \in 0 .. 0 |-> IF n = 0 THEN Start
                              ELSE Turn([i \in 0 .. 0 |-> Start][n - 1], users[n])]
    OBVIOUS
  <2> QED
    BY <2>1
<1>2. ASSUME NEW k \in 0 .. Len(users) - 1, Loop(k) PROVE Loop(k + 1)
  <2>1. PICK f : f = [n \in 0 .. k |-> IF n = 0 THEN Start ELSE Turn(f[n - 1], users[n])]
    BY <1>2
  <2> DEFINE g == [n \in 0 .. k + 1 |-> IF n = 0 THEN Start ELSE Turn(f[n - 1], users[n])]
             h == [n \in 0 .. k + 1 |-> IF n = 0 THEN Start ELSE Turn(g[n - 1], users[n])]
  <2>2. \A n \in 0 .. k : g[n] = f[n]
    <3>1. \A n \in 0 .. k : f[n] = IF n = 0 THEN Start ELSE Turn(f[n - 1], users[n])
      BY <2>1
    <3> QED
      BY <3>1
  <2>3. ASSUME NEW n \in 0 .. k + 1 PROVE g[n] = h[n]
    <3>1. CASE n = 0
      BY <3>1
    <3>2. CASE n # 0
      <4>1. n - 1 \in 0 .. k
        BY <3>2
      <4>2. g[n - 1] = f[n - 1]
        BY <4>1, <2>2
      <4> HIDE <2>2
      <4>3. g[n] = Turn(f[n - 1], users[n])
        BY <3>2
      <4>4. h[n] = Turn(g[n - 1], users[n])
        BY <3>2
      <4> QED
        BY <4>2, <4>3, <4>4
    <3> QED
      BY <3>1, <3>2
  <2>4. g = h
    BY <2>3
  <2> QED
    BY <2>4
<1>3. Len(users) \in Nat
  OBVIOUS
<1> HIDE DEF Loop
<1>4. 0 \in S /\ \A k \in 0 .. Len(users) - 1 : k \in S => k + 1 \in S
  BY <1>1, <1>2, <1>3
<1> HIDE DEF S
<1>5. 0 .. Len(users) \subseteq S
  BY <1>3, <1>4, Induction
<1>6. Loop(Len(users))
  BY <1>3, <1>5 DEF S
<1> QED
  BY <1>6 DEF Loop

\* And Walked is it.
LEMMA Loop ==
  ASSUME NEW users \in Seq(User)
  PROVE  \E after : /\ after[0] = Start
                    /\ \A n \in 1 .. Len(users) : after[n] = Turn(after[n - 1], users[n])
                    /\ Walked(users) = after[Len(users)]
<1> DEFINE after == CHOOSE after : after = [n \in 0 .. Len(users) |->
                       IF n = 0 THEN Start ELSE Turn(after[n - 1], users[n])]
<1>1. after = [n \in 0 .. Len(users) |-> IF n = 0 THEN Start ELSE Turn(after[n - 1], users[n])]
  BY LoopExists
<1>2. Walked(users) = after[Len(users)]
  BY DEF Walked, Start
<1> HIDE DEF after
<1>3. after[0] = Start /\ \A n \in 1 .. Len(users) : after[n] = Turn(after[n - 1], users[n])
  BY <1>1
<1> QED
  BY <1>2, <1>3

-----------------------------------------------------------------------------
\* No other of the first m users has the id of this one.
Alone(users, m, i) == \A j \in 1 .. m : users[j].id = users[i].id => j = i

\* All of them are in good form, each under an id of its own.
Spotless(users, m) == \A i \in 1 .. m : Alone(users, m, i) /\ users[i].record = "good"

\* A state of the loop is what the users so far say: who is alone with an id and has
\* a record is kept, nobody else is, and while nothing was wrong all of them are.
Exact(users, m, at) ==
  /\ at.ids = {users[i].id : i \in 1 .. m} \ {Bad}
  /\ DOMAIN at.records \subseteq at.ids
  /\ \A i \in 1 .. m :
       /\ users[i].id \in DOMAIN at.records <=> Alone(users, m, i) /\ users[i].record # "refused"
       /\ users[i].id \in DOMAIN at.records => at.records[users[i].id] = users[i].record
  /\ at.complete \in BOOLEAN
  /\ at.complete => Spotless(users, m)

\* Where there is no id there is no record either.
Fit(users) == \A i \in DOMAIN users : users[i].id = Bad => users[i].record = "refused"

LEMMA TurnExact ==
  ASSUME NEW users \in Seq(User), Fit(users), NEW m \in 0 .. Len(users) - 1,
         NEW at, Exact(users, m, at)
  PROVE  Exact(users, m + 1, Turn(at, users[m + 1]))
<1> DEFINE user == users[m + 1]
           next == Turn(at, user)
           others == {id \in DOMAIN at.records : id # user.id}
<1>1. /\ user \in User
      /\ user.id = Bad => user.record = "refused"
      /\ m + 1 \in 1 .. m + 1 /\ 1 .. m + 1 = 1 .. m \cup {m + 1} /\ m + 1 \notin 1 .. m
  BY DEF Fit
<1>2. user.record \in {"good", "flags", "refused"}
  BY <1>1 DEF User
<1>3. {users[i].id : i \in 1 .. m + 1} \ {Bad}
        = ({users[i].id : i \in 1 .. m} \ {Bad}) \cup ({user.id} \ {Bad})
  BY <1>1
<1>4. \A i \in 1 .. m : Alone(users, m + 1, i) <=> Alone(users, m, i) /\ users[i].id # user.id
  BY <1>1 DEF Alone
<1>5. Alone(users, m + 1, m + 1) <=> \A i \in 1 .. m : users[i].id # user.id
  BY <1>1 DEF Alone
<1>6. user.id # Bad => (user.id \in at.ids <=> \E i \in 1 .. m : users[i].id = user.id)
  BY DEF Exact
<1> HIDE DEF user
<1>7. CASE user.id # Bad /\ Known(at.ids, at.records, user.id)
  <2>1. /\ next.ids = at.ids /\ next.complete = FALSE
        /\ DOMAIN next.records = others /\ \A id \in others : next.records[id] = at.records[id]
    BY <1>7 DEF Turn
  <2>2. user.id \in at.ids /\ \E i \in 1 .. m : users[i].id = user.id
    BY <1>6, <1>7 DEF Known
  <2> HIDE DEF next
  <2>3. next.ids = {users[i].id : i \in 1 .. m + 1} \ {Bad}
    BY <1>3, <1>7, <2>1, <2>2 DEF Exact
  <2>4. DOMAIN next.records \subseteq next.ids
    BY <2>1 DEF Exact
  <2>5. ASSUME NEW i \in 1 .. m + 1
        PROVE  /\ users[i].id \in DOMAIN next.records
                    <=> Alone(users, m + 1, i) /\ users[i].record # "refused"
               /\ users[i].id \in DOMAIN next.records => next.records[users[i].id] = users[i].record
    <3>1. CASE i = m + 1
      BY <1>5, <2>1, <2>2, <3>1 DEF user
    <3>2. CASE i \in 1 .. m
      BY <1>4, <2>1, <3>2 DEF Exact
    <3> QED
      BY <1>1, <3>1, <3>2
  <2>6. Exact(users, m + 1, next)
    BY <2>1, <2>3, <2>4, <2>5 DEF Exact
  <2> QED
    BY <2>6 DEF next, user
<1>8. CASE ~(user.id # Bad /\ Known(at.ids, at.records, user.id))
  <2>1. /\ next.ids = at.ids \cup ({user.id} \ {Bad})
        /\ next.complete = (at.complete /\ ~Doubtful(user))
        /\ next.records = IF user.record = "refused" THEN at.records
                          ELSE [id \in others \cup {user.id} |->
                                  IF id = user.id THEN user.record ELSE at.records[id]]
    BY <1>8 DEF Turn
  <2>2. \A i \in 1 .. m : users[i].id # Bad => users[i].id # user.id
    BY <1>6, <1>8 DEF Known
  <2>3. user.id \notin DOMAIN at.records
    BY <1>6, <1>8 DEF Known, Exact
  <2> HIDE DEF next
  <2>4. /\ DOMAIN next.records = IF user.record = "refused" THEN DOMAIN at.records
                                 ELSE DOMAIN at.records \cup {user.id}
        /\ \A id \in DOMAIN at.records : next.records[id] = at.records[id]
        /\ user.record # "refused" => next.records[user.id] = user.record
    BY <2>1, <2>3
  <2>5. next.ids = {users[i].id : i \in 1 .. m + 1} \ {Bad}
    BY <1>3, <2>1 DEF Exact
  <2>6. DOMAIN next.records \subseteq next.ids
    BY <1>1, <2>1, <2>4 DEF Exact
  <2>7. ASSUME NEW i \in 1 .. m + 1
        PROVE  /\ users[i].id \in DOMAIN next.records
                    <=> Alone(users, m + 1, i) /\ users[i].record # "refused"
               /\ users[i].id \in DOMAIN next.records => next.records[users[i].id] = users[i].record
    <3>1. CASE i = m + 1
      <4>1. user.record # "refused" => Alone(users, m + 1, i)
        BY <1>1, <1>5, <2>2, <3>1
      <4> QED
        BY <2>3, <2>4, <3>1, <4>1 DEF user
    <3>2. CASE i \in 1 .. m /\ users[i].id = Bad
      <4>1. users[i].record = "refused"
        BY <3>2 DEF Fit
      <4>2. users[i].id \notin DOMAIN next.records
        BY <2>5, <2>6, <3>2
      <4> QED
        BY <4>1, <4>2
    <3>3. CASE i \in 1 .. m /\ users[i].id # Bad
      <4>1. users[i].id # user.id
        BY <2>2, <3>3
      <4>2. Alone(users, m + 1, i) <=> Alone(users, m, i)
        BY <1>4, <3>3, <4>1
      <4> QED
        BY <2>4, <3>3, <4>1, <4>2 DEF Exact
    <3> QED
      BY <1>1, <3>1, <3>2, <3>3
  <2>8. next.complete \in BOOLEAN
    BY <2>1
  <2>9. ASSUME next.complete, NEW i \in 1 .. m + 1
        PROVE  Alone(users, m + 1, i) /\ users[i].record = "good"
    <3>1. at.complete /\ user.record = "good"
      BY <2>1, <2>9 DEF Doubtful, Exact
    <3>2. \A k \in 1 .. m : Alone(users, m, k) /\ users[k].record = "good"
      BY <3>1 DEF Exact, Spotless
    <3>3. \A k \in 1 .. m : users[k].id # Bad
      BY <3>2 DEF Fit
    <3>4. CASE i = m + 1
      BY <1>5, <2>2, <3>1, <3>3, <3>4 DEF user
    <3>5. CASE i \in 1 .. m
      BY <1>4, <2>2, <3>2, <3>3, <3>5
    <3> QED
      BY <1>1, <3>4, <3>5
  <2>10. Exact(users, m + 1, next)
    BY <2>5, <2>6, <2>7, <2>8, <2>9 DEF Exact, Spotless
  <2> QED
    BY <2>10 DEF next, user
<1> QED
  BY <1>7, <1>8 DEF user

LEMMA SameExact ==
  ASSUME NEW users, NEW others, NEW m \in Nat, NEW at, Exact(users, m, at),
         \A i \in 1 .. m : others[i] = users[i]
  PROVE  Exact(others, m, at)
<1>1. {others[i].id : i \in 1 .. m} = {users[i].id : i \in 1 .. m}
  OBVIOUS
<1>2. \A i \in 1 .. m : Alone(others, m, i) <=> Alone(users, m, i)
  BY DEF Alone
<1> QED
  BY <1>1, <1>2 DEF Exact, Spotless

\* A page is taken row by row.
LEMMA WalkedExact ==
  ASSUME examined \in Seq(User), Exact(examined, Len(examined), Start),
         NEW users \in Seq(User), Fit(examined \o users)
  PROVE  Exact(examined \o users, Len(examined \o users), Walked(users))
<1> DEFINE all == examined \o users
           e == Len(examined)
<1>1. PICK after : /\ after[0] = Start
                   /\ \A n \in 1 .. Len(users) : after[n] = Turn(after[n - 1], users[n])
                   /\ Walked(users) = after[Len(users)]
  BY Loop
<1>2. /\ all \in Seq(User) /\ e \in Nat /\ Len(users) \in Nat /\ Len(all) = e + Len(users)
      /\ \A i \in 1 .. e : all[i] = examined[i]
      /\ \A n \in 1 .. Len(users) : all[e + n] = users[n]
  OBVIOUS
<1> DEFINE S == {n \in 0 .. Len(users) : Exact(all, e + n, after[n])}
<1> HIDE DEF all, e
<1>3. 0 \in S
  <2>1. Exact(all, e, after[0])
    BY <1>1, <1>2, SameExact DEF e
  <2>2. e + 0 = e /\ 0 \in 0 .. Len(users)
    BY <1>2
  <2> QED
    BY <2>1, <2>2
<1>4. ASSUME NEW n \in 0 .. Len(users) - 1, n \in S PROVE n + 1 \in S
  <2>1. /\ e + n \in 0 .. Len(all) - 1 /\ e + n + 1 = e + (n + 1)
        /\ n + 1 \in 1 .. Len(users) /\ n + 1 \in 0 .. Len(users) /\ (n + 1) - 1 = n
    BY <1>2
  <2>2. after[n + 1] = Turn(after[n], all[e + n + 1])
    BY <1>1, <1>2, <2>1
  <2>3. Exact(all, e + n + 1, after[n + 1])
    BY <1>2, <1>4, <2>1, <2>2, TurnExact DEF all
  <2> QED
    BY <2>1, <2>3
<1> HIDE DEF S
<1>5. Len(users) \in S
  <2>1. 0 .. Len(users) \subseteq S
    BY <1>2, <1>3, <1>4, Induction
  <2> QED
    BY <1>2, <2>1
<1> QED
  BY <1>1, <1>2, <1>5 DEF S, all

\* Once lost, the claim to be complete does not come back.
LEMMA WalkedComplete ==
  ASSUME NEW users \in Seq(User), complete \in BOOLEAN, Walked(users).complete
  PROVE  complete
<1>1. PICK after : /\ after[0] = Start
                   /\ \A n \in 1 .. Len(users) : after[n] = Turn(after[n - 1], users[n])
                   /\ Walked(users) = after[Len(users)]
  BY Loop
<1> SUFFICES ASSUME ~complete PROVE FALSE
  OBVIOUS
<1> DEFINE S == {n \in 0 .. Len(users) : ~after[n].complete}
<1>2. Len(users) \in Nat
  OBVIOUS
<1>3. 0 \in S
  BY <1>1, <1>2 DEF Start
<1>4. ASSUME NEW n \in 0 .. Len(users) - 1, n \in S PROVE n + 1 \in S
  <2>1. n + 1 \in 1 .. Len(users) /\ n + 1 \in 0 .. Len(users) /\ (n + 1) - 1 = n
    BY <1>2
  <2>2. after[n + 1] = Turn(after[n], users[n + 1])
    BY <1>1, <2>1
  <2>3. ~after[n].complete
    BY <1>4
  <2>4. ~Turn(after[n], users[n + 1]).complete
    BY <2>3 DEF Turn
  <2> QED
    BY <2>1, <2>2, <2>4
<1> HIDE DEF S
<1>5. Len(users) \in S
  <2>1. 0 .. Len(users) \subseteq S
    BY <1>2, <1>3, <1>4, Induction
  <2> QED
    BY <1>2, <2>1
<1> QED
  BY <1>1, <1>5 DEF S

\* Of a page that is not cut short every user is looked at.
LEMMA LookedUsers ==
  ASSUME NEW users \in Seq(User), rows \in Nat
  PROVE  /\ Looked(users) \in Seq(User)
         /\ \A i \in DOMAIN Looked(users) : i \in DOMAIN users /\ Looked(users)[i] = users[i]
         /\ Len(users) <= PageSize /\ rows + Len(users) <= MaxRows => Looked(users) = users
<1> DEFINE Last(n) == /\ n <= PageSize /\ n <= Remaining
                      /\ n = Len(users) \/ n = PageSize \/ n = Remaining
           taken == CHOOSE n \in 0 .. Len(users) : Last(n)
<1>1. PageSize \in Nat /\ MaxRows \in Nat /\ Remaining \in Nat /\ Len(users) \in Nat
  BY GoogleAssumption DEF Remaining
<1>2. \E n \in 0 .. Len(users) : Last(n)
  <2>1. CASE Len(users) <= PageSize /\ Len(users) <= Remaining
    BY <1>1, <2>1
  <2>2. CASE PageSize <= Len(users) /\ PageSize <= Remaining
    BY <1>1, <2>2
  <2>3. CASE Remaining <= Len(users) /\ Remaining <= PageSize
    BY <1>1, <2>3
  <2> QED
    BY <1>1, <2>1, <2>2, <2>3
<1>3. taken \in 0 .. Len(users) /\ Last(taken)
  BY <1>2
<1>4. Looked(users) = SubSeq(users, 1, taken)
  BY DEF Looked
<1> HIDE DEF taken
<1>5. /\ Looked(users) \in Seq(User) /\ Len(Looked(users)) = taken
      /\ \A i \in 1 .. taken : Looked(users)[i] = users[i]
  BY <1>1, <1>3, <1>4
<1>6. ASSUME Len(users) <= PageSize, rows + Len(users) <= MaxRows PROVE Looked(users) = users
  <2>1. Len(users) <= Remaining
    BY <1>1, <1>6 DEF Remaining
  <2>2. taken = Len(users)
    BY <1>1, <1>3, <1>6, <2>1
  <2> QED
    BY <1>4, <2>2
<1> QED
  BY <1>1, <1>3, <1>5, <1>6

-----------------------------------------------------------------------------
\* The snapshot is what the users looked at say, and while it calls itself complete
\* those are all users of all pages.
Taken ==
  /\ examined \in Seq(User) /\ Fit(examined)
  /\ Exact(examined, Len(examined), Start)
  /\ complete =>
       \A p \in DOMAIN shown : \A i \in DOMAIN shown[p].users :
         \E j \in DOMAIN examined : examined[j] = shown[p].users[i]
  /\ complete /\ stage = "done" => shown # <<>> /\ shown[Len(shown)].next = "none"

LEMMA InitTaken == Init => Taken
BY DEF Init, Taken, Fit, Exact, Spotless, Start

LEMMA PageTakes ==
  ASSUME Walk, Taken, rows \in Nat,
         NEW users \in UserPages, NEW next \in Tokens \cup {"none", Bad}, Page(users, next)
  PROVE  Taken'
<1> DEFINE all == examined \o Looked(users)
<1>1. /\ users \in Seq(User)
      /\ \A i \in DOMAIN users : users[i].id = Bad => users[i].record = "refused"
  BY GoogleAssumption
<1>2. /\ Looked(users) \in Seq(User)
      /\ \A i \in DOMAIN Looked(users) : i \in DOMAIN users /\ Looked(users)[i] = users[i]
      /\ Len(users) <= PageSize /\ rows + Len(users) <= MaxRows => Looked(users) = users
  BY <1>1, LookedUsers
<1>3. examined \in Seq(User) /\ Fit(examined) /\ Exact(examined, Len(examined), Start)
  BY DEF Taken
<1>4. /\ all \in Seq(User) /\ DOMAIN all = 1 .. Len(examined) + Len(Looked(users))
      /\ \A i \in 1 .. Len(examined) : all[i] = examined[i]
      /\ \A i \in 1 .. Len(Looked(users)) : all[Len(examined) + i] = Looked(users)[i]
      /\ \A i \in 1 .. Len(examined) + Len(Looked(users)) :
           i \in 1 .. Len(examined) \/ i - Len(examined) \in 1 .. Len(Looked(users))
      /\ DOMAIN examined = 1 .. Len(examined)
      /\ DOMAIN Looked(users) = 1 .. Len(Looked(users))
      /\ Len(examined) \in Nat /\ Len(Looked(users)) \in Nat
  BY <1>2, <1>3
<1>5. Fit(all)
  <2>1. ASSUME NEW i \in DOMAIN all, all[i].id = Bad PROVE all[i].record = "refused"
    <3>1. CASE i \in 1 .. Len(examined)
      BY <1>3, <1>4, <2>1, <3>1 DEF Fit
    <3>2. CASE i - Len(examined) \in 1 .. Len(Looked(users))
      <4> DEFINE k == i - Len(examined)
      <4>1. all[i] = Looked(users)[k] /\ k \in DOMAIN Looked(users)
        BY <1>4, <3>2
      <4> QED
        BY <1>1, <1>2, <2>1, <4>1
    <3> QED
      BY <1>4, <3>1, <3>2
  <2> QED
    BY <2>1 DEF Fit
<1>6. Exact(all, Len(all), Walked(Looked(users)))
  BY <1>2, <1>3, <1>5, WalkedExact
<1> HIDE DEF all
<1>7. /\ examined' = all /\ stage = "request"
      /\ ids' = Walked(Looked(users)).ids /\ records' = Walked(Looked(users)).records
      /\ complete' = (Walked(Looked(users)).complete /\ PageEnds(users, next) # "cut")
      /\ shown' = Append(shown, [token |-> token, users |-> users, next |-> next])
      /\ IF PageEnds(users, next) = "more" THEN stage' = stage
         ELSE stage' \in {"done", "malformed"}
  BY DEF Page, Finish, all
<1>8. Exact(examined', Len(examined'), Start')
  BY <1>6, <1>7 DEF Exact, Start
<1>9. complete' => complete
  <2>1. complete \in BOOLEAN
    BY <1>3 DEF Exact, Start
  <2> QED
    BY <1>2, <1>7, <2>1, WalkedComplete
<1>10. shown \in Seq(PageShown) /\ [token |-> token, users |-> users, next |-> next] \in PageShown
  BY <1>7 DEF Walk, Chained, Asking, PageShown
<1>11. /\ Len(shown') = Len(shown) + 1 /\ shown' # <<>> /\ DOMAIN shown' = 1 .. Len(shown) + 1
       /\ shown'[Len(shown) + 1].users = users /\ shown'[Len(shown) + 1].next = next
       /\ \A p \in 1 .. Len(shown) : shown'[p] = shown[p]
       /\ DOMAIN shown = 1 .. Len(shown) /\ Len(shown) \in Nat
  BY <1>7, <1>10
<1>12. ASSUME complete', NEW p \in DOMAIN shown', NEW i \in DOMAIN shown'[p].users
       PROVE  \E j \in DOMAIN all : all[j] = shown'[p].users[i]
  <2>1. CASE p = Len(shown) + 1
    <3>1. PageEnds(users, next) # "cut"
      BY <1>7, <1>12
    <3>2. Len(users) <= PageSize /\ rows + Len(users) <= MaxRows
      BY <1>1, <3>1, GoogleAssumption DEF PageEnds
    <3>3. Looked(users) = users
      BY <1>2, <3>2
    <3>4. i \in 1 .. Len(Looked(users)) /\ shown'[p].users[i] = Looked(users)[i]
      BY <1>4, <1>11, <2>1, <3>3
    <3>5. Len(examined) + i \in DOMAIN all /\ all[Len(examined) + i] = shown'[p].users[i]
      BY <1>4, <3>4
    <3> QED
      BY <3>5
  <2>2. CASE p \in 1 .. Len(shown)
    <3>1. PICK j \in DOMAIN examined : examined[j] = shown[p].users[i]
      BY <1>9, <1>11, <1>12, <2>2 DEF Taken
    <3>2. j \in DOMAIN all /\ all[j] = shown'[p].users[i]
      BY <1>4, <1>11, <2>2, <3>1
    <3> QED
      BY <3>2
  <2> QED
    BY <1>11, <2>1, <2>2
<1>13. ASSUME complete', stage' = "done" PROVE shown'[Len(shown')].next = "none"
  <2>1. PageEnds(users, next) = "whole"
    BY <1>7, <1>13 DEF PageEnds
  <2>2. next = "none"
    BY <2>1 DEF PageEnds
  <2> QED
    BY <1>11, <2>2
<1> QED
  BY <1>4, <1>5, <1>7, <1>8, <1>11, <1>12, <1>13 DEF Taken

\* The budget of rows is looked at before a page is asked for, and only the last page
\* can have gone beyond it.
Charged ==
  /\ stage \in {"factory", "request", "done", "failed", "malformed"}
  /\ page \in 0 .. MaxPages - 1 /\ attempt \in 0 .. 2
  /\ token \in Tokens \cup {"none"} /\ tokens \subseteq Tokens
  /\ rows \in Nat
  /\ rows <= MaxRows \/ stage \in {"done", "malformed"}

Whole == Walk /\ Taken /\ Charged

LEMMA NextWhole == Whole /\ [Next]_vars => Whole'
<1> SUFFICES ASSUME Whole, [Next]_vars PROVE Taken' /\ Charged'
  BY NextWalk DEF Whole
<1> USE DEF walk, found
<1>1. CASE Factory
  <2>1. /\ stage = "factory" /\ stage' \in {"request", "failed"}
        /\ UNCHANGED <<page, attempt, token, tokens, ids, records, rows, complete, shown, examined>>
    BY <1>1 DEF Factory
  <2> QED
    BY <2>1 DEF Whole, Taken, Charged, Exact, Spotless, Start, Fit
<1>2. CASE Retry
  BY <1>2 DEF Retry, Whole, Taken, Charged, Exact, Spotless, Start, Fit
<1>3. CASE PageFails
  <2>1. /\ stage = "request" /\ UNCHANGED <<walk, ids, records, rows, shown, examined>>
        /\ \/ stage' = "failed" /\ complete' = complete
           \/ stage' \in {"done", "malformed"} /\ complete' = FALSE
    BY <1>3 DEF PageFails, Finish
  <2>2. Exact(examined, Len(examined), Start')
    BY <2>1 DEF Whole, Taken, Exact, Start
  <2>3. Taken'
    BY <2>1, <2>2 DEF Whole, Taken, Fit
  <2> QED
    BY <2>1, <2>3 DEF Whole, Charged
<1>4. ASSUME NEW users \in UserPages, NEW next \in Tokens \cup {"none", Bad},
             Page(users, next)
      PROVE  Taken' /\ Charged'
  <2>1. Taken'
    BY <1>4, PageTakes DEF Whole, Charged
  <2>2. users \in Seq(User) /\ Len(users) \in Nat /\ MaxPages \in Nat \ {0} /\ MaxRows \in Nat
    BY GoogleAssumption
  <2>3. /\ stage = "request" /\ rows' = rows + Len(users)
        /\ IF PageEnds(users, next) = "more"
           THEN /\ page' = page + 1 /\ attempt' = 0
                /\ token' = next /\ tokens' = tokens \cup {next} /\ stage' = stage
           ELSE /\ stage' \in {"done", "malformed"}
                /\ UNCHANGED <<page, attempt, token, tokens>>
    BY <1>4 DEF Page, Finish
  <2>4. CASE PageEnds(users, next) = "more"
    <3>1. /\ rows + Len(users) <= MaxRows /\ next # "none" /\ next # Bad
          /\ page + 1 # MaxPages
      BY <2>2, <2>4 DEF PageEnds, Acceptable, LastAllowed, Whole, Charged
    <3> QED
      BY <2>1, <2>2, <2>3, <2>4, <3>1 DEF Whole, Charged
  <2>5. CASE PageEnds(users, next) # "more"
    BY <2>1, <2>2, <2>3, <2>5 DEF Whole, Charged
  <2> QED
    BY <2>4, <2>5
<1>5. CASE UNCHANGED vars
  BY <1>5 DEF vars, Whole, Taken, Charged, Exact, Spotless, Start, Fit
<1> QED
  BY <1>1, <1>2, <1>3, <1>4, <1>5 DEF Next

LEMMA WholeInvariant == Spec => []Whole
<1>1. Init => Whole
  BY InitWalk, InitTaken, GoogleAssumption DEF Init, Whole, Charged
<1> QED
  BY <1>1, NextWhole, PTL DEF Spec

\* The variables keep their types: pages and attempts within their limits, and rows
\* beyond theirs only in a discovery that is over.
THEOREM TypeCorrect == Spec => []TypeOK
<1>1. Whole => TypeOK
  <2> SUFFICES ASSUME Whole PROVE TypeOK
    OBVIOUS
  <2>1. examined \in Seq(User) /\ Exact(examined, Len(examined), Start)
    BY DEF Whole, Taken
  <2>2. /\ ids = {examined[i].id : i \in 1 .. Len(examined)} \ {Bad}
        /\ DOMAIN records \subseteq ids /\ complete \in BOOLEAN
        /\ \A i \in 1 .. Len(examined) : examined[i].id \in DOMAIN records =>
             examined[i].record # "refused" /\ records[examined[i].id] = examined[i].record
    BY <2>1 DEF Exact, Start
  <2>3. \A i \in 1 .. Len(examined) : examined[i] \in User
    BY <2>1
  <2>4. ids \subseteq Ids
    BY <2>2, <2>3 DEF User
  <2>5. ASSUME NEW id \in DOMAIN records PROVE records[id] \in {"good", "flags"}
    <3>1. PICK i \in 1 .. Len(examined) : examined[i].id = id
      BY <2>2
    <3> QED
      BY <2>2, <2>3, <3>1 DEF User
  <2> QED
    BY <2>2, <2>4, <2>5 DEF Whole, Charged, TypeOK
<1> QED
  BY <1>1, WholeInvariant, PTL

\* For any pages, in any order: exactly the users with an acceptable record and an id
\* of their own are kept, whichever page takes the claim back (collect, lib.rs 166-192).
THEOREM RecordsExact == Spec => []RecordsAreExact
<1>1. Whole => RecordsAreExact
  <2> SUFFICES ASSUME Whole, NEW id \in Ids
               PROVE  IF \E i \in Occurrences(id) : /\ Occurrences(id) = {i}
                                                    /\ examined[i].record # "refused"
                      THEN /\ id \in DOMAIN records
                           /\ \A i \in Occurrences(id) : records[id] = examined[i].record
                      ELSE id \notin DOMAIN records
    BY DEF RecordsAreExact
  <2>1. /\ examined \in Seq(User) /\ Exact(examined, Len(examined), Start)
        /\ DOMAIN examined = 1 .. Len(examined)
    BY DEF Whole, Taken
  <2>2. /\ DOMAIN records \subseteq {examined[i].id : i \in 1 .. Len(examined)}
        /\ \A i \in 1 .. Len(examined) :
             /\ examined[i].id \in DOMAIN records
                  <=> Alone(examined, Len(examined), i) /\ examined[i].record # "refused"
             /\ examined[i].id \in DOMAIN records =>
                  records[examined[i].id] = examined[i].record
    BY <2>1 DEF Exact, Start
  <2>3. \A i \in 1 .. Len(examined) :
          examined[i].id = id => (Alone(examined, Len(examined), i) <=> Occurrences(id) = {i})
    BY <2>1 DEF Alone, Occurrences
  <2>4. \A i : i \in Occurrences(id) <=> i \in 1 .. Len(examined) /\ examined[i].id = id
    BY <2>1 DEF Occurrences
  <2>5. id \in DOMAIN records => \E i \in Occurrences(id) : TRUE
    BY <2>2, <2>4
  <2> QED
    BY <2>2, <2>3, <2>4, <2>5
<1> QED
  BY <1>1, WholeInvariant, PTL

\* A complete snapshot has every user of every page, in good form, up to the page that
\* named no further one (collect, lib.rs 166-215), whatever the limits.
THEOREM CompleteWhole == Spec => []CompleteIsWhole
<1>1. Whole => CompleteIsWhole
  <2> SUFFICES ASSUME Whole, stage = "done", complete
               PROVE  /\ shown[Len(shown)].next = "none"
                      /\ \A p \in DOMAIN shown : \A i \in DOMAIN shown[p].users :
                           /\ shown[p].users[i].id \in DOMAIN records
                           /\ records[shown[p].users[i].id] = "good"
    BY DEF CompleteIsWhole
  <2>1. shown[Len(shown)].next = "none" /\ DOMAIN examined = 1 .. Len(examined)
    BY DEF Whole, Taken
  <2>2. \A j \in 1 .. Len(examined) :
          examined[j].id \in DOMAIN records /\ records[examined[j].id] = "good"
    BY DEF Whole, Taken, Exact, Spotless, Start
  <2>3. ASSUME NEW p \in DOMAIN shown, NEW i \in DOMAIN shown[p].users
        PROVE  /\ shown[p].users[i].id \in DOMAIN records
               /\ records[shown[p].users[i].id] = "good"
    <3>1. PICK j \in DOMAIN examined : examined[j] = shown[p].users[i]
      BY DEF Whole, Taken
    <3> QED
      BY <2>1, <2>2, <3>1
  <2> QED
    BY <2>1, <2>3
<1> QED
  BY <1>1, WholeInvariant, PTL

-----------------------------------------------------------------------------
(***************************************************************************)
(* What is not called incomplete.                                          *)
(***************************************************************************)
\* Of users without a flaw none costs the claim to be complete.
LEMMA TurnSpotless ==
  ASSUME NEW users \in Seq(User), Fit(users), NEW m \in 0 .. Len(users) - 1,
         NEW at, Exact(users, m, at), at.complete, Spotless(users, Len(users))
  PROVE  Turn(at, users[m + 1]).complete
<1> DEFINE user == users[m + 1]
<1>1. /\ m + 1 \in 1 .. Len(users) /\ DOMAIN users = 1 .. Len(users)
      /\ 1 .. m \subseteq 1 .. Len(users) /\ m + 1 \notin 1 .. m
  OBVIOUS
<1>2. user.record = "good" /\ \A i \in 1 .. m : users[i].id # user.id
  BY <1>1 DEF Spotless, Alone
<1>3. user.id # Bad
  BY <1>1, <1>2 DEF Fit
<1>4. user.id \notin at.ids
  BY <1>2 DEF Exact
<1> HIDE DEF user
<1>5. Turn(at, user).complete = (at.complete /\ ~Doubtful(user))
  BY <1>4 DEF Turn, Known
<1> QED
  BY <1>2, <1>5 DEF Doubtful, user

LEMMA WalkedSpotless ==
  ASSUME examined \in Seq(User), Exact(examined, Len(examined), Start), complete,
         NEW users \in Seq(User), Fit(examined \o users),
         Spotless(examined \o users, Len(examined \o users))
  PROVE  Walked(users).complete
<1> DEFINE all == examined \o users
           e == Len(examined)
<1>1. PICK after : /\ after[0] = Start
                   /\ \A n \in 1 .. Len(users) : after[n] = Turn(after[n - 1], users[n])
                   /\ Walked(users) = after[Len(users)]
  BY Loop
<1>2. /\ all \in Seq(User) /\ e \in Nat /\ Len(users) \in Nat /\ Len(all) = e + Len(users)
      /\ \A i \in 1 .. e : all[i] = examined[i]
      /\ \A n \in 1 .. Len(users) : all[e + n] = users[n]
  OBVIOUS
<1> DEFINE S == {n \in 0 .. Len(users) : Exact(all, e + n, after[n]) /\ after[n].complete}
<1> HIDE DEF all, e
<1>3. 0 \in S
  <2>1. Exact(all, e, after[0])
    BY <1>1, <1>2, SameExact DEF e
  <2>2. e + 0 = e /\ 0 \in 0 .. Len(users) /\ after[0].complete
    BY <1>1, <1>2 DEF Start
  <2> QED
    BY <2>1, <2>2
<1>4. ASSUME NEW n \in 0 .. Len(users) - 1, n \in S PROVE n + 1 \in S
  <2>1. /\ e + n \in 0 .. Len(all) - 1 /\ e + n + 1 = e + (n + 1)
        /\ n + 1 \in 1 .. Len(users) /\ n + 1 \in 0 .. Len(users) /\ (n + 1) - 1 = n
    BY <1>2
  <2>2. after[n + 1] = Turn(after[n], all[e + n + 1])
    BY <1>1, <1>2, <2>1
  <2>3. Exact(all, e + n + 1, after[n + 1])
    BY <1>2, <1>4, <2>1, <2>2, TurnExact DEF all
  <2>4. after[n + 1].complete
    BY <1>2, <1>4, <2>1, <2>2, TurnSpotless DEF all
  <2> QED
    BY <2>1, <2>3, <2>4
<1> HIDE DEF S
<1>5. Len(users) \in S
  <2>1. 0 .. Len(users) \subseteq S
    BY <1>2, <1>3, <1>4, Induction
  <2> QED
    BY <1>2, <2>1
<1> QED
  BY <1>1, <1>5 DEF S

\* While pages are asked for, nothing but a flaw of a user has cost the claim to be
\* complete, and each page so far has named another.
Reported ==
  /\ stage \in {"factory", "request"} /\ Spotless(examined, Len(examined)) => complete
  /\ stage = "request" /\ shown # <<>> => shown[Len(shown)].next # "none"
  /\ WholeIsComplete

LEMMA PageReported ==
  ASSUME Whole, Reported,
         NEW users \in UserPages, NEW next \in Tokens \cup {"none", Bad}, Page(users, next)
  PROVE  Reported'
<1> DEFINE all == examined \o Looked(users)
<1>1. /\ users \in Seq(User) /\ Len(users) \in Nat /\ PageSize \in Nat /\ MaxRows \in Nat
      /\ rows \in Nat
  BY GoogleAssumption DEF Whole, Charged
<1>2. /\ Looked(users) \in Seq(User)
      /\ Len(users) <= PageSize /\ rows + Len(users) <= MaxRows => Looked(users) = users
  BY <1>1, LookedUsers
<1>3. /\ examined \in Seq(User) /\ Exact(examined, Len(examined), Start)
      /\ complete \in BOOLEAN
  BY DEF Whole, Taken, Exact, Start
<1>4. Taken'
  BY PageTakes, <1>1 DEF Whole
<1>5. /\ examined' = all /\ stage = "request" /\ rows' = rows + Len(users)
      /\ complete' = (Walked(Looked(users)).complete /\ PageEnds(users, next) # "cut")
      /\ shown' = Append(shown, [token |-> token, users |-> users, next |-> next])
      /\ IF PageEnds(users, next) = "more" THEN stage' = stage
         ELSE stage' \in {"done", "malformed"}
  BY DEF Page, Finish
<1>6. Fit(all)
  BY <1>4, <1>5 DEF Taken, Fit
<1>7. ASSUME Spotless(all, Len(all)) PROVE Walked(Looked(users)).complete
  <2>1. /\ Len(examined) \in Nat /\ Len(all) \in Nat /\ Len(examined) <= Len(all)
        /\ \A i \in 1 .. Len(examined) : all[i] = examined[i] /\ i \in 1 .. Len(all)
    BY <1>2, <1>3
  <2> HIDE DEF all
  <2>2. Spotless(examined, Len(examined))
    BY <1>7, <2>1 DEF Spotless, Alone
  <2>3. complete
    BY <1>5, <2>2 DEF Reported
  <2> QED
    BY <1>2, <1>3, <1>6, <1>7, <2>3, WalkedSpotless DEF all
<1> HIDE DEF all
<1>8. shown \in Seq(PageShown) /\ [token |-> token, users |-> users, next |-> next] \in PageShown
  BY <1>5 DEF Whole, Walk, Chained, Asking, PageShown
<1>9. /\ Len(shown') = Len(shown) + 1 /\ shown'[Len(shown')].next = next
      /\ Len(shown') \in DOMAIN shown' /\ shown'[Len(shown')].users = users
  BY <1>5, <1>8
<1>10. all \in Seq(User) /\ DOMAIN all = 1 .. Len(all)
  BY <1>2, <1>3 DEF all
<1>11. CASE PageEnds(users, next) = "more"
  <2>1. next # "none"
    BY <1>11 DEF PageEnds
  <2> QED
    BY <1>5, <1>7, <1>9, <1>11, <2>1 DEF Reported, WholeIsComplete
<1>12. CASE PageEnds(users, next) # "more"
  <2>1. stage' \in {"done", "malformed"}
    BY <1>5, <1>12
  <2>2. ASSUME next = "none", rows + Len(users) <= MaxRows, Len(users) <= PageSize
        PROVE  PageEnds(users, next) # "cut"
    BY <1>1, <2>2 DEF PageEnds
  <2>3. ASSUME \A i, j \in DOMAIN all :
                 all[i].record = "good" /\ (all[i].id = all[j].id => i = j)
        PROVE  Spotless(all, Len(all))
    BY <1>10, <2>3 DEF Spotless, Alone
  <2>4. WholeIsComplete'
    BY <1>5, <1>7, <1>9, <2>2, <2>3 DEF WholeIsComplete
  <2> QED
    BY <2>1, <2>4 DEF Reported
<1> QED
  BY <1>11, <1>12

LEMMA NextReported == Whole /\ Reported /\ [Next]_vars => Reported'
<1> SUFFICES ASSUME Whole, Reported, [Next]_vars PROVE Reported'
  OBVIOUS
<1> USE DEF walk, found
<1>1. CASE Factory
  BY <1>1 DEF Factory, Reported, WholeIsComplete, Spotless, Alone, Whole, Walk, Fresh
<1>2. CASE Retry
  BY <1>2 DEF Retry, Reported, WholeIsComplete, Spotless, Alone
<1>3. CASE PageFails
  <2>1. stage = "request" /\ stage' \in {"failed", "done", "malformed"} /\ shown' = shown
    BY <1>3 DEF PageFails, Finish
  <2> QED
    BY <2>1 DEF Reported, WholeIsComplete
<1>4. ASSUME NEW users \in UserPages, NEW next \in Tokens \cup {"none", Bad},
             Page(users, next)
      PROVE  Reported'
  BY <1>4, PageReported
<1>5. CASE UNCHANGED vars
  BY <1>5 DEF vars, Reported, WholeIsComplete, Spotless, Alone
<1> QED
  BY <1>1, <1>2, <1>3, <1>4, <1>5 DEF Next

\* A walk that met nothing wrong is called complete, on its last page and with its
\* last row as well (collect, lib.rs 192-214), whatever the limits are.
THEOREM WholeReported == Spec => []WholeIsComplete
<1>1. Init => Reported
  BY DEF Init, Reported, WholeIsComplete
<1>2. Reported => WholeIsComplete
  BY DEF Reported
<1> QED
  BY WholeInvariant, NextReported, <1>1, <1>2, PTL DEF Spec

=============================================================================
