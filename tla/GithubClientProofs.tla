------------------------- MODULE GithubClientProofs -------------------------
(***************************************************************************)
(* Theorems about GithubClient: whatever GitHub answers, however often a   *)
(* request is retried and whichever budget ends, each list holds the rows  *)
(* of its pages in order, and what is charged is what was kept and asked   *)
(* for.                                                                    *)
(*                                                                         *)
(* The properties speak of flattened sequences, which the community        *)
(* modules define by a recursive function; what is needed of it comes      *)
(* first, by induction up to the length of a sequence.                     *)
(***************************************************************************)
EXTENDS GithubClient, WellFoundedInduction, TLAPS

\* A set of numbers that is not empty has a least one.
LEMMA Least ==
  ASSUME NEW T \in SUBSET Nat, T # {}
  PROVE  \E x \in T : \A y \in T : x <= y
<1> DEFINE R == {e \in Nat \X Nat : e[1] < e[2]}
<1>1. IsWellFoundedOn(R, Nat)
  BY NatLessThanWellFounded DEF OpToRel
<1>2. PICK x \in T : \A y \in T : <<y, x>> \notin R
  BY <1>1, WFMin
<1>3. ASSUME NEW y \in T PROVE x <= y
  <2>1. x \in Nat /\ y \in Nat
    OBVIOUS
  <2>2. ~(y < x)
    BY <1>2, <2>1
  <2> QED
    BY <2>1, <2>2
<1> QED
  BY <1>2, <1>3

\* Induction up to a bound.
LEMMA Induction ==
  ASSUME NEW N \in Nat, NEW S, 0 \in S, \A n \in 0 .. N - 1 : n \in S => n + 1 \in S
  PROVE 0 .. N \subseteq S
<1> SUFFICES ASSUME ~(0 .. N \subseteq S) PROVE FALSE
  OBVIOUS
<1> DEFINE T == (0 .. N) \ S
<1>1. T \in SUBSET Nat /\ T # {}
  OBVIOUS
<1>2. PICK x \in T : \A y \in T : x <= y
  BY <1>1, Least
<1>3. x \in 1 .. N /\ x - 1 \in 0 .. N - 1 /\ x - 1 \notin T
  BY <1>2
<1> QED
  BY <1>2, <1>3
-----------------------------------------------------------------------------
(***************************************************************************)
(* Flattened sequences.                                                    *)
(***************************************************************************)
\* f[i] is the first i members of s, one after the other.
Flattens(f, s, n) ==
  f = [i \in 1 .. n |-> IF i = 1 THEN s[i] ELSE f[i - 1] \o s[i]]

LEMMA FlattensAt ==
  ASSUME NEW s, NEW n \in Nat, NEW f, Flattens(f, s, n)
  PROVE  \A i \in 1 .. n : f[i] = IF i = 1 THEN s[i] ELSE f[i - 1] \o s[i]
<1> DEFINE g == [i \in 1 .. n |-> IF i = 1 THEN s[i] ELSE f[i - 1] \o s[i]]
<1>1. f = g
  BY DEF Flattens
<1>2. \A i \in 1 .. n : g[i] = IF i = 1 THEN s[i] ELSE f[i - 1] \o s[i]
  OBVIOUS
<1> HIDE DEF g
<1> QED
  BY <1>1, <1>2

LEMMA FlattensExists ==
  ASSUME NEW s, NEW N \in Nat
  PROVE  \E f : Flattens(f, s, N)
<1> DEFINE S == {k \in 0 .. N : \E f : Flattens(f, s, k)}
<1>1. 0 \in S
  <2>1. Flattens([i \in 1 .. 0 |-> 0], s, 0)
    <3>1. \A f : [i \in 1 .. 0 |-> IF i = 1 THEN s[i] ELSE f[i - 1] \o s[i]] = [i \in 1 .. 0 |-> 0]
      OBVIOUS
    <3> QED
      BY <3>1 DEF Flattens
  <2> QED
    BY <2>1
<1>2. ASSUME NEW k \in 0 .. N - 1, k \in S PROVE k + 1 \in S
  <2>1. PICK f : Flattens(f, s, k)
    BY <1>2
  <2> DEFINE e(i, f_) == IF i = 1 THEN s[i] ELSE f_[i - 1] \o s[i]
             g == [i \in 1 .. k + 1 |-> e(i, f)]
             h == [i \in 1 .. k + 1 |-> e(i, g)]
  <2>2. \A i \in 1 .. k : f[i] = e(i, f)
    BY <2>1, FlattensAt
  <2>3. \A i \in 1 .. k : g[i] = f[i]
    BY <2>2
  <2>4. ASSUME NEW i \in 1 .. k + 1 PROVE e(i, f) = e(i, g)
    <3>1. CASE i = 1
      BY <3>1
    <3>2. CASE i # 1
      <4>1. i - 1 \in 1 .. k
        BY <3>2
      <4>2. g[i - 1] = f[i - 1]
        BY <4>1, <2>3
      <4> HIDE DEF g
      <4> QED
        BY <4>2
    <3> QED
      BY <3>1, <3>2
  <2>5. g = h
    BY <2>4
  <2>6. Flattens(g, s, k + 1)
    BY <2>5 DEF Flattens
  <2> QED
    BY <2>6
<1>3. 0 .. N \subseteq S
  <2> HIDE DEF S
  <2> QED
    BY <1>1, <1>2, Induction
<1> QED
  BY <1>3

\* Sequences that begin alike are flattened alike.
LEMMA FlattensAlike ==
  ASSUME NEW s, NEW t, NEW m \in Nat, NEW n \in Nat, m <= n, NEW f, NEW g,
         Flattens(f, s, m), Flattens(g, t, n), \A i \in 1 .. m : s[i] = t[i]
  PROVE  \A i \in 1 .. m : f[i] = g[i]
<1> DEFINE S == {k \in 0 .. m : k = 0 \/ f[k] = g[k]}
<1>1. 0 \in S
  OBVIOUS
<1>2. ASSUME NEW k \in 0 .. m - 1, k \in S PROVE k + 1 \in S
  <2>1. k + 1 \in 1 .. m /\ k + 1 \in 1 .. n /\ (k + 1) - 1 = k /\ (k + 1 = 1 <=> k = 0)
    OBVIOUS
  <2>2. f[k + 1] = IF k + 1 = 1 THEN s[k + 1] ELSE f[(k + 1) - 1] \o s[k + 1]
    BY <2>1, FlattensAt
  <2>3. g[k + 1] = IF k + 1 = 1 THEN t[k + 1] ELSE g[(k + 1) - 1] \o t[k + 1]
    BY <2>1, FlattensAt
  <2>4. s[k + 1] = t[k + 1]
    BY <2>1
  <2>5. f[k + 1] = g[k + 1]
    <3>1. CASE k = 0
      BY <2>1, <2>2, <2>3, <2>4, <3>1
    <3>2. CASE k # 0
      <4>1. f[k] = g[k]
        BY <1>2, <3>2
      <4> QED
        BY <2>1, <2>2, <2>3, <2>4, <3>2, <4>1
    <3> QED
      BY <3>1, <3>2
  <2> QED
    BY <2>1, <2>5
<1>3. 0 .. m \subseteq S
  <2> HIDE DEF S
  <2> QED
    BY <1>1, <1>2, Induction
<1> QED
  BY <1>3

LEMMA FlattenSeqIs ==
  ASSUME NEW T, NEW s \in Seq(T)
  PROVE  /\ Len(s) = 0 => FlattenSeq(s) = <<>>
         /\ Len(s) # 0 => \E f : Flattens(f, s, Len(s)) /\ FlattenSeq(s) = f[Len(s)]
<1>1. Len(s) \in Nat
  OBVIOUS
<1> DEFINE F == CHOOSE f : Flattens(f, s, Len(s))
<1>2. Flattens(F, s, Len(s))
  BY <1>1, FlattensExists
<1>3. Len(s) # 0 => FlattenSeq(s) = F[Len(s)]
  BY DEF FlattenSeq, Flattens
<1>4. Len(s) = 0 => FlattenSeq(s) = <<>>
  BY DEF FlattenSeq
<1> HIDE DEF F
<1> QED
  BY <1>2, <1>3, <1>4

LEMMA FlattenType ==
  ASSUME NEW T, NEW s \in Seq(Seq(T))
  PROVE  FlattenSeq(s) \in Seq(T)
<1>1. CASE Len(s) = 0
  <2>1. FlattenSeq(s) = <<>>
    BY <1>1, FlattenSeqIs
  <2> QED
    BY <2>1
<1>2. CASE Len(s) # 0
  <2>1. PICK f : Flattens(f, s, Len(s)) /\ FlattenSeq(s) = f[Len(s)]
    BY <1>2, FlattenSeqIs
  <2> DEFINE N == Len(s)
             S == {k \in 0 .. N : k = 0 \/ f[k] \in Seq(T)}
  <2>2. N \in Nat /\ N # 0 /\ \A i \in 1 .. N : s[i] \in Seq(T)
    BY <1>2
  <2> HIDE DEF N
  <2>3. 0 \in S
    BY <2>2
  <2>4. ASSUME NEW k \in 0 .. N - 1, k \in S PROVE k + 1 \in S
    <3>1. k + 1 \in 1 .. N /\ (k + 1) - 1 = k /\ (k + 1 = 1 <=> k = 0)
      BY <2>2
    <3>2. f[k + 1] = IF k + 1 = 1 THEN s[k + 1] ELSE f[(k + 1) - 1] \o s[k + 1]
      BY <2>1, <2>2, <3>1, FlattensAt DEF N
    <3>3. s[k + 1] \in Seq(T)
      BY <2>2, <3>1
    <3>4. CASE k = 0
      BY <3>1, <3>2, <3>3, <3>4
    <3>5. CASE k # 0
      <4>1. f[k] \in Seq(T)
        BY <2>4, <3>5
      <4>2. f[k + 1] = f[k] \o s[k + 1]
        BY <3>1, <3>2, <3>5
      <4>3. f[k + 1] \in Seq(T)
        BY <3>3, <4>1, <4>2
      <4> QED
        BY <3>1, <4>3
    <3> QED
      BY <3>4, <3>5
  <2>5. 0 .. N \subseteq S
    <3> HIDE DEF S
    <3> QED
      BY <2>2, <2>3, <2>4, Induction
  <2>6. f[N] \in Seq(T)
    BY <2>2, <2>5
  <2> QED
    BY <2>1, <2>6 DEF N
<1> QED
  BY <1>1, <1>2

\* What is appended comes last.
LEMMA FlattenAppend ==
  ASSUME NEW T, NEW s \in Seq(Seq(T)), NEW x \in Seq(T)
  PROVE  FlattenSeq(Append(s, x)) = FlattenSeq(s) \o x
<1> DEFINE t == Append(s, x)
           n == Len(s)
<1>1. /\ t \in Seq(Seq(T)) /\ n \in Nat /\ Len(t) = n + 1 /\ t[n + 1] = x
      /\ \A i \in 1 .. n : s[i] = t[i]
  OBVIOUS
<1>2. Len(t) # 0
  BY <1>1
<1>3. PICK g : Flattens(g, t, Len(t)) /\ FlattenSeq(t) = g[Len(t)]
  <2> HIDE DEF t
  <2> QED
    BY <1>1, <1>2, FlattenSeqIs
<1> HIDE DEF t
<1>4. Flattens(g, t, n + 1) /\ FlattenSeq(t) = g[n + 1]
  BY <1>1, <1>3
<1>5. g[n + 1] = IF n + 1 = 1 THEN x ELSE g[n] \o x
  <2>1. n + 1 \in 1 .. n + 1 /\ (n + 1) - 1 = n
    BY <1>1
  <2>2. g[n + 1] = IF n + 1 = 1 THEN t[n + 1] ELSE g[(n + 1) - 1] \o t[n + 1]
    BY <1>1, <1>4, <2>1, FlattensAt
  <2> QED
    BY <1>1, <2>1, <2>2
<1>6. CASE n = 0
  <2>1. FlattenSeq(s) = <<>>
    BY <1>6, FlattenSeqIs
  <2>2. <<>> \o x = x
    OBVIOUS
  <2> QED
    BY <1>4, <1>5, <1>6, <2>1, <2>2 DEF t
<1>7. CASE n # 0
  <2>1. PICK f : Flattens(f, s, n) /\ FlattenSeq(s) = f[n]
    BY <1>7, FlattenSeqIs
  <2>2. \A i \in 1 .. n : f[i] = g[i]
    <3>1. n \in Nat /\ n + 1 \in Nat /\ n <= n + 1 /\ \A i \in 1 .. n : s[i] = t[i]
      BY <1>1
    <3> HIDE DEF n
    <3> QED
      BY <1>4, <2>1, <3>1, FlattensAlike
  <2>3. n \in 1 .. n /\ n + 1 # 1
    BY <1>1, <1>7
  <2> QED
    BY <1>4, <1>5, <2>1, <2>2, <2>3 DEF t
<1> QED
  BY <1>6, <1>7

-----------------------------------------------------------------------------
(***************************************************************************)
(* The list in progress.                                                   *)
(***************************************************************************)
RowOf == (1 .. MaxPages) \X (1 .. PageSize + 1)

PageServed == [length : 0 .. PageSize + 1, more : BOOLEAN]

RowsOfPage(p, length) == [i \in 1 .. length |-> <<p, i>>]

RowsServed(shown) == [p \in DOMAIN shown |-> RowsOfPage(p, shown[p].length)]

LEMMA AllOfIs == \A shown : AllOf(shown) = FlattenSeq(RowsServed(shown))
BY DEF AllOf, RowsServed, RowsOfPage

LEMMA ServedIs ==
  /\ Served = Seq(PageServed)
  /\ \A p \in PageServed : p.length \in Nat /\ p.more \in BOOLEAN
BY GithubClientAssumption DEF Served, PageServed

LEMMA AppendIs ==
  ASSUME NEW S, NEW s \in Seq(S), NEW x \in S
  PROVE  Append(s, x) = [i \in 1 .. Len(s) + 1 |-> IF i = Len(s) + 1 THEN x ELSE s[i]]
<1> DEFINE f == [i \in 1 .. Len(s) + 1 |-> IF i = Len(s) + 1 THEN x ELSE s[i]]
<1>1. Len(s) + 1 \in Nat /\ f \in [1 .. Len(s) + 1 -> S]
  OBVIOUS
<1>2. f \in Seq(S) /\ Len(f) = Len(s) + 1
  BY <1>1
<1>3. Append(s, x) \in Seq(S) /\ Len(Append(s, x)) = Len(s) + 1
  OBVIOUS
<1>4. \A i \in 1 .. Len(s) + 1 : f[i] = Append(s, x)[i]
  OBVIOUS
<1> HIDE DEF f
<1>5. f = Append(s, x)
  BY <1>2, <1>3, <1>4
<1> QED
  BY <1>5 DEF f

\* A page that is served adds its rows to those of the list.
LEMMA AllOfAppend ==
  ASSUME NEW shown \in Served, NEW page_ \in PageServed
  PROVE  AllOf(Append(shown, page_))
           = AllOf(shown) \o RowsOfPage(Len(shown) + 1, page_.length)
<1> DEFINE T == Nat \X Nat
           n == Len(shown)
           x == RowsOfPage(n + 1, page_.length)
           s == RowsServed(shown)
           t == RowsServed(Append(shown, page_))
<1>1. n \in Nat /\ DOMAIN shown = 1 .. n /\ \A p \in 1 .. n : shown[p] \in PageServed
  BY ServedIs
<1>2. ASSUME NEW p \in Nat, NEW length \in Nat PROVE RowsOfPage(p, length) \in Seq(T)
  <2>1. RowsOfPage(p, length) \in [1 .. length -> T]
    BY DEF RowsOfPage
  <2> QED
    BY <2>1
<1>3. s \in Seq(Seq(T)) /\ Len(s) = n
  <2>1. \A p \in 1 .. n : shown[p].length \in Nat /\ p \in Nat
    BY <1>1, ServedIs
  <2> HIDE DEF T, n
  <2>2. s \in [1 .. n -> Seq(T)]
    <3>1. s = [p \in 1 .. n |-> RowsOfPage(p, shown[p].length)]
      BY <1>1 DEF RowsServed
    <3>2. \A p \in 1 .. n : RowsOfPage(p, shown[p].length) \in Seq(T)
      BY <1>1, <1>2, <2>1
    <3> QED
      BY <3>1, <3>2
  <2> HIDE DEF s
  <2> QED
    BY <1>1, <2>2
<1>4. x \in Seq(T)
  <2>1. page_.length \in Nat /\ n + 1 \in Nat
    BY <1>1, ServedIs
  <2> QED
    BY <1>2, <2>1
<1>5. t = Append(s, x)
  <2>1. /\ DOMAIN Append(shown, page_) = 1 .. n + 1 /\ Append(shown, page_)[n + 1] = page_
        /\ \A p \in 1 .. n : Append(shown, page_)[p] = shown[p]
    BY <1>1, ServedIs
  <2>2. t = [p \in 1 .. n + 1 |-> RowsOfPage(p, Append(shown, page_)[p].length)]
    BY <2>1 DEF RowsServed
  <2>3. s = [p \in 1 .. n |-> RowsOfPage(p, shown[p].length)]
    BY <1>1 DEF RowsServed
  <2>4. Append(s, x) = [p \in 1 .. n + 1 |-> IF p = n + 1 THEN x ELSE s[p]]
    <3> HIDE DEF s, x, T
    <3> QED
      BY <1>3, <1>4, AppendIs
  <2>5. \A p \in 1 .. n + 1 :
          RowsOfPage(p, Append(shown, page_)[p].length) = IF p = n + 1 THEN x ELSE s[p]
    <3>1. ASSUME NEW p \in 1 .. n + 1
          PROVE  RowsOfPage(p, Append(shown, page_)[p].length) = IF p = n + 1 THEN x ELSE s[p]
      <4>1. CASE p = n + 1
        BY <2>1, <4>1
      <4>2. CASE p # n + 1
        <5>1. p \in 1 .. n
          BY <1>1, <4>2
        <5> QED
          BY <2>1, <2>3, <4>2, <5>1
      <4> QED
        BY <4>1, <4>2
    <3> QED
      BY <3>1
  <2> HIDE DEF s, t, x, n
  <2> QED
    BY <2>2, <2>4, <2>5
<1> HIDE DEF s, t, x, T
<1>6. FlattenSeq(Append(s, x)) = FlattenSeq(s) \o x
  BY <1>3, <1>4, FlattenAppend
<1> QED
  BY <1>5, <1>6, AllOfIs DEF s, t, x

LEMMA AllOfType == ASSUME NEW shown \in Served PROVE AllOf(shown) \in Seq(Nat \X Nat)
<1> DEFINE n == Len(shown)
<1>1. n \in Nat /\ DOMAIN shown = 1 .. n /\ \A p \in 1 .. n : shown[p].length \in Nat
  BY ServedIs
<1>2. RowsServed(shown) \in [1 .. n -> Seq(Nat \X Nat)]
  <2>1. RowsServed(shown) = [p \in 1 .. n |-> RowsOfPage(p, shown[p].length)]
    BY <1>1 DEF RowsServed
  <2>2. ASSUME NEW p \in 1 .. n PROVE RowsOfPage(p, shown[p].length) \in Seq(Nat \X Nat)
    <3>1. RowsOfPage(p, shown[p].length) \in [1 .. shown[p].length -> Nat \X Nat]
      BY <1>1 DEF RowsOfPage
    <3> QED
      BY <1>1, <3>1
  <2> QED
    BY <2>1, <2>2
<1>3. RowsServed(shown) \in Seq(Seq(Nat \X Nat))
  <2> HIDE DEF n
  <2> QED
    BY <1>1, <1>2
<1> QED
  BY <1>3, AllOfIs, FlattenType

-----------------------------------------------------------------------------
(***************************************************************************)
(* Types.                                                                  *)
(***************************************************************************)
Result == [items : Rowset, error : Errors, success : BOOLEAN, served : Served]

LEMMA EmptyIsSeq == \A S : <<>> \in Seq(S) /\ Len(<<>>) = 0
OBVIOUS

KeptOf(length) == IF length > PageSize THEN 0 ELSE Kept(length)

EndOf(length, link) ==
  IF length > PageSize THEN "limit" ELSE PageEnds(KeptOf(length), length, link)

LEMMA PageIs ==
  ASSUME TypeOK, NEW length \in 0 .. PageSize + 1, NEW link \in Links, NEW d \in Durations,
         Page(length, link, d)
  PROVE  LET kept  == KeptOf(length)
             end   == EndOf(length, link)
             now   == items \o Rows(kept)
             shown == Append(served, [length |-> length, more |-> More(length, link)])
         IN
           /\ stage = "asked" /\ Takes(d) /\ UNCHANGED <<requests, wake>>
           /\ kept \in 0 .. PageSize /\ kept <= length /\ rows' = rows + kept
           /\ rows' \in 0 .. MaxRows
           /\ end \in {"limit", "pagination", "none", "more"}
           /\ end # "limit" => kept = length
           /\ end = "none" => ~More(length, link)
           /\ end = "more" => More(length, link) /\ page # MaxPages
           /\ More(length, link) \in BOOLEAN
           /\ \/ /\ end = "more" /\ stage' = "ask"
                 /\ items' = now /\ success' = TRUE /\ page' = page + 1 /\ attempt' = 0
                 /\ served' = shown /\ UNCHANGED results
              \/ end # "more" /\ Return(end, now, TRUE, shown)
<1> DEFINE kept == KeptOf(length)
           end == EndOf(length, link)
<1>1. /\ stage = "asked" /\ Takes(d) /\ UNCHANGED <<requests, wake>> /\ rows' = rows + kept
      /\ \/ /\ end = "more" /\ stage' = "ask"
            /\ items' = items \o Rows(kept) /\ success' = TRUE /\ page' = page + 1 /\ attempt' = 0
            /\ served' = Append(served, [length |-> length, more |-> More(length, link)])
            /\ UNCHANGED results
         \/ /\ end # "more"
            /\ Return(end, items \o Rows(kept), TRUE,
                      Append(served, [length |-> length, more |-> More(length, link)]))
  BY DEF Page, KeptOf, EndOf
<1>2. rows \in 0 .. MaxRows /\ PageSize \in Nat \ {0} /\ MaxRows \in Nat
  BY GithubClientAssumption DEF TypeOK
<1>3. kept \in 0 .. PageSize /\ kept <= length /\ rows + kept <= MaxRows
  <2>1. CASE length > PageSize
    BY <1>2, <2>1 DEF KeptOf
  <2>2. CASE ~(length > PageSize)
    BY <1>2, <2>2 DEF KeptOf, Kept, Room
  <2> QED
    BY <2>1, <2>2
<1>4. end \in {"limit", "pagination", "none", "more"}
  BY DEF EndOf, PageEnds
<1>5. end # "limit" => kept = length
  <2>1. end # "limit" => ~(kept < length)
    BY DEF EndOf, PageEnds
  <2> QED
    BY <1>2, <1>3, <2>1
<1>6. /\ end = "none" => ~More(length, link)
      /\ end = "more" => More(length, link) /\ page # MaxPages
  <2>1. ASSUME end = "none" PROVE ~More(length, link)
    <3>1. CASE More(length, link) /\ page = MaxPages
      BY <2>1, <3>1 DEF EndOf, PageEnds
    <3>2. CASE More(length, link) /\ page # MaxPages
      BY <2>1, <3>2 DEF EndOf, PageEnds
    <3> QED
      BY <3>1, <3>2
  <2>2. end = "more" => More(length, link) /\ page # MaxPages
    BY DEF EndOf, PageEnds
  <2> QED
    BY <2>1, <2>2
<1>7. More(length, link) \in BOOLEAN
  BY DEF More
<1>8. rows' \in 0 .. MaxRows
  BY <1>1, <1>2, <1>3
<1> QED
  BY <1>1, <1>3, <1>4, <1>5, <1>6, <1>7, <1>8

\* The rows of a page that are kept.
LEMMA RowsAre ==
  ASSUME NEW n \in 0 .. PageSize, page \in 1 .. MaxPages
  PROVE  Rows(n) \in Rowset /\ Len(Rows(n)) = n
<1>1. n \in Nat /\ PageSize \in Nat /\ MaxPages \in Nat
  BY GithubClientAssumption
<1>2. Rows(n) \in [1 .. n -> (1 .. MaxPages) \X (1 .. PageSize)]
  BY <1>1 DEF Rows
<1> QED
  BY <1>1, <1>2 DEF Rowset

LEMMA ReturnTyped ==
  ASSUME TypeOK, NEW error \in Errors, NEW kept \in Rowset, NEW ok \in BOOLEAN,
         NEW shown \in Served, Return(error, kept, ok, shown)
  PROVE  /\ results' \in Seq(Result) /\ results \in Seq(Result)
         /\ results' = Append(results, [items |-> kept, error |-> error, success |-> ok,
                                        served |-> shown])
         /\ [items |-> kept, error |-> error, success |-> ok, served |-> shown] \in Result
         /\ served' = <<>> /\ items' = <<>> /\ success' = FALSE /\ page' = 1 /\ attempt' = 0
         /\ stage' \in {"done", "ask"}
         /\ served' \in Served /\ items' \in Rowset /\ page' \in 1 .. MaxPages
         /\ attempt' \in 0 .. MaxAttempt
<1>1. results \in Seq(Result)
  BY DEF TypeOK, Result
<1>2. [items |-> kept, error |-> error, success |-> ok, served |-> shown] \in Result
  BY DEF Result
<1>3. /\ results' = Append(results, [items |-> kept, error |-> error, success |-> ok,
                                     served |-> shown])
      /\ served' = <<>> /\ items' = <<>> /\ success' = FALSE /\ page' = 1 /\ attempt' = 0
      /\ stage' \in {"done", "ask"}
  BY DEF Return
<1>4. results' \in Seq(Result)
  BY <1>1, <1>2, <1>3
<1>5. served' \in Served /\ items' \in Rowset
  BY <1>3, EmptyIsSeq DEF Served, Rowset
<1>6. page' \in 1 .. MaxPages /\ attempt' \in 0 .. MaxAttempt
  BY <1>3, GithubClientAssumption DEF MaxAttempt
<1> QED
  BY <1>1, <1>2, <1>3, <1>4, <1>5, <1>6

LEMMA TakesTyped ==
  ASSUME TypeOK, NEW d \in Durations, Takes(d)
  PROVE  clock' \in 0 .. Deadline /\ clock' < Deadline
<1>1. clock \in Nat /\ d \in Nat /\ Deadline \in Nat /\ clock' = clock + d
      /\ ~(clock + d >= Deadline)
  BY GithubClientAssumption DEF TypeOK, Takes, Late
<1> QED
  BY <1>1

LEMMA DelayTyped ==
  ASSUME TypeOK, NEW h \in Headers, NEW limited \in BOOLEAN
  PROVE  Delay(h, limited) \in Nat
<1> DEFINE Longer(a, b) == IF a > b THEN a ELSE b
           default == IF limited THEN 60 ELSE 2 ^ attempt
           first   == IF h.retryAfter.is = "wait" THEN h.retryAfter.seconds ELSE default
           delay   == IF h.reset.is = "wait" THEN Longer(first, h.reset.seconds) ELSE first
<1>1. 2 ^ attempt \in Nat
  <2>1. 2 ^ 0 = 1 /\ 2 ^ 1 = 2 /\ 2 ^ 2 = 4
    OBVIOUS
  <2>2. attempt = 0 \/ attempt = 1 \/ attempt = 2
    BY DEF TypeOK, MaxAttempt
  <2>3. 2 ^ attempt = 1 \/ 2 ^ attempt = 2 \/ 2 ^ attempt = 4
    BY <2>1, <2>2, Zenon
  <2>4. 1 \in Nat /\ 2 \in Nat /\ 4 \in Nat
    OBVIOUS
  <2> QED
    BY <2>3, <2>4
<1>2. h.retryAfter.seconds \in Nat /\ h.reset.seconds \in Nat
  BY GithubClientAssumption DEF Header
<1>3. default \in Nat
  BY <1>1
<1> HIDE DEF default
<1>4. first \in Nat
  BY <1>2, <1>3
<1> HIDE DEF first
<1>5. delay \in Nat
  BY <1>2, <1>4
<1>6. Delay(h, limited) = delay \/ Delay(h, limited) = MaxDelay + 1
  BY DEF Delay, default, first
<1> HIDE DEF delay
<1> QED
  BY <1>5, <1>6 DEF MaxDelay

\* A retry that is waited for is one of the two.
Typed == TypeOK /\ (stage = "sleeping" => Retries)

LEMMA InitTyped == Init => Typed
<1> SUFFICES ASSUME Init PROVE Typed
  OBVIOUS
<1>1. page \in 1 .. MaxPages /\ attempt \in 0 .. MaxAttempt /\ requests \in 0 .. MaxRequests
      /\ rows \in 0 .. MaxRows /\ clock \in 0 .. Deadline /\ wake \in 0 .. Deadline + MaxDelay
  BY GithubClientAssumption DEF Init, MaxAttempt, MaxDelay
<1>2. /\ items \in Rowset /\ served \in Served
      /\ results \in Seq([items : Rowset, error : Errors, success : BOOLEAN, served : Served])
  BY EmptyIsSeq DEF Init, Rowset, Served
<1>3. stage \in {"ask", "done"} /\ success = FALSE
  BY DEF Init
<1> QED
  BY <1>1, <1>2, <1>3 DEF Typed, TypeOK

LEMMA NextTypeOK == Typed /\ [Next]_vars => TypeOK'
<1> SUFFICES ASSUME Typed, [Next]_vars PROVE TypeOK'
  OBVIOUS
<1>a. TypeOK
  BY DEF Typed
<1>0. /\ requests \in 0 .. MaxRequests /\ MaxRequests \in Nat /\ Deadline \in Nat
      /\ items \in Rowset /\ served \in Served /\ success \in BOOLEAN
  BY <1>a, GithubClientAssumption DEF TypeOK
<1>1. CASE OutOfRequests
  <2>1. Return("limit", items, success, served) /\ UNCHANGED <<requests, rows, clock, wake>>
    BY <1>1 DEF OutOfRequests
  <2>2. "limit" \in Errors
    BY DEF Errors, Refusals
  <2> QED
    BY <1>a, <1>0, <2>1, <2>2, ReturnTyped DEF TypeOK, Result
<1>2. CASE Ask
  <2>1. requests' \in 0 .. MaxRequests
    BY <1>0, <1>2 DEF Ask
  <2> QED
    BY <1>a, <1>2, <2>1 DEF Ask, TypeOK
<1>3. CASE Wake
  <2>1. clock' \in 0 .. Deadline
    <3>1. clock' = wake /\ wake \in 0 .. Deadline + MaxDelay /\ ~(wake >= Deadline)
      BY <1>a, <1>3 DEF Wake, Late, TypeOK
    <3> QED
      BY <1>0, <3>1 DEF MaxDelay
  <2>2. attempt' \in 0 .. MaxAttempt
    BY <1>a, <1>3 DEF Wake, Typed, Retries, TypeOK, MaxAttempt
  <2> QED
    BY <1>a, <1>3, <2>1, <2>2 DEF Wake, TypeOK
<1>4. CASE DeadlinePasses
  <2>1. PICK t : Dropped(t)
    BY <1>4 DEF DeadlinePasses
  <2> QED
    BY <1>a, <1>0, <2>1 DEF Dropped, TypeOK
<1>5. ASSUME NEW d \in Durations, NEW code \in Refusals, Refused(code, d) PROVE TypeOK'
  <2>1. Return(code, items, success, served) /\ Takes(d) /\ UNCHANGED <<requests, rows, wake>>
    BY <1>5 DEF Refused
  <2>2. code \in Errors
    BY DEF Errors
  <2> QED
    BY <1>a, <1>0, <2>1, <2>2, ReturnTyped, TakesTyped DEF TypeOK, Result
<1>6. ASSUME NEW d \in Durations, NEW limited \in BOOLEAN, NEW h \in Headers, Limited(limited, h, d)
      PROVE  TypeOK'
  <2>1. Takes(d) /\ UNCHANGED <<requests, rows>> /\ clock' \in 0 .. Deadline
    BY <1>a, <1>6, TakesTyped DEF Limited
  <2>2. CASE /\ Delay(h, limited) <= MaxDelay /\ stage' = "sleeping"
             /\ wake' = clock' + Delay(h, limited)
             /\ UNCHANGED <<page, attempt, items, success, results, served>>
    <3>1. wake' \in 0 .. Deadline + MaxDelay
      BY <1>a, <1>0, <2>1, <2>2, DelayTyped DEF MaxDelay
    <3> QED
      BY <1>a, <2>1, <2>2, <3>1 DEF TypeOK
  <2>3. ASSUME NEW error \in Errors, Return(error, items, success, served), UNCHANGED wake
        PROVE  TypeOK'
    BY <1>a, <1>0, <2>1, <2>3, ReturnTyped DEF TypeOK, Result
  <2>4. "rate_limit" \in Errors /\ "unavailable" \in Errors
    BY DEF Errors
  <2>5. \/ /\ Delay(h, limited) <= MaxDelay /\ stage' = "sleeping"
           /\ wake' = clock' + Delay(h, limited)
           /\ UNCHANGED <<page, attempt, items, success, results, served>>
        \/ Return("rate_limit", items, success, served) /\ UNCHANGED wake
        \/ Return("unavailable", items, success, served) /\ UNCHANGED wake
    BY <1>6 DEF Limited
  <2> QED
    BY <2>2, <2>3, <2>4, <2>5
<1>7. ASSUME NEW d \in Durations, NEW length \in 0 .. PageSize + 1, NEW link \in Links,
             Page(length, link, d)
      PROVE  TypeOK'
  <2> DEFINE kept == KeptOf(length)
             end == EndOf(length, link)
             now == items \o Rows(kept)
             one == [length |-> length, more |-> More(length, link)]
             shown == Append(served, one)
  <2>1. /\ Takes(d) /\ UNCHANGED <<requests, wake>>
        /\ kept \in 0 .. PageSize /\ rows' \in 0 .. MaxRows
        /\ end \in {"limit", "pagination", "none", "more"}
        /\ end = "more" => page # MaxPages
        /\ More(length, link) \in BOOLEAN
        /\ \/ /\ end = "more" /\ stage' = "ask"
              /\ items' = now /\ success' = TRUE /\ page' = page + 1 /\ attempt' = 0
              /\ served' = shown /\ UNCHANGED results
           \/ end # "more" /\ Return(end, now, TRUE, shown)
    BY <1>a, <1>7, PageIs
  <2> HIDE DEF kept, end
  <2>2. clock' \in 0 .. Deadline
    BY <1>a, <2>1, TakesTyped
  <2>3. Rows(kept) \in Rowset
    BY <1>a, <2>1, RowsAre DEF TypeOK
  <2>4. now \in Rowset
    BY <1>0, <2>3 DEF Rowset
  <2>5. shown \in Served
    <3>1. one \in PageServed
      BY <2>1 DEF PageServed
    <3> HIDE DEF one
    <3> QED
      BY <1>0, <3>1, ServedIs
  <2> HIDE DEF now, shown
  <2>6. CASE /\ end = "more" /\ stage' = "ask"
             /\ items' = now /\ success' = TRUE /\ page' = page + 1 /\ attempt' = 0
             /\ served' = shown /\ UNCHANGED results
    <3>1. page' \in 1 .. MaxPages
      BY <1>a, <2>1, <2>6, GithubClientAssumption DEF TypeOK
    <3>2. attempt' \in 0 .. MaxAttempt
      BY <2>6 DEF MaxAttempt
    <3> QED
      BY <1>a, <2>1, <2>2, <2>4, <2>5, <2>6, <3>1, <3>2 DEF TypeOK
  <2>7. CASE end # "more" /\ Return(end, now, TRUE, shown)
    <3>1. end \in Errors
      BY <2>1, <2>7 DEF Errors, Refusals
    <3> QED
      BY <1>a, <2>1, <2>2, <2>4, <2>5, <2>7, <3>1, ReturnTyped DEF TypeOK, Result
  <2> QED
    BY <2>1, <2>6, <2>7
<1>8. CASE UNCHANGED vars
  BY <1>a, <1>8 DEF vars, TypeOK
<1> QED
  BY <1>1, <1>2, <1>3, <1>4, <1>5, <1>6, <1>7, <1>8 DEF Next, Answer

LEMMA NextTyped == Typed /\ [Next]_vars => Typed'
<1> SUFFICES ASSUME Typed, [Next]_vars PROVE Typed'
  OBVIOUS
<1>1. TypeOK'
  BY NextTypeOK
<1>2. (stage = "sleeping" => Retries)'
  <2>1. ASSUME NEW error, NEW kept, NEW ok, NEW shown, Return(error, kept, ok, shown)
        PROVE  stage' # "sleeping"
    BY <2>1 DEF Return
  <2>2. CASE OutOfRequests \/ Ask \/ Wake \/ DeadlinePasses
    BY <2>1, <2>2 DEF OutOfRequests, Ask, Wake, DeadlinePasses, Dropped
  <2>3. ASSUME NEW d, Answer(d) PROVE (stage = "sleeping" => Retries)'
    BY <2>1, <2>3 DEF Answer, Refused, Limited, Page, Retries
  <2>4. CASE UNCHANGED vars
    BY <2>4 DEF vars, Typed, Retries
  <2> QED
    BY <2>2, <2>3, <2>4 DEF Next
<1> QED
  BY <1>1, <1>2 DEF Typed

\* The variables keep their types: whatever the answers, a discovery stays within
\* its requests, its rows, three attempts for a page and the session's deadline
\* (client.rs 60-205).
THEOREM TypeCorrect == Spec => []TypeOK
<1>1. Typed => TypeOK
  BY DEF Typed
<1> QED
  BY <1>1, InitTyped, NextTyped, PTL DEF Spec

-----------------------------------------------------------------------------
(***************************************************************************)
(* Lists are faithful.                                                     *)
(***************************************************************************)
LEMMA PrefixIs ==
  ASSUME NEW T, NEW s \in Seq(T), NEW t \in Seq(T), Len(s) <= Len(t),
         \A i \in 1 .. Len(s) : s[i] = t[i]
  PROVE  IsPrefix(s, t)
<1> DEFINE n == Len(s)
<1>1. n \in Nat /\ Len(t) \in Nat /\ n <= Len(t)
  OBVIOUS
<1>2. SubSeq(s, 1, n) \in Seq(T) /\ Len(SubSeq(s, 1, n)) = n
      /\ \A i \in 1 .. n : SubSeq(s, 1, n)[i] = s[i]
  BY <1>1
<1>3. SubSeq(t, 1, n) \in Seq(T) /\ Len(SubSeq(t, 1, n)) = n
      /\ \A i \in 1 .. n : SubSeq(t, 1, n)[i] = t[i]
  BY <1>1
<1>4. SubSeq(s, 1, n) = SubSeq(t, 1, n)
  BY <1>1, <1>2, <1>3
<1> QED
  BY <1>1, <1>4 DEF IsPrefix

\* The rows kept of a page are the first of those it has.
LEMMA PrefixKept ==
  ASSUME NEW T, NEW s \in Seq(T), NEW p, NEW k \in Nat, NEW n \in Nat, k <= n,
         RowsOfPage(p, k) \in Seq(T), RowsOfPage(p, n) \in Seq(T)
  PROVE  IsPrefix(s \o RowsOfPage(p, k), s \o RowsOfPage(p, n))
<1> DEFINE x == RowsOfPage(p, k)
           y == RowsOfPage(p, n)
<1>1. Len(x) = k /\ Len(y) = n /\ \A i \in 1 .. k : x[i] = y[i]
  BY DEF RowsOfPage
<1>2. x \in Seq(T) /\ y \in Seq(T)
  OBVIOUS
<1> HIDE DEF x, y
<1>3. /\ s \o x \in Seq(T) /\ s \o y \in Seq(T)
      /\ Len(s \o x) = Len(s) + k /\ Len(s \o y) = Len(s) + n /\ Len(s) \in Nat
  <2>1. \A z \in Seq(T) : s \o z \in Seq(T) /\ Len(s \o z) = Len(s) + Len(z) /\ Len(s) \in Nat
    OBVIOUS
  <2> QED
    BY <1>1, <1>2, <2>1
<1>4. ASSUME NEW i \in 1 .. Len(s \o x) PROVE (s \o x)[i] = (s \o y)[i]
  <2>1. CASE i <= Len(s)
    BY <1>1, <1>2, <1>3, <2>1
  <2>2. CASE ~(i <= Len(s))
    <3>1. i - Len(s) \in 1 .. k /\ i - Len(s) \in 1 .. n
      BY <1>3, <2>2
    <3>2. (s \o x)[i] = x[i - Len(s)] /\ (s \o y)[i] = y[i - Len(s)]
      BY <1>1, <1>2, <1>3, <2>2
    <3> QED
      BY <1>1, <3>1, <3>2
  <2> QED
    BY <2>1, <2>2
<1>5. Len(s \o x) <= Len(s \o y)
  BY <1>3
<1>6. IsPrefix(s \o x, s \o y)
  BY <1>3, <1>4, <1>5, PrefixIs
<1> QED
  BY <1>6 DEF x, y

\* What ListsAreFaithful says of one list.
Faithful(r) ==
  LET last == Len(r.served)
  IN /\ IsPrefix(r.items, AllOf(r.served))
     /\ r.success = (r.served # <<>>)
     /\ \A p \in 1 .. last - 1 : r.served[p].more
     /\ r.error = "none" =>
          r.items = AllOf(r.served) /\ last > 0 /\ ~r.served[last].more
     /\ r.error \in Refusals \ {"limit"} => r.items = AllOf(r.served)

LEMMA FaithfulLists == ListsAreFaithful <=> \A i \in DOMAIN results : Faithful(results[i])
BY DEF ListsAreFaithful, Faithful

\* The list in progress has every row of the pages it was shown, and each of
\* them has promised another.
Listing ==
  /\ page = Len(served) + 1
  /\ items = AllOf(served)
  /\ success = (served # <<>>)
  /\ \A p \in DOMAIN served : served[p].more

LEMMA AllOfNothing == AllOf(<<>>) = <<>>
<1>1. <<>> \in Seq(Seq(Nat \X Nat)) /\ Len(<<>>) = 0
  BY EmptyIsSeq
<1>2. RowsServed(<<>>) = <<>>
  BY DEF RowsServed
<1> QED
  BY <1>1, <1>2, AllOfIs, FlattenSeqIs

LEMMA ReturnFaithful ==
  ASSUME TypeOK, ListsAreFaithful,
         NEW error \in Errors, NEW kept \in Rowset, NEW ok \in BOOLEAN, NEW shown \in Served,
         Return(error, kept, ok, shown),
         Faithful([items |-> kept, error |-> error, success |-> ok, served |-> shown])
  PROVE  ListsAreFaithful' /\ Listing'
<1> DEFINE r == [items |-> kept, error |-> error, success |-> ok, served |-> shown]
<1>1. /\ results \in Seq(Result) /\ results' = Append(results, r) /\ r \in Result
      /\ served' = <<>> /\ items' = <<>> /\ success' = FALSE /\ page' = 1
  BY ReturnTyped
<1>2. ASSUME NEW i \in DOMAIN results' PROVE Faithful(results'[i])
  <2> HIDE DEF r
  <2>1. CASE i \in DOMAIN results
    <3>1. results'[i] = results[i]
      BY <1>1, <2>1
    <3> QED
      BY <2>1, <3>1, FaithfulLists
  <2>2. CASE i \notin DOMAIN results
    <3>1. results'[i] = r
      BY <1>1, <1>2, <2>2
    <3> QED
      BY <3>1 DEF r
  <2> QED
    BY <2>1, <2>2
<1>3. ListsAreFaithful'
  <2>1. (\A i \in DOMAIN results : Faithful(results[i]))'
    BY <1>2 DEF Faithful, AllOf
  <2> QED
    BY <2>1 DEF ListsAreFaithful, Faithful
<1>4. Listing'
  <2>1. DOMAIN <<>> = {} /\ Len(<<>>) = 0
    OBVIOUS
  <2>2. (page = Len(served) + 1)'
    BY <1>1, <2>1
  <2>3. (items = AllOf(served))'
    BY <1>1, AllOfNothing
  <2>4. (success = (served # <<>>))'
    BY <1>1, Zenon
  <2>5. (\A p \in DOMAIN served : served[p].more)'
    BY <1>1, <2>1
  <2> QED
    BY <2>2, <2>3, <2>4, <2>5 DEF Listing
<1> QED
  BY <1>3, <1>4

\* A list that ends before its next page.
LEMMA EndsFaithful ==
  ASSUME TypeOK, Listing, NEW error \in Errors \ {"none"}
  PROVE  Faithful([items |-> items, error |-> error, success |-> success, served |-> served])
<1> DEFINE T == Nat \X Nat
<1>1. AllOf(served) \in Seq(T) /\ served \in Served
  BY AllOfType DEF TypeOK
<1>2. IsPrefix(items, AllOf(served))
  <2>1. items = AllOf(served)
    BY DEF Listing
  <2>2. \A s \in Seq(T) : Len(s) <= Len(s)
    OBVIOUS
  <2>3. Len(items) <= Len(AllOf(served)) /\ \A i \in 1 .. Len(items) : items[i] = AllOf(served)[i]
    BY <1>1, <2>1, <2>2
  <2> HIDE DEF T
  <2> QED
    BY <1>1, <2>1, <2>3, PrefixIs
<1>3. \A p \in 1 .. Len(served) - 1 : served[p].more
  <2>1. Len(served) \in Nat /\ DOMAIN served = 1 .. Len(served)
    BY <1>1, ServedIs
  <2> QED
    BY <2>1 DEF Listing
<1> QED
  BY <1>2, <1>3 DEF Faithful, Listing

LEMMA SeqIsEmpty == ASSUME NEW T, NEW s \in Seq(T), NEW x \in T PROVE Append(s, x) # <<>>
<1>1. Len(Append(s, x)) = Len(s) + 1 /\ Len(s) \in Nat /\ Len(<<>>) = 0
  OBVIOUS
<1> QED
  BY <1>1

\* A page adds its rows, as many of them as there is room for.
LEMMA PageFaithful ==
  ASSUME Typed, ListsAreFaithful, Listing,
         NEW length \in 0 .. PageSize + 1, NEW link \in Links, NEW d \in Durations,
         Page(length, link, d)
  PROVE  ListsAreFaithful' /\ Listing'
<1> DEFINE T == Nat \X Nat
           kept == KeptOf(length)
           end == EndOf(length, link)
           now == items \o Rows(kept)
           one == [length |-> length, more |-> More(length, link)]
           shown == Append(served, one)
           n == Len(served)
<1>1. TypeOK
  BY DEF Typed
<1>2. /\ kept \in 0 .. PageSize /\ kept <= length
      /\ end \in {"limit", "pagination", "none", "more"}
      /\ end # "limit" => kept = length
      /\ end = "none" => ~More(length, link)
      /\ end = "more" => More(length, link) /\ page # MaxPages
      /\ More(length, link) \in BOOLEAN
      /\ \/ /\ end = "more" /\ stage' = "ask"
            /\ items' = now /\ success' = TRUE /\ page' = page + 1 /\ attempt' = 0
            /\ served' = shown /\ UNCHANGED results
         \/ end # "more" /\ Return(end, now, TRUE, shown)
  BY <1>1, PageIs
<1>3. /\ served \in Served /\ n \in Nat /\ DOMAIN served = 1 .. n
      /\ items = AllOf(served) /\ page = n + 1 /\ one \in PageServed
      /\ length \in Nat /\ kept \in Nat /\ \A p \in 1 .. n : served[p].more
  <2>1. served \in Served /\ n \in Nat /\ DOMAIN served = 1 .. n
    BY <1>1, ServedIs DEF TypeOK
  <2>2. one \in PageServed
    BY <1>2 DEF PageServed
  <2>3. PageSize \in Nat
    BY GithubClientAssumption
  <2>4. length \in Nat /\ kept \in Nat
    BY <1>2, <2>3
  <2> QED
    BY <2>1, <2>2, <2>4 DEF Listing
<1>4. Rows(kept) = RowsOfPage(page, kept)
  BY DEF Rows, RowsOfPage
<1>5. AllOf(served) \in Seq(T)
  BY <1>3, AllOfType
<1>6. ASSUME NEW m \in Nat PROVE RowsOfPage(page, m) \in Seq(T)
  <2>1. page \in Nat
    BY <1>3
  <2>2. RowsOfPage(page, m) \in [1 .. m -> T]
    BY <2>1 DEF RowsOfPage
  <2> QED
    BY <2>2
<1>7. now = AllOf(served) \o RowsOfPage(page, kept)
  BY <1>3, <1>4
<1>8. AllOf(shown) = AllOf(served) \o RowsOfPage(page, length)
  <2>1. one.length = length
    OBVIOUS
  <2>2. AllOf(Append(served, one)) = AllOf(served) \o RowsOfPage(Len(served) + 1, one.length)
    <3> HIDE DEF one
    <3> QED
      BY <1>3, AllOfAppend
  <2> QED
    BY <1>3, <2>1, <2>2
<1>9. IsPrefix(now, AllOf(shown))
  <2>1. RowsOfPage(page, kept) \in Seq(T) /\ RowsOfPage(page, length) \in Seq(T)
    BY <1>3, <1>6
  <2>2. IsPrefix(AllOf(served) \o RowsOfPage(page, kept), AllOf(served) \o RowsOfPage(page, length))
    <3> HIDE DEF T, kept
    <3> QED
      BY <1>2, <1>3, <1>5, <2>1, PrefixKept
  <2> QED
    BY <1>7, <1>8, <2>2
<1>10. kept = length => now = AllOf(shown)
  BY <1>7, <1>8
<1>11. /\ shown \in Served /\ Len(shown) = n + 1 /\ DOMAIN shown = 1 .. n + 1
       /\ shown # <<>> /\ shown[n + 1] = one /\ \A p \in 1 .. n : shown[p] = served[p]
  <2> HIDE DEF one
  <2> QED
    BY <1>3, ServedIs, SeqIsEmpty
<1>12. shown[n + 1].more = More(length, link)
  <2>1. one.more = More(length, link)
    OBVIOUS
  <2> HIDE DEF one, shown
  <2> QED
    BY <1>11, <2>1
<1>13. \A p \in 1 .. n : shown[p].more
  BY <1>3, <1>11
<1>14. now \in Rowset
  <2>1. Rows(kept) \in Rowset
    BY <1>1, <1>2, RowsAre DEF TypeOK
  <2>2. items \in Rowset
    BY <1>1 DEF TypeOK
  <2> HIDE DEF kept
  <2> QED
    BY <2>1, <2>2 DEF Rowset
<1> HIDE DEF T, kept, end, now, one, shown, n
<1>15. CASE /\ end = "more" /\ items' = now /\ success' = TRUE /\ page' = page + 1
            /\ served' = shown /\ UNCHANGED results
  <2>1. ListsAreFaithful'
    BY <1>15, FaithfulLists DEF ListsAreFaithful
  <2>2. (page = Len(served) + 1)'
    BY <1>3, <1>11, <1>15
  <2>3. (items = AllOf(served))'
    BY <1>2, <1>10, <1>15
  <2>4. (success = (served # <<>>))'
    BY <1>11, <1>15, Zenon
  <2>5. (\A p \in DOMAIN served : served[p].more)'
    <3>1. ASSUME NEW p \in 1 .. n + 1 PROVE shown[p].more
      <4>1. p \in 1 .. n \/ p = n + 1
        BY <1>3
      <4>2. More(length, link)
        BY <1>2, <1>15
      <4> QED
        BY <1>12, <1>13, <4>1, <4>2
    <3> QED
      BY <1>11, <1>15, <3>1
  <2> QED
    BY <2>1, <2>2, <2>3, <2>4, <2>5 DEF Listing
<1>16. CASE end # "more" /\ Return(end, now, TRUE, shown)
  <2> DEFINE r == [items |-> now, error |-> end, success |-> TRUE, served |-> shown]
  <2>1. Faithful(r)
    <3>1. IsPrefix(now, AllOf(shown)) /\ TRUE = (shown # <<>>)
      BY <1>9, <1>11, Zenon
    <3>2. \A p \in 1 .. Len(shown) - 1 : shown[p].more
      <4>1. Len(shown) - 1 = n
        BY <1>3, <1>11
      <4> QED
        BY <1>13, <4>1
    <3>3. end = "none" => now = AllOf(shown) /\ Len(shown) > 0 /\ ~shown[Len(shown)].more
      <4>1. ASSUME end = "none" PROVE now = AllOf(shown) /\ ~More(length, link)
        BY <1>2, <1>10, <4>1
      <4>2. Len(shown) > 0 /\ shown[Len(shown)].more = More(length, link)
        BY <1>3, <1>11, <1>12
      <4> QED
        BY <4>1, <4>2
    <3>4. end \notin Refusals \ {"limit"}
      BY <1>2, <1>16 DEF Refusals
    <3> QED
      BY <3>1, <3>2, <3>3, <3>4 DEF Faithful
  <2>2. end \in Errors
    BY <1>2, <1>16 DEF Errors, Refusals
  <2> HIDE DEF r
  <2> QED
    BY <1>1, <1>11, <1>14, <1>16, <2>1, <2>2, ReturnFaithful DEF r
<1> QED
  BY <1>2, <1>15, <1>16

LEMMA InitFaithful == Init => ListsAreFaithful /\ Listing
<1> SUFFICES ASSUME Init PROVE ListsAreFaithful /\ Listing
  OBVIOUS
<1>1. /\ page = 1 /\ items = <<>> /\ success = FALSE /\ results = <<>> /\ served = <<>>
      /\ DOMAIN <<>> = {} /\ Len(<<>>) = 0
  BY DEF Init
<1>2. ListsAreFaithful
  BY <1>1 DEF ListsAreFaithful
<1>3. success = (served # <<>>)
  BY <1>1, Zenon
<1>4. page = Len(served) + 1 /\ items = AllOf(served) /\ \A p \in DOMAIN served : served[p].more
  BY <1>1, AllOfNothing
<1> QED
  BY <1>2, <1>3, <1>4 DEF Listing

LEMMA NextFaithful ==
  Typed /\ ListsAreFaithful /\ Listing /\ [Next]_vars => (ListsAreFaithful /\ Listing)'
<1> SUFFICES ASSUME Typed, ListsAreFaithful, Listing, [Next]_vars
             PROVE  (ListsAreFaithful /\ Listing)'
  OBVIOUS
<1>1. TypeOK
  BY DEF Typed
<1>2. ASSUME UNCHANGED <<page, items, success, results, served>>
      PROVE  (ListsAreFaithful /\ Listing)'
  BY <1>2 DEF ListsAreFaithful, Listing
<1>3. ASSUME NEW error \in Errors \ {"none"}, Return(error, items, success, served)
      PROVE  (ListsAreFaithful /\ Listing)'
  <2>1. Faithful([items |-> items, error |-> error, success |-> success, served |-> served])
    BY <1>1, EndsFaithful
  <2>2. items \in Rowset /\ success \in BOOLEAN /\ served \in Served
    BY <1>1 DEF TypeOK
  <2> QED
    BY <1>1, <1>3, <2>1, <2>2, ReturnFaithful
<1>4. CASE OutOfRequests
  <2>1. "limit" \in Errors \ {"none"}
    BY DEF Errors, Refusals
  <2> QED
    BY <1>3, <1>4, <2>1 DEF OutOfRequests
<1>5. CASE Ask \/ Wake \/ DeadlinePasses \/ UNCHANGED vars
  BY <1>2, <1>5 DEF Ask, Wake, DeadlinePasses, Dropped, vars
<1>6. ASSUME NEW d \in Durations, NEW code \in Refusals, Refused(code, d)
      PROVE  (ListsAreFaithful /\ Listing)'
  <2>1. code \in Errors \ {"none"}
    BY DEF Errors, Refusals
  <2> QED
    BY <1>3, <1>6, <2>1 DEF Refused
<1>7. ASSUME NEW d \in Durations, NEW limited \in BOOLEAN, NEW h \in Headers, Limited(limited, h, d)
      PROVE  (ListsAreFaithful /\ Listing)'
  <2>1. "rate_limit" \in Errors \ {"none"} /\ "unavailable" \in Errors \ {"none"}
    BY DEF Errors
  <2>2. \/ UNCHANGED <<page, items, success, results, served>>
        \/ Return("rate_limit", items, success, served)
        \/ Return("unavailable", items, success, served)
    BY <1>7 DEF Limited
  <2> QED
    BY <1>2, <1>3, <2>1, <2>2
<1>8. ASSUME NEW d \in Durations, Answer(d) PROVE (ListsAreFaithful /\ Listing)'
  <2>1. ASSUME NEW length \in 0 .. PageSize + 1, NEW link \in Links, Page(length, link, d)
        PROVE  (ListsAreFaithful /\ Listing)'
    BY <2>1, PageFaithful
  <2> QED
    BY <1>6, <1>7, <1>8, <2>1 DEF Answer
<1> QED
  BY <1>4, <1>5, <1>8 DEF Next

\* Whatever fails, is retried or runs out of budget, a list holds the rows of its
\* pages in order and without a gap, and one without an error holds them all
\* (list, client.rs 148-205).
THEOREM ListsFaithful == Spec => []ListsAreFaithful
<1> DEFINE Inv == Typed /\ ListsAreFaithful /\ Listing
<1>1. Init => Inv
  BY InitTyped, InitFaithful
<1>2. Inv /\ [Next]_vars => Inv'
  BY NextTyped, NextFaithful
<1>3. Inv => ListsAreFaithful
  OBVIOUS
<1> HIDE DEF Inv
<1> QED
  BY <1>1, <1>2, <1>3, PTL DEF Spec

-----------------------------------------------------------------------------
(***************************************************************************)
(* Budgets.                                                                *)
(***************************************************************************)
ItemsOf(lists) == FlattenSeq([i \in DOMAIN lists |-> lists[i].items])

PagesOf(lists) == FlattenSeq([i \in DOMAIN lists |-> lists[i].served])

Pending == IF stage \in {"asked", "sleeping", "dropped"} THEN 1 ELSE 0

\* A page or a list that is over has cost three requests at most; the page in
\* progress has cost one for each attempt that is over and the one pending.
Spent ==
  /\ rows = Len(items) + Len(ItemsOf(results))
  /\ requests <= 3 * (Len(served) + Len(PagesOf(results)) + Len(results)) + attempt + Pending

\* Lists of lists, one field of each.
Fields(F, lists) == FlattenSeq([i \in DOMAIN lists |-> F[lists[i]]])

LEMMA FieldAppend ==
  ASSUME NEW T, NEW Rec, NEW lists \in Seq(Rec), NEW x \in Rec, NEW F \in [Rec -> Seq(T)]
  PROVE  Fields(F, Append(lists, x)) = Fields(F, lists) \o F[x] /\ Fields(F, lists) \in Seq(T)
<1> DEFINE n == Len(lists)
           s == [i \in DOMAIN lists |-> F[lists[i]]]
           all == Append(lists, x)
           t == [i \in DOMAIN all |-> F[all[i]]]
<1>1. /\ n \in Nat /\ DOMAIN lists = 1 .. n /\ \A i \in 1 .. n : lists[i] \in Rec
      /\ DOMAIN all = 1 .. n + 1 /\ all[n + 1] = x /\ \A i \in 1 .. n : all[i] = lists[i]
  OBVIOUS
<1>2. F[x] \in Seq(T)
  OBVIOUS
<1>3. s \in Seq(Seq(T)) /\ Len(s) = n
  <2>1. s = [i \in 1 .. n |-> F[lists[i]]] /\ \A i \in 1 .. n : F[lists[i]] \in Seq(T)
    BY <1>1
  <2>2. s \in [1 .. n -> Seq(T)]
    BY <2>1
  <2> HIDE DEF s, n
  <2> QED
    BY <1>1, <2>2
<1>4. t = Append(s, F[x])
  <2>1. Append(s, F[x]) = [i \in 1 .. n + 1 |-> IF i = n + 1 THEN F[x] ELSE s[i]]
    <3> HIDE DEF s, n
    <3> QED
      BY <1>2, <1>3, AppendIs
  <2>2. ASSUME NEW i \in 1 .. n + 1 PROVE F[all[i]] = IF i = n + 1 THEN F[x] ELSE s[i]
    <3>1. CASE i = n + 1
      BY <1>1, <3>1
    <3>2. CASE i # n + 1
      <4>1. i \in 1 .. n
        BY <1>1, <3>2
      <4>2. s[i] = F[lists[i]]
        BY <1>1, <4>1
      <4>3. all[i] = lists[i]
        BY <1>1, <4>1
      <4> HIDE DEF all, s
      <4> QED
        BY <3>2, <4>2, <4>3
    <3> QED
      BY <3>1, <3>2
  <2>3. t = [i \in 1 .. n + 1 |-> F[all[i]]]
    BY <1>1
  <2> HIDE DEF s, t, all, n
  <2> QED
    BY <2>1, <2>2, <2>3
<1> HIDE DEF s, t
<1>5. FlattenSeq(Append(s, F[x])) = FlattenSeq(s) \o F[x]
  BY <1>2, <1>3, FlattenAppend
<1>6. FlattenSeq(s) \in Seq(T)
  BY <1>3, FlattenType
<1> QED
  BY <1>4, <1>5, <1>6 DEF s, t, Fields

LEMMA FieldsTyped ==
  ASSUME NEW T, NEW Rec, NEW lists \in Seq(Rec), NEW F \in [Rec -> Seq(T)]
  PROVE  Fields(F, lists) \in Seq(T)
<1> DEFINE n == Len(lists)
           s == [i \in DOMAIN lists |-> F[lists[i]]]
<1>1. n \in Nat /\ s = [i \in 1 .. n |-> F[lists[i]]] /\ \A i \in 1 .. n : F[lists[i]] \in Seq(T)
  OBVIOUS
<1>2. s \in [1 .. n -> Seq(T)]
  BY <1>1
<1> HIDE DEF s, n
<1>3. s \in Seq(Seq(T))
  BY <1>1, <1>2
<1> QED
  BY <1>3, FlattenType DEF Fields, s

LEMMA ItemsAppend ==
  ASSUME NEW lists \in Seq(Result), NEW r \in Result
  PROVE  /\ ItemsOf(Append(lists, r)) = ItemsOf(lists) \o r.items
         /\ ItemsOf(lists) \in Rowset /\ r.items \in Rowset
<1> DEFINE T == (1 .. MaxPages) \X (1 .. PageSize)
           F == [q \in Result |-> q.items]
<1>1. F \in [Result -> Seq(T)] /\ r.items \in Seq(T) /\ F[r] = r.items
  BY DEF Result, Rowset
<1>2. ASSUME NEW s \in Seq(Result) PROVE Fields(F, s) = ItemsOf(s)
  <2>1. \A i \in DOMAIN s : F[s[i]] = s[i].items
    OBVIOUS
  <2>2. [i \in DOMAIN s |-> F[s[i]]] = [i \in DOMAIN s |-> s[i].items]
    <3> HIDE DEF F
    <3> QED
      BY <2>1
  <2> QED
    BY <2>2 DEF ItemsOf, Fields
<1>3. Append(lists, r) \in Seq(Result)
  OBVIOUS
<1> HIDE DEF F, T
<1>4. Fields(F, Append(lists, r)) = Fields(F, lists) \o F[r] /\ Fields(F, lists) \in Seq(T)
  BY <1>1, <1>3, FieldAppend
<1> QED
  BY <1>1, <1>2, <1>3, <1>4 DEF Rowset, T

LEMMA PagesAppend ==
  ASSUME NEW lists \in Seq(Result), NEW r \in Result
  PROVE  /\ PagesOf(Append(lists, r)) = PagesOf(lists) \o r.served
         /\ PagesOf(lists) \in Served /\ r.served \in Served
<1> DEFINE F == [q \in Result |-> q.served]
<1>1. F \in [Result -> Seq(PageServed)] /\ r.served \in Seq(PageServed) /\ F[r] = r.served
  BY ServedIs DEF Result
<1>2. ASSUME NEW s \in Seq(Result) PROVE Fields(F, s) = PagesOf(s)
  <2>1. \A i \in DOMAIN s : F[s[i]] = s[i].served
    OBVIOUS
  <2>2. [i \in DOMAIN s |-> F[s[i]]] = [i \in DOMAIN s |-> s[i].served]
    <3> HIDE DEF F
    <3> QED
      BY <2>1
  <2> QED
    BY <2>2 DEF PagesOf, Fields
<1>3. Append(lists, r) \in Seq(Result)
  OBVIOUS
<1> HIDE DEF F
<1>4. Fields(F, Append(lists, r)) = Fields(F, lists) \o F[r] /\ Fields(F, lists) \in Seq(PageServed)
  BY <1>1, <1>3, FieldAppend
<1> QED
  BY <1>1, <1>2, <1>3, <1>4, ServedIs

LEMMA NothingOf == ItemsOf(<<>>) = <<>> /\ PagesOf(<<>>) = <<>>
<1>1. <<>> \in Seq(Seq(Nat)) /\ Len(<<>>) = 0 /\ DOMAIN <<>> = {}
  BY EmptyIsSeq
<1>2. [i \in DOMAIN <<>> |-> <<>>[i].items] = <<>> /\ [i \in DOMAIN <<>> |-> <<>>[i].served] = <<>>
  BY <1>1
<1>3. FlattenSeq(<<>>) = <<>>
  BY <1>1, FlattenSeqIs
<1> QED
  BY <1>2, <1>3 DEF ItemsOf, PagesOf

\* What a list that returns leaves counted.
LEMMA ReturnCounts ==
  ASSUME TypeOK, NEW error \in Errors, NEW kept \in Rowset, NEW ok \in BOOLEAN,
         NEW shown \in Served, Return(error, kept, ok, shown)
  PROVE  /\ Len(ItemsOf(results')) = Len(ItemsOf(results)) + Len(kept)
         /\ Len(PagesOf(results')) = Len(PagesOf(results)) + Len(shown)
         /\ Len(results') = Len(results) + 1
         /\ Len(items') = 0 /\ Len(served') = 0 /\ attempt' = 0 /\ Pending' = 0
<1> DEFINE r == [items |-> kept, error |-> error, success |-> ok, served |-> shown]
<1>1. /\ results \in Seq(Result) /\ results' = Append(results, r) /\ r \in Result
      /\ served' = <<>> /\ items' = <<>> /\ attempt' = 0 /\ stage' \in {"done", "ask"}
  BY ReturnTyped
<1>2. r.items = kept /\ r.served = shown
  OBVIOUS
<1> HIDE DEF r
<1>3. /\ ItemsOf(results') = ItemsOf(results) \o kept /\ ItemsOf(results) \in Rowset
      /\ PagesOf(results') = PagesOf(results) \o shown /\ PagesOf(results) \in Served
  BY <1>1, <1>2, ItemsAppend, PagesAppend
<1>4. Len(ItemsOf(results')) = Len(ItemsOf(results)) + Len(kept)
  BY <1>3 DEF Rowset
<1>5. Len(PagesOf(results')) = Len(PagesOf(results)) + Len(shown)
  BY <1>3 DEF Served
<1>6. Len(results') = Len(results) + 1
  BY <1>1
<1>7. Len(items') = 0 /\ Len(served') = 0
  BY <1>1, EmptyIsSeq
<1>8. Pending' = 0
  BY <1>1 DEF Pending
<1> QED
  BY <1>1, <1>4, <1>5, <1>6, <1>7, <1>8

\* What is counted are numbers.
LEMMA Counts ==
  ASSUME TypeOK
  PROVE  /\ Len(items) \in Nat /\ Len(served) \in Nat /\ Len(results) \in Nat
         /\ Len(ItemsOf(results)) \in Nat /\ Len(PagesOf(results)) \in Nat
         /\ requests \in Nat /\ rows \in Nat /\ attempt \in 0 .. 2 /\ Pending \in 0 .. 1
<1>1. items \in Rowset /\ served \in Served /\ results \in Seq(Result)
  BY DEF TypeOK, Result
<1>2. Len(items) \in Nat /\ Len(served) \in Nat /\ Len(results) \in Nat
  BY <1>1 DEF Rowset, Served
<1>3. /\ requests \in Nat /\ rows \in Nat /\ attempt \in 0 .. 2 /\ Pending \in 0 .. 1
  BY GithubClientAssumption DEF TypeOK, MaxAttempt, Pending
<1>4. ItemsOf(results) \in Seq((1 .. MaxPages) \X (1 .. PageSize)) /\ PagesOf(results) \in Seq(PageServed)
  <2> DEFINE F == [q \in Result |-> q.items]
             G == [q \in Result |-> q.served]
             T == (1 .. MaxPages) \X (1 .. PageSize)
  <2>1. F \in [Result -> Seq(T)] /\ G \in [Result -> Seq(PageServed)]
    BY ServedIs DEF Result, Rowset
  <2>2. /\ [i \in DOMAIN results |-> F[results[i]]] = [i \in DOMAIN results |-> results[i].items]
        /\ [i \in DOMAIN results |-> G[results[i]]] = [i \in DOMAIN results |-> results[i].served]
    <3>1. \A i \in DOMAIN results : F[results[i]] = results[i].items /\ G[results[i]] = results[i].served
      BY <1>1
    <3> HIDE DEF F, G
    <3> QED
      BY <3>1
  <2> HIDE DEF F, G, T
  <2>3. FlattenSeq([i \in DOMAIN results |-> F[results[i]]]) \in Seq(T)
    BY <1>1, <2>1, FieldsTyped DEF Fields
  <2>4. FlattenSeq([i \in DOMAIN results |-> G[results[i]]]) \in Seq(PageServed)
    BY <1>1, <2>1, FieldsTyped DEF Fields
  <2> QED
    BY <2>2, <2>3, <2>4 DEF ItemsOf, PagesOf, T
<1>5. Len(ItemsOf(results)) \in Nat /\ Len(PagesOf(results)) \in Nat
  BY <1>4
<1> QED
  BY <1>2, <1>3, <1>5

\* A list that returns with the pages it had.
LEMMA ReturnSpent ==
  ASSUME TypeOK, Spent, requests' = requests, rows' = rows,
         NEW error \in Errors, Return(error, items, success, served)
  PROVE  Spent'
<1>1. items \in Rowset /\ success \in BOOLEAN /\ served \in Served
  BY DEF TypeOK
<1>2. /\ Len(ItemsOf(results')) = Len(ItemsOf(results)) + Len(items)
      /\ Len(PagesOf(results')) = Len(PagesOf(results)) + Len(served)
      /\ Len(results') = Len(results) + 1
      /\ Len(items') = 0 /\ Len(served') = 0 /\ attempt' = 0 /\ Pending' = 0
  BY <1>1, ReturnCounts
<1>3. rows' = Len(items') + Len(ItemsOf(results'))
  BY <1>2, Counts DEF Spent
<1>4. requests' <= 3 * (Len(served') + Len(PagesOf(results')) + Len(results')) + attempt' + Pending'
  BY <1>2, Counts DEF Spent
<1> QED
  BY <1>3, <1>4 DEF Spent

LEMMA PageSpent ==
  ASSUME TypeOK, Spent,
         NEW length \in 0 .. PageSize + 1, NEW link \in Links, NEW d \in Durations,
         Page(length, link, d)
  PROVE  Spent'
<1> DEFINE kept == KeptOf(length)
           end == EndOf(length, link)
           now == items \o Rows(kept)
           one == [length |-> length, more |-> More(length, link)]
           shown == Append(served, one)
<1>1. /\ stage = "asked" /\ UNCHANGED requests
      /\ kept \in 0 .. PageSize /\ rows' = rows + kept
      /\ end \in {"limit", "pagination", "none", "more"}
      /\ More(length, link) \in BOOLEAN
      /\ \/ /\ end = "more" /\ stage' = "ask"
            /\ items' = now /\ success' = TRUE /\ page' = page + 1 /\ attempt' = 0
            /\ served' = shown /\ UNCHANGED results
         \/ end # "more" /\ Return(end, now, TRUE, shown)
  BY PageIs
<1> HIDE DEF kept, end
<1>a. kept \in Nat
  BY <1>1, GithubClientAssumption
<1>2. items \in Rowset /\ served \in Served
  BY DEF TypeOK
<1>3. Rows(kept) \in Rowset /\ Len(Rows(kept)) = kept
  BY <1>1, RowsAre DEF TypeOK
<1>4. now \in Rowset /\ Len(now) = Len(items) + kept
  <2>1. \A T : \A s, t \in Seq(T) : s \o t \in Seq(T) /\ Len(s \o t) = Len(s) + Len(t)
    OBVIOUS
  <2> QED
    BY <1>2, <1>3, <2>1 DEF Rowset
<1>5. shown \in Served /\ Len(shown) = Len(served) + 1
  <2>1. one \in PageServed
    BY <1>1 DEF PageServed
  <2> HIDE DEF one
  <2> QED
    BY <1>2, <2>1, ServedIs
<1>6. requests <= 3 * (Len(served) + Len(PagesOf(results)) + Len(results)) + attempt + 1
  BY <1>1, Counts DEF Spent, Pending
<1> HIDE DEF now, shown
<1>7. CASE /\ end = "more" /\ stage' = "ask" /\ items' = now /\ attempt' = 0
           /\ served' = shown /\ UNCHANGED results
  <2>1. Pending' = 0
    BY <1>7 DEF Pending
  <2>2. rows' = Len(items') + Len(ItemsOf(results'))
    <3>1. Len(items') = Len(items) + kept /\ ItemsOf(results') = ItemsOf(results)
      BY <1>4, <1>7
    <3> QED
      BY <1>1, <3>1, Counts DEF Spent
  <2>3. requests' <= 3 * (Len(served') + Len(PagesOf(results')) + Len(results')) + attempt' + Pending'
    <3>1. /\ Len(served') = Len(served) + 1 /\ PagesOf(results') = PagesOf(results)
          /\ Len(results') = Len(results) /\ attempt' = 0 /\ requests' = requests
      BY <1>1, <1>5, <1>7
    <3> QED
      BY <1>6, <2>1, <3>1, Counts
  <2> QED
    BY <2>2, <2>3 DEF Spent
<1>8. CASE end # "more" /\ Return(end, now, TRUE, shown)
  <2>1. end \in Errors
    BY <1>1, <1>8 DEF Errors, Refusals
  <2>2. /\ Len(ItemsOf(results')) = Len(ItemsOf(results)) + Len(now)
        /\ Len(PagesOf(results')) = Len(PagesOf(results)) + Len(shown)
        /\ Len(results') = Len(results) + 1
        /\ Len(items') = 0 /\ Len(served') = 0 /\ attempt' = 0 /\ Pending' = 0
    BY <1>4, <1>5, <1>8, <2>1, ReturnCounts
  <2>3. rows' = Len(items') + Len(ItemsOf(results'))
    BY <1>a, <1>1, <1>4, <2>2, Counts DEF Spent
  <2>4. requests' <= 3 * (Len(served') + Len(PagesOf(results')) + Len(results')) + attempt' + Pending'
    <3>1. /\ Len(PagesOf(results')) = Len(PagesOf(results)) + Len(served) + 1
          /\ requests' = requests /\ Len(results') = Len(results) + 1
          /\ Len(served') = 0 /\ attempt' = 0 /\ Pending' = 0
      BY <1>1, <1>5, <2>2, Counts
    <3>2. requests <= 3 * (Len(served) + Len(PagesOf(results)) + Len(results)) + 3
      BY <1>6, Counts
    <3> QED
      BY <3>1, <3>2, Counts
  <2> QED
    BY <2>3, <2>4 DEF Spent
<1> QED
  BY <1>1, <1>7, <1>8

LEMMA InitSpent == Init => Spent
<1> SUFFICES ASSUME Init PROVE Spent
  OBVIOUS
<1>1. /\ rows = 0 /\ requests = 0 /\ attempt = 0 /\ items = <<>> /\ results = <<>> /\ served = <<>>
      /\ stage \in {"ask", "done"}
  BY DEF Init
<1>2. Len(items) = 0 /\ Len(results) = 0 /\ Len(served) = 0
      /\ Len(ItemsOf(results)) = 0 /\ Len(PagesOf(results)) = 0
  BY <1>1, EmptyIsSeq, NothingOf
<1>3. Pending = 0
  BY <1>1 DEF Pending
<1> QED
  BY <1>1, <1>2, <1>3 DEF Spent

LEMMA NextSpent == Typed /\ Spent /\ [Next]_vars => Spent'
<1> SUFFICES ASSUME Typed, Spent, [Next]_vars PROVE Spent'
  OBVIOUS
<1>0. TypeOK
  BY DEF Typed
<1>1. ASSUME rows' = rows, UNCHANGED <<items, results, served>>,
             requests' - attempt' - Pending' = requests - attempt - Pending,
             requests' \in Nat, attempt' \in Nat, Pending' \in Nat
      PROVE  Spent'
  <2>1. /\ Len(items') = Len(items) /\ ItemsOf(results') = ItemsOf(results)
        /\ Len(served') = Len(served) /\ PagesOf(results') = PagesOf(results)
        /\ Len(results') = Len(results)
    BY <1>1
  <2>2. rows' = Len(items') + Len(ItemsOf(results'))
    BY <1>1, <2>1 DEF Spent
  <2>3. requests' <= 3 * (Len(served') + Len(PagesOf(results')) + Len(results')) + attempt' + Pending'
    <3>1. requests - attempt - Pending <= 3 * (Len(served) + Len(PagesOf(results)) + Len(results))
      BY <1>0, Counts DEF Spent
    <3>2. requests' - attempt' - Pending' <= 3 * (Len(served') + Len(PagesOf(results')) + Len(results'))
      BY <1>1, <2>1, <3>1
    <3>3. \A q, a, p, b \in Nat : q - a - p <= b => q <= b + a + p
      OBVIOUS
    <3>4. 3 * (Len(served') + Len(PagesOf(results')) + Len(results')) \in Nat
      BY <1>0, <2>1, Counts
    <3> QED
      BY <1>1, <3>2, <3>3, <3>4
  <2> QED
    BY <2>2, <2>3 DEF Spent
<1>2. CASE OutOfRequests
  <2>1. "limit" \in Errors
    BY DEF Errors, Refusals
  <2> QED
    BY <1>0, <1>2, <2>1, ReturnSpent DEF OutOfRequests
<1>3. CASE Ask
  <2>1. /\ rows' = rows /\ UNCHANGED <<items, results, served>> /\ requests' = requests + 1
        /\ attempt' = attempt /\ Pending = 0 /\ Pending' = 1
    BY <1>3 DEF Ask, Pending
  <2> QED
    BY <1>0, <1>1, <2>1, Counts
<1>4. CASE Wake
  <2>1. /\ rows' = rows /\ UNCHANGED <<items, results, served>> /\ requests' = requests
        /\ attempt' = attempt + 1 /\ Pending = 1 /\ Pending' = 0
    BY <1>4 DEF Wake, Pending
  <2> QED
    BY <1>0, <1>1, <2>1, Counts
<1>5. CASE DeadlinePasses
  <2>1. /\ rows' = rows /\ UNCHANGED <<items, results, served>> /\ requests' = requests
        /\ attempt' = attempt /\ Pending = 1 /\ Pending' = 1
    BY <1>5 DEF DeadlinePasses, Dropped, Pending
  <2> QED
    BY <1>0, <1>1, <2>1, Counts
<1>6. CASE UNCHANGED vars
  <2>1. /\ rows' = rows /\ UNCHANGED <<items, results, served>> /\ requests' = requests
        /\ attempt' = attempt /\ Pending' = Pending
    BY <1>6 DEF vars, Pending
  <2> QED
    BY <1>0, <1>1, <2>1, Counts
<1>7. ASSUME NEW d \in Durations, NEW code \in Refusals, Refused(code, d) PROVE Spent'
  <2>1. code \in Errors
    BY DEF Errors
  <2> QED
    BY <1>0, <1>7, <2>1, ReturnSpent DEF Refused
<1>8. ASSUME NEW d \in Durations, NEW limited \in BOOLEAN, NEW h \in Headers, Limited(limited, h, d)
      PROVE  Spent'
  <2>1. "rate_limit" \in Errors /\ "unavailable" \in Errors
    BY DEF Errors
  <2>2. /\ stage = "asked" /\ UNCHANGED <<requests, rows>>
        /\ \/ stage' = "sleeping" /\ UNCHANGED <<attempt, items, results, served>>
           \/ Return("rate_limit", items, success, served)
           \/ Return("unavailable", items, success, served)
    BY <1>8 DEF Limited
  <2>3. CASE stage' = "sleeping" /\ UNCHANGED <<attempt, items, results, served>>
    <3>1. Pending = 1 /\ Pending' = 1
      BY <2>2, <2>3 DEF Pending
    <3> QED
      BY <1>0, <1>1, <2>2, <2>3, <3>1, Counts
  <2> QED
    BY <1>0, <2>1, <2>2, <2>3, ReturnSpent
<1>9. ASSUME NEW d \in Durations, Answer(d) PROVE Spent'
  <2>1. ASSUME NEW length \in 0 .. PageSize + 1, NEW link \in Links, Page(length, link, d)
        PROVE  Spent'
    BY <1>0, <2>1, PageSpent
  <2> QED
    BY <1>7, <1>8, <1>9, <2>1 DEF Answer
<1> QED
  BY <1>2, <1>3, <1>4, <1>5, <1>6, <1>9 DEF Next

\* Every row charged to the shared budget is kept, and a page or a list costs at
\* most three of the shared requests (Budget and get_media, client.rs 60-147).
THEOREM BudgetsKept == Spec => []BudgetsAreKept
<1>1. Init => Typed /\ Spent
  BY InitTyped, InitSpent
<1>2. Typed /\ Spent /\ [Next]_vars => (Typed /\ Spent)'
  BY NextTyped, NextSpent
<1>3. Typed /\ Spent => BudgetsAreKept
  <2> SUFFICES ASSUME Typed, Spent PROVE BudgetsAreKept
    OBVIOUS
  <2>1. TypeOK
    BY DEF Typed
  <2>2. requests <= (MaxAttempt + 1)
                      * (Len(served) + 1 + Len(PagesOf(results)) + Len(results))
    BY <2>1, Counts DEF Spent, MaxAttempt
  <2>3. rows = Len(items) + Len(ItemsOf(results))
    BY DEF Spent
  <2> QED
    BY <2>2, <2>3 DEF BudgetsAreKept, ItemsOf, PagesOf
<1> QED
  BY <1>1, <1>2, <1>3, PTL DEF Spec

=============================================================================
