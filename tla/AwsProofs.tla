------------------------------ MODULE AwsProofs ------------------------------
(***************************************************************************)
(* Theorems about Aws.  IAM: whatever the pages hold and wherever they     *)
(* end, what the inventory says was said by a row that no other denies,    *)
(* and an inventory that calls itself complete was read along new markers  *)
(* to a page that ends the list and has left nothing out.  Identity        *)
(* Center: whatever its lists hold, wherever they end and in whichever     *)
(* order groups and accounts are walked, memberships and grants are those  *)
(* whose principals were themselves listed.                                *)
(***************************************************************************)
EXTENDS Aws, FiniteSetTheorems, TLAPS

(***************************************************************************)
(* IAM.                                                                    *)
(***************************************************************************)
PageTold ==
  [asked : Markers \cup {"first"}, truncated : BOOLEAN, next : Markers \cup {"none", Unfit},
   rows : SUBSET Row]

\* A row of a page.
Fit(r) ==
  /\ r \in Row
  /\ IsFiniteSet(r.attached) /\ IsFiniteSet(r.groups)
  /\ r.kind = "policy" => r.attached = {} /\ r.inline = <<>>
  /\ r.kind # "user" => r.groups = {}

\* What was collected is what was told.
Collected ==
  /\ told \in Seq(PageTold) /\ collected = Told
  /\ \A r \in Told : Fit(r)
  /\ phase = "caller" => told = <<>>
  /\ phase \in {"finish", "done"} => told # <<>>

\* The pages were read along markers, each of them new.
Chained ==
  /\ marker \in markers \cup {"first"} /\ marker \in Markers \cup {"first"}
  /\ markers \subseteq Markers
  /\ told = <<>> => marker = "first"
  /\ \A p \in 1 .. Len(told) :
       /\ told[p].asked \in markers \cup {"first"}
       /\ p < Len(told) => told[p].truncated /\ told[p + 1].asked = told[p].next
       /\ phase = "pages" => told[p].asked # marker
       /\ phase = "pages" /\ p = Len(told) => told[p].truncated /\ told[p].next = marker
       /\ phase \in {"finish", "done"} /\ ~warned /\ p = Len(told) =>
            ~told[p].truncated /\ told[p].next = "none"
  /\ \A p, q \in 1 .. Len(told) : told[p].asked = told[q].asked => p = q

IamInv ==
  /\ Collected /\ Chained
  /\ phase = "done" => inventory = Inventory
  /\ phase # "malformed"

LEMMA InitIam == IamInit => IamInv
BY DEF IamInit, IamInv, Collected, Chained, Told

LEMMA SameInventory == ASSUME UNCHANGED <<collected, warned>> PROVE Inventory' = Inventory
BY DEF Inventory, AllResolved, Usable, Unique, OfKind, Named, Attachments, Memberships, Principals,
       Managed, InlineOf

\* What is joined is there.
LEMMA ReferencesHold == References(Inventory)
<1>1. /\ Inventory.accounts = {Subject(s) : s \in Usable("user") \cup Usable("role")}
      /\ Inventory.groups = {g.id : g \in Named("group")}
      /\ Inventory.policies = {p.id : p \in Named("policy")}
      /\ Inventory.memberships = Memberships /\ Inventory.grants = Attachments
  BY DEF Inventory
<1>2. ASSUME NEW m \in Memberships
      PROVE  <<"user", m[1]>> \in Inventory.accounts /\ m[2] \in Inventory.groups
  <2>1. PICK u \in Usable("user") :
          m \in {<<u.id, g.id>> : g \in {x \in Named("group") : x.name \in u.groups}}
    BY DEF Memberships
  <2>2. PICK g \in Named("group") : m = <<u.id, g.id>>
    BY <2>1
  <2>3. Subject(u) = <<"user", m[1]>>
    BY <2>2 DEF Usable, Unique, OfKind, Subject
  <2> QED
    BY <1>1, <2>2, <2>3
<1>3. ASSUME NEW g \in Attachments
      PROVE  /\ g[1] \in Inventory.accounts \cup {<<"group", id>> : id \in Inventory.groups}
             /\ g[2] = "managed" => g[3] \in Inventory.policies
  <2>1. PICK r \in Principals :
          g \in {<<Subject(r), "managed", p.id>> : p \in Managed(r)}
                  \cup {<<Subject(r), "inline", n>> : n \in InlineOf(r)}
    BY DEF Attachments
  <2>2. g[1] = Subject(r)
    BY <2>1
  <2>3. Subject(r) \in Inventory.accounts \cup {<<"group", id>> : id \in Inventory.groups}
    <3>1. CASE r \in Usable("user") \cup Usable("role")
      BY <1>1, <3>1
    <3>2. CASE r \in Named("group")
      <4>1. Subject(r) = <<"group", r.id>>
        BY <3>2 DEF Named, Usable, Unique, OfKind, Subject
      <4> QED
        BY <1>1, <3>2, <4>1
    <3> QED
      BY <3>1, <3>2 DEF Principals
  <2>4. ASSUME g[2] = "managed" PROVE g[3] \in Inventory.policies
    <3>1. PICK p \in Managed(r) : g = <<Subject(r), "managed", p.id>>
      BY <2>1, <2>4
    <3>2. p \in Named("policy")
      BY DEF Managed
    <3> QED
      BY <1>1, <3>1, <3>2
  <2> QED
    BY <2>2, <2>3, <2>4
<1> QED
  BY <1>1, <1>2, <1>3 DEF References

LEMMA PageCollects ==
  ASSUME Collected, marker \in Markers \cup {"first"},
         NEW output \in Outputs, NEW truncated \in BOOLEAN, NEW next \in Markers \cup {"none", Unfit},
         Page(output, truncated, next)
  PROVE  Collected'
<1> DEFINE page == [asked |-> marker, truncated |-> truncated, next |-> next,
                    rows |-> {output[i] : i \in DOMAIN output}]
<1>1. output \in Seq(Row) /\ \A i \in DOMAIN output : Fit(output[i])
  BY AwsIamAssumption DEF Fit
<1>2. page \in PageTold
  BY <1>1 DEF PageTold
<1>3. told' = Append(told, page) /\ collected' = collected \cup page.rows
  BY DEF Page
<1>4. page.rows = {output[i] : i \in DOMAIN output}
  OBVIOUS
<1> HIDE DEF page
<1>5. /\ told' \in Seq(PageTold) /\ told' # <<>> /\ told \in Seq(PageTold)
      /\ DOMAIN told' = DOMAIN told \cup {Len(told) + 1}
      /\ told'[Len(told) + 1] = page /\ \A p \in DOMAIN told : told'[p] = told[p]
  BY <1>2, <1>3 DEF Collected
<1>6. Told' = Told \cup page.rows
  BY <1>5 DEF Told
<1>7. phase' \in {"pages", "finish"}
  BY DEF Page
<1> QED
  BY <1>1, <1>3, <1>4, <1>5, <1>6, <1>7 DEF Collected

LEMMA PageChains ==
  ASSUME Collected, Chained,
         NEW output \in Outputs, NEW truncated \in BOOLEAN, NEW next \in Markers \cup {"none", Unfit},
         Page(output, truncated, next)
  PROVE  Chained'
<1> DEFINE end == PageEnds(truncated, next)
           n == Len(told) + 1
<1>1. /\ end = "more" => truncated /\ next \in Markers \ markers
      /\ end = "whole" => ~truncated /\ next = "none"
      /\ end \in {"more", "whole", "cut"}
  BY DEF PageEnds
<1>2. /\ phase = "pages" /\ phase' = IF end = "more" THEN "pages" ELSE "finish"
      /\ marker' = IF end = "more" THEN next ELSE marker
      /\ markers' = IF truncated /\ next \in Markers THEN markers \cup {next} ELSE markers
      /\ warned' = (warned \/ end = "cut")
  BY DEF Page
<1>3. /\ n \in Nat \ {0} /\ Len(told') = n
      /\ \A p \in 1 .. Len(told) : told'[p] = told[p]
      /\ told'[n].asked = marker /\ told'[n].truncated = truncated /\ told'[n].next = next
  BY DEF Page, Collected
<1> HIDE DEF end, n
<1>4. Len(told) = n - 1 /\ Len(told) \in Nat /\ told' # <<>>
  BY <1>3 DEF n, Collected, Page
<1>5. /\ marker' \in markers' \cup {"first"} /\ marker' \in Markers \cup {"first"}
      /\ markers' \subseteq Markers /\ markers \subseteq markers'
  BY <1>1, <1>2 DEF Chained
<1>6. /\ \A p \in 1 .. Len(told) : told[p].asked # marker
      /\ told # <<>> => told[Len(told)].truncated /\ told[Len(told)].next = marker
  BY <1>2, <1>4 DEF Chained, Collected
<1>7. "first" \notin Markers
  BY AwsIamAssumption
<1>8. ASSUME NEW p \in 1 .. n
      PROVE  /\ told'[p].asked \in markers' \cup {"first"}
             /\ p < n => told'[p].truncated /\ told'[p + 1].asked = told'[p].next
             /\ phase' = "pages" => told'[p].asked # marker'
             /\ phase' = "pages" /\ p = n => told'[p].truncated /\ told'[p].next = marker'
             /\ phase' \in {"finish", "done"} /\ ~warned' /\ p = n =>
                  ~told'[p].truncated /\ told'[p].next = "none"
  <2>1. told'[p].asked \in markers \cup {"first"}
    BY <1>3, <1>4 DEF Chained
  <2>2. p < n => told'[p].truncated /\ told'[p + 1].asked = told'[p].next
    <3>1. CASE p < Len(told)
      BY <1>3, <1>4, <3>1 DEF Chained
    <3>2. CASE p = Len(told)
      BY <1>3, <1>4, <1>6, <3>2
    <3> QED
      BY <1>3, <1>4, <3>1, <3>2
  <2>3. phase' = "pages" => end = "more"
    BY <1>2
  <2>4. phase' # "pages" /\ ~warned' => end = "whole"
    BY <1>1, <1>2
  <2> QED
    BY <1>1, <1>2, <1>3, <1>5, <1>7, <2>1, <2>2, <2>3, <2>4
<1>9. ASSUME NEW p \in 1 .. n, NEW q \in 1 .. n, told'[p].asked = told'[q].asked
      PROVE  p = q
  BY <1>3, <1>4, <1>6, <1>9 DEF Chained
<1> QED
  BY <1>3, <1>4, <1>5, <1>8, <1>9 DEF Chained

LEMMA NextIam == ASSUME IamInv, [IamNext]_iamVars PROVE IamInv'
<1>1. ASSUME NEW output \in Outputs, NEW truncated \in BOOLEAN,
             NEW next \in Markers \cup {"none", Unfit}, Page(output, truncated, next)
      PROVE  IamInv'
  <2>1. phase' \notin {"done", "malformed"}
    BY <1>1 DEF Page
  <2> QED
    BY <1>1, <2>1, PageCollects, PageChains DEF IamInv, Chained
<1>2. CASE CallerProved
  BY <1>2 DEF CallerProved, IamInv, Collected, Chained, Told
<1>3. CASE CallerFails \/ \E output \in Outputs : TooMany(output)
  BY <1>3 DEF CallerFails, TooMany, IamInv, Collected, Chained, Told
<1>4. CASE PageFails
  <2>1. /\ phase' \in {"failed", "finish"}
        /\ phase' = "finish" => told # <<>> /\ warned'
        /\ UNCHANGED <<marker, markers, collected, told>>
    BY <1>4 DEF PageFails
  <2> QED
    BY <2>1 DEF IamInv, Collected, Chained, Told
<1>5. CASE Finish
  <2>1. /\ phase = "finish" /\ phase' \in {"failed", "done"}
        /\ phase' = "done" => inventory' = Inventory
        /\ UNCHANGED <<marker, markers, collected, count, warned, told>>
    BY <1>5, ReferencesHold DEF Finish
  <2>2. Collected' /\ Chained'
    BY <2>1 DEF IamInv, Collected, Chained, Told
  <2> QED
    BY <2>1, <2>2, SameInventory DEF IamInv
<1>6. CASE UNCHANGED iamVars
  BY <1>6, SameInventory DEF iamVars, IamInv, Collected, Chained, Told
<1> QED
  BY <1>1, <1>2, <1>3, <1>4, <1>5, <1>6 DEF IamNext

-----------------------------------------------------------------------------
(***************************************************************************)
(* What the inventory says.                                                *)
(***************************************************************************)
\* A row is usable if no row that was told denies it.
LEMMA UsableRows ==
  ASSUME Collected
  PROVE  /\ \A r : r \in Usable(r.kind) <=> r \in Told /\ Undisputed(r)
         /\ \A kind, r : r \in Usable(kind) => r.kind = kind /\ r \in Told /\ Undisputed(r)
BY DEF Usable, Unique, OfKind, Undisputed, Collected

\* A name that is found stands for one entity.
LEMMA NamedRows ==
  ASSUME Collected, NEW kind, NEW r \in Named(kind)
  PROVE  {x \in Told : x.kind = kind /\ Undisputed(x) /\ x.name = r.name} = {r}
BY UsableRows DEF Named

\* So nobody in the inventory is disputed, and no name of it stands for two.
LEMMA RecordsSound ==
  ASSUME Collected
  PROVE  /\ Inventory.accounts \subseteq {Subject(r) : r \in {x \in Told : Undisputed(x)}}
         /\ \A id \in Inventory.groups :
              \E r \in Told : r.kind = "group" /\ r.id = id /\ Unshared(r)
         /\ \A id \in Inventory.policies :
              \E r \in Told : r.kind = "policy" /\ r.id = id /\ Unshared(r)
<1>1. /\ Inventory.accounts = {Subject(s) : s \in Usable("user") \cup Usable("role")}
      /\ Inventory.groups = {g.id : g \in Named("group")}
      /\ Inventory.policies = {p.id : p \in Named("policy")}
  BY DEF Inventory
<1>2. \A kind : \A r \in Named(kind) : r \in Told /\ r.kind = kind /\ Unshared(r)
  BY UsableRows DEF Named, Unshared
<1>3. \A r \in Usable("user") \cup Usable("role") : r \in Told /\ Undisputed(r)
  BY UsableRows
<1> QED
  BY <1>1, <1>2, <1>3

LEMMA PrincipalRows ==
  ASSUME Collected, NEW r \in Principals
  PROVE  /\ r \in Told /\ Undisputed(r)
         /\ \A s \in Principals : Subject(s) = Subject(r) => s = r
<1>1. \A s \in Principals : s \in Told /\ Undisputed(s)
  BY UsableRows DEF Principals, Named
<1>2. \A s \in Principals : Subject(s) = Subject(r) => s.kind = r.kind /\ s.id = r.id
  BY DEF Subject
<1> QED
  BY <1>1, <1>2 DEF Undisputed

LEMMA GrantsSound ==
  ASSUME Collected, NEW g \in Attachments
  PROVE  \E r \in Told : /\ Subject(r) = g[1] /\ Undisputed(r)
                         /\ g[2] = "managed" =>
                              \E a \in r.attached :
                                {p.id : p \in {x \in Told : x.kind = "policy" /\ Undisputed(x)
                                                              /\ x.name = a[1]}} = {g[3]}
<1>1. PICK r \in Principals :
        g \in {<<Subject(r), "managed", p.id>> : p \in Managed(r)}
                \cup {<<Subject(r), "inline", n>> : n \in InlineOf(r)}
  BY DEF Attachments
<1>2. r \in Told /\ Undisputed(r)
  BY PrincipalRows
<1>3. CASE g \in {<<Subject(r), "managed", p.id>> : p \in Managed(r)}
  <2>1. PICK p \in Named("policy") :
          <<p.name, TRUE>> \in r.attached /\ g = <<Subject(r), "managed", p.id>>
    BY <1>3 DEF Managed
  <2>2. {x \in Told : x.kind = "policy" /\ Undisputed(x) /\ x.name = p.name} = {p}
    BY NamedRows
  <2>3. <<p.name, TRUE>>[1] = p.name
    OBVIOUS
  <2>4. {q.id : q \in {x \in Told : x.kind = "policy" /\ Undisputed(x)
                                  /\ x.name = <<p.name, TRUE>>[1]}} = {g[3]}
    BY <2>1, <2>2, <2>3
  <2> QED
    BY <1>2, <2>1, <2>4
<1>4. CASE g \in {<<Subject(r), "inline", n>> : n \in InlineOf(r)}
  <2>1. g[1] = Subject(r) /\ g[2] # "managed"
    BY <1>4
  <2> QED
    BY <1>2, <2>1
<1> QED
  BY <1>1, <1>3, <1>4

LEMMA MembershipsSound ==
  ASSUME Collected, NEW m \in Memberships
  PROVE  \E u \in Told : /\ Subject(u) = <<"user", m[1]>> /\ Undisputed(u)
                         /\ \E n \in u.groups :
                              {g.id : g \in {x \in Told : x.kind = "group" /\ Undisputed(x)
                                                            /\ x.name = n}} = {m[2]}
<1>1. PICK u \in Usable("user") :
        m \in {<<u.id, g.id>> : g \in {x \in Named("group") : x.name \in u.groups}}
  BY DEF Memberships
<1>2. PICK g \in Named("group") : g.name \in u.groups /\ m = <<u.id, g.id>>
  BY <1>1
<1>3. u \in Told /\ Undisputed(u) /\ Subject(u) = <<"user", m[1]>>
  BY <1>2, UsableRows DEF Subject
<1>4. {x \in Told : x.kind = "group" /\ Undisputed(x) /\ x.name = g.name} = {g}
  BY NamedRows
<1>5. {x.id : x \in {y \in Told : y.kind = "group" /\ Undisputed(y) /\ y.name = g.name}} = {m[2]}
  BY <1>2, <1>4
<1> QED
  BY <1>2, <1>3, <1>5

-----------------------------------------------------------------------------
(***************************************************************************)
(* What a complete inventory holds.                                        *)
(***************************************************************************)
\* Two finite sets whose elements correspond one to one have one size.
LEMMA SameSize ==
  ASSUME NEW S, NEW T, NEW f \in [S -> T], IsFiniteSet(S),
         \A x, y \in S : f[x] = f[y] => x = y,
         \A t \in T : \E x \in S : f[x] = t
  PROVE  IsFiniteSet(T) /\ Cardinality(T) = Cardinality(S)
<1>1. f \in Bijection(S, T)
  BY DEF Bijection, Injection, Surjection, IsInjective
<1>2. ExistsBijection(S, T)
  BY <1>1 DEF ExistsBijection
<1> QED
  BY <1>2, FS_Bijection

\* The policies found for a principal are one for each that is attached to it.
LEMMA ManagedSize ==
  ASSUME Collected, NEW r \in Told,
         r.attached \subseteq {<<p.name, TRUE>> : p \in Named("policy")}
  PROVE  LET managed == {<<Subject(r), "managed", p.id>> : p \in Managed(r)} IN
         IsFiniteSet(managed) /\ Cardinality(managed) = Cardinality(r.attached)
<1> DEFINE managed == {<<Subject(r), "managed", p.id>> : p \in Managed(r)}
<1>1. IsFiniteSet(r.attached)
  BY DEF Collected, Fit
<1>2. ASSUME NEW a \in r.attached PROVE \E p \in Managed(r) : a = <<p.name, TRUE>>
  BY <1>2 DEF Managed
<1> DEFINE policy(a) == CHOOSE p \in Managed(r) : a = <<p.name, TRUE>>
           f == [a \in r.attached |-> <<Subject(r), "managed", policy(a).id>>]
<1>3. \A a \in r.attached : policy(a) \in Managed(r) /\ a = <<policy(a).name, TRUE>>
  BY <1>2
<1>4. \A p \in Managed(r), q \in Managed(r) : (p.name = q.name \/ p.id = q.id) => p = q
  <2>1. ASSUME NEW p \in Named("policy"), NEW q \in Named("policy"),
               p.name = q.name \/ p.id = q.id
        PROVE  p = q
    <3>1. Undisputed(p) /\ p \in Told /\ q \in Told /\ p.kind = q.kind
      BY UsableRows DEF Named
    <3> QED
      BY <2>1, <3>1 DEF Named, Undisputed
  <2> QED
    BY <2>1 DEF Managed
<1>5. f \in [r.attached -> managed]
  BY <1>3
<1>6. ASSUME NEW a \in r.attached, NEW b \in r.attached, f[a] = f[b] PROVE a = b
  <2>1. policy(a).id = policy(b).id
    BY <1>6
  <2>2. policy(a) = policy(b)
    BY <2>1, <1>3, <1>4
  <2> QED
    BY <2>2, <1>3
<1>7. ASSUME NEW t \in managed PROVE \E a \in r.attached : f[a] = t
  <2>1. PICK p \in Managed(r) : t = <<Subject(r), "managed", p.id>>
    BY <1>7
  <2>2. <<p.name, TRUE>> \in r.attached
    BY DEF Managed
  <2>3. policy(<<p.name, TRUE>>).name = p.name /\ policy(<<p.name, TRUE>>) \in Managed(r)
    BY <2>2, <1>3
  <2>4. policy(<<p.name, TRUE>>) = p
    BY <2>3, <1>4
  <2> QED
    BY <2>1, <2>2, <2>4
<1> HIDE DEF f, managed
<1> QED
  BY <1>1, <1>5, <1>6, <1>7, SameSize DEF managed

\* Its inline policies are one for each name when no name is lost or said twice.
LEMMA InlineSize ==
  ASSUME NEW r \in Row, Len(r.inline) = Cardinality(InlineOf(r))
  PROVE  LET inline == {<<Subject(r), "inline", n>> : n \in InlineOf(r)} IN
         IsFiniteSet(inline) /\ Cardinality(inline) = Len(r.inline)
<1> DEFINE inline == {<<Subject(r), "inline", n>> : n \in InlineOf(r)}
           names == {r.inline[i] : i \in DOMAIN r.inline}
           f == [n \in InlineOf(r) |-> <<Subject(r), "inline", n>>]
<1>1. r.inline \in Seq(STRING)
  BY DEF Row
<1>2. IsFiniteSet(1 .. Len(r.inline))
  BY <1>1, FS_Interval
<1>3. \A i \in 1 .. Len(r.inline) : r.inline[i] \in names
  BY <1>1
<1>4. r.inline \in Surjection(1 .. Len(r.inline), names)
  BY <1>1, <1>3 DEF Surjection
<1>5. IsFiniteSet(names)
  BY <1>2, <1>4, FS_Surjection
<1>6. IsFiniteSet(InlineOf(r))
  BY <1>5, FS_Subset DEF InlineOf
<1>7. f \in [InlineOf(r) -> inline]
  OBVIOUS
<1>8. \A m, n \in InlineOf(r) : f[m] = f[n] => m = n
  OBVIOUS
<1>9. \A t \in inline : \E n \in InlineOf(r) : f[n] = t
  OBVIOUS
<1> HIDE DEF f, inline
<1> QED
  BY <1>6, <1>7, <1>8, <1>9, SameSize DEF inline

\* What is attached to a row is counted once each.
LEMMA AttachmentsSize ==
  ASSUME Collected, AllResolved, NEW r \in Told
  PROVE  Cardinality({g \in Attachments : g[1] = Subject(r)})
           = Cardinality(r.attached) + Len(r.inline)
<1> DEFINE managed == {<<Subject(r), "managed", p.id>> : p \in Managed(r)}
           inline == {<<Subject(r), "inline", n>> : n \in InlineOf(r)}
           own == {g \in Attachments : g[1] = Subject(r)}
<1>1. r \in Row /\ r.kind \in Kinds
  BY DEF Collected, Fit, Row
<1>2. CASE r.kind = "policy"
  <2>1. \A s \in Principals : s.kind # "policy"
    BY UsableRows DEF Principals, Named
  <2>2. \A g \in Attachments : \E s \in Principals : g[1] = Subject(s)
    BY DEF Attachments
  <2>3. \A g \in Attachments : g[1] # Subject(r)
    BY <1>2, <2>1, <2>2 DEF Subject
  <2>4. own = {}
    BY <2>3
  <2>5. r.attached = {} /\ r.inline = <<>>
    BY <1>2 DEF Collected, Fit
  <2>6. Cardinality({}) = 0
    BY FS_EmptySet
  <2>7. Cardinality(r.attached) = 0 /\ Cardinality(own) = 0
    BY <2>4, <2>5, <2>6
  <2>8. Len(r.inline) = 0
    BY <2>5
  <2> HIDE DEF own
  <2> QED
    BY <2>7, <2>8 DEF own
<1>3. CASE r.kind # "policy"
  <2>1. r \in OfKind(r.kind)
    BY DEF OfKind, Collected
  <2>2. r \in Principals
    BY <1>1, <1>3, <2>1 DEF Kinds, AllResolved, Principals
  <2>3. /\ r.attached \subseteq {<<p.name, TRUE>> : p \in Named("policy")}
        /\ Len(r.inline) = Cardinality(InlineOf(r))
    BY <2>2 DEF AllResolved
  <2>4. IsFiniteSet(managed) /\ Cardinality(managed) = Cardinality(r.attached)
    BY <2>3, ManagedSize
  <2>5. IsFiniteSet(inline) /\ Cardinality(inline) = Len(r.inline)
    BY <1>1, <2>3, InlineSize
  <2>6. managed \cap inline = {}
    OBVIOUS
  <2>7. \A s \in Principals : Subject(s) = Subject(r) => s = r
    BY <2>2, PrincipalRows
  <2>8. ASSUME NEW g \in own PROVE g \in managed \cup inline
    <3>1. PICK s \in Principals :
            g \in {<<Subject(s), "managed", p.id>> : p \in Managed(s)}
                    \cup {<<Subject(s), "inline", n>> : n \in InlineOf(s)}
      BY <2>8 DEF Attachments
    <3>2. Subject(s) = g[1] /\ g[1] = Subject(r)
      BY <3>1, <2>8
    <3>3. s = r
      BY <3>2, <2>7
    <3> QED
      BY <3>1, <3>3
  <2>9. ASSUME NEW g \in managed \cup inline PROVE g \in own
    BY <2>2, <2>9 DEF Attachments
  <2>10. Cardinality(r.attached) \in Nat /\ Len(r.inline) \in Nat
    BY <1>1, FS_CardinalityType DEF Collected, Fit, Row
  <2> HIDE DEF managed, inline, own
  <2>11. own = managed \cup inline
    BY <2>8, <2>9
  <2>12. Cardinality(managed \cup inline) = Cardinality(managed) + Cardinality(inline)
    <3>1. Cardinality(managed \cup inline)
            = Cardinality(managed) + Cardinality(inline) - Cardinality(managed \cap inline)
      BY <2>4, <2>5, FS_Union
    <3>2. Cardinality(managed \cap inline) = 0
      BY <2>6, FS_EmptySet
    <3>3. Cardinality(managed) \in Nat /\ Cardinality(inline) \in Nat
      BY <2>4, <2>5, <2>10
    <3> QED
      BY <3>1, <3>2, <3>3
  <2> QED
    BY <2>4, <2>5, <2>11, <2>12 DEF own
<1> QED
  BY <1>2, <1>3

\* A user is counted in each of her groups once.
LEMMA MembershipsSize ==
  ASSUME Collected, AllResolved, NEW r \in Told
  PROVE  Cardinality({m \in Memberships : <<"user", m[1]>> = Subject(r)}) = Cardinality(r.groups)
<1> DEFINE own == {m \in Memberships : <<"user", m[1]>> = Subject(r)}
<1>1. IsFiniteSet(r.groups)
  BY DEF Collected, Fit
<1>2. CASE r.kind # "user"
  <2>1. own = {} /\ r.groups = {}
    BY <1>2 DEF Collected, Fit, Subject
  <2>2. Cardinality(own) = Cardinality(r.groups)
    BY <2>1
  <2> QED
    BY <2>2
<1>3. CASE r.kind = "user"
  <2>1. r \in OfKind("user") /\ OfKind("user") = Usable("user")
    BY <1>3 DEF OfKind, Collected, AllResolved, Kinds
  <2>2. r.groups \subseteq {g.name : g \in Named("group")}
    BY <2>1 DEF AllResolved
  <2>3. \A u \in Usable("user") : u.id = r.id => u = r
    BY <2>1, UsableRows DEF Undisputed
  <2>4. \A g, h \in Named("group") : (g.name = h.name \/ g.id = h.id) => g = h
    BY UsableRows DEF Named, Undisputed
  <2> DEFINE group(n) == CHOOSE g \in Named("group") : g.name = n
             f == [n \in r.groups |-> <<r.id, group(n).id>>]
  <2>5. \A n \in r.groups : group(n) \in Named("group") /\ group(n).name = n
    BY <2>2
  <2>6. ASSUME NEW n \in r.groups PROVE f[n] \in own
    <3>1. f[n] \in {<<r.id, g.id>> : g \in {x \in Named("group") : x.name \in r.groups}}
      BY <2>5
    <3>2. f[n] \in Memberships
      BY <3>1, <2>1 DEF Memberships
    <3> QED
      BY <3>2, <1>3 DEF Subject
  <2>7. ASSUME NEW n \in r.groups, NEW k \in r.groups, f[n] = f[k] PROVE n = k
    <3>1. group(n).id = group(k).id
      BY <2>7
    <3>2. group(n) = group(k)
      BY <3>1, <2>4, <2>5
    <3> QED
      BY <3>2, <2>5
  <2>8. ASSUME NEW m \in own PROVE \E n \in r.groups : f[n] = m
    <3>1. PICK u \in Usable("user") :
            m \in {<<u.id, g.id>> : g \in {x \in Named("group") : x.name \in u.groups}}
      BY DEF Memberships
    <3>2. PICK g \in Named("group") : g.name \in u.groups /\ m = <<u.id, g.id>>
      BY <3>1
    <3>3. u = r
      BY <3>2, <2>3 DEF Subject
    <3>4. group(g.name) = g
      BY <3>2, <3>3, <2>4, <2>5
    <3> QED
      BY <3>2, <3>3, <3>4
  <2> HIDE DEF own
  <2>9. f \in [r.groups -> own]
    BY <2>6
  <2> HIDE DEF f
  <2> QED
    BY <1>1, <2>7, <2>8, <2>9, SameSize DEF own
<1> QED
  BY <1>2, <1>3

\* A row of a complete inventory is in it.
LEMMA RowsKept ==
  ASSUME Collected, AllResolved, NEW r \in Told
  PROVE  CASE r.kind \in {"user", "role"} -> Subject(r) \in Inventory.accounts
           [] r.kind = "group"            -> r.id \in Inventory.groups
           [] r.kind = "policy"           -> r.id \in Inventory.policies
<1>1. r.kind \in Kinds /\ r \in OfKind(r.kind)
  BY DEF Collected, Fit, Row, OfKind
<1>2. OfKind(r.kind) = IF r.kind \in {"group", "policy"} THEN Named(r.kind) ELSE Usable(r.kind)
  BY <1>1 DEF AllResolved
<1>3. /\ Inventory.accounts = {Subject(s) : s \in Usable("user") \cup Usable("role")}
      /\ Inventory.groups = {g.id : g \in Named("group")}
      /\ Inventory.policies = {p.id : p \in Named("policy")}
  BY DEF Inventory
<1>4. CASE r.kind \in {"user", "role"}
  <2>1. r \in Usable("user") \cup Usable("role")
    BY <1>1, <1>2, <1>4
  <2> QED
    BY <1>3, <1>4, <2>1
<1>5. CASE r.kind = "group"
  BY <1>1, <1>2, <1>3, <1>5
<1>6. CASE r.kind = "policy"
  BY <1>1, <1>2, <1>3, <1>6
<1> QED
  BY <1>1, <1>4, <1>5, <1>6 DEF Kinds

\* The pages of an inventory without warnings are all there is.
LEMMA WholeChain ==
  ASSUME Collected, Chained, phase = "done", ~warned
  PROVE  /\ \A p, q \in DOMAIN told :
              /\ told[p].truncated = (p < Len(told))
              /\ told[p].asked = told[q].asked => p = q
              /\ p < Len(told) => told[p + 1].asked = told[p].next
         /\ told[Len(told)].next = "none"
<1>1. DOMAIN told = 1 .. Len(told) /\ Len(told) \in Nat \ {0}
  BY DEF Collected
<1>2. /\ Len(told) \in 1 .. Len(told)
      /\ ~told[Len(told)].truncated /\ told[Len(told)].next = "none"
  <2>1. Len(told) \in 1 .. Len(told) /\ phase \in {"finish", "done"}
    BY <1>1
  <2> QED
    BY <2>1 DEF Chained
<1>3. ASSUME NEW p \in 1 .. Len(told)
      PROVE  /\ told[p].truncated = (p < Len(told))
             /\ p < Len(told) => told[p + 1].asked = told[p].next
  <2>1. told[p] \in PageTold
    BY <1>1 DEF Collected
  <2>2. told[p].truncated \in BOOLEAN
    BY <2>1 DEF PageTold
  <2>3. p < Len(told) => told[p].truncated /\ told[p + 1].asked = told[p].next
    BY DEF Chained
  <2>4. ~(p < Len(told)) => p = Len(told)
    <3>1. \A n \in Nat : \A k \in 1 .. n : ~(k < n) => k = n
      OBVIOUS
    <3>2. Len(told) \in Nat
      BY <1>1
    <3> QED
      BY <3>1, <3>2
  <2>5. told[p].truncated <=> p < Len(told)
    BY <1>2, <2>3, <2>4
  <2> QED
    BY <2>2, <2>3, <2>5
<1> QED
  BY <1>1, <1>2, <1>3 DEF Chained

-----------------------------------------------------------------------------
LEMMA Soundness == ASSUME IamInv PROVE InventoryIsSound
<1> SUFFICES ASSUME phase = "done" PROVE InventoryIsSound
  BY DEF InventoryIsSound, IamInv
<1>1. Collected /\ Chained /\ inventory = Inventory
  BY DEF IamInv
<1>2. /\ inventory.grants = Attachments /\ inventory.memberships = Memberships
      /\ inventory.complete = (AllResolved /\ ~warned)
  BY <1>1 DEF Inventory
<1>3. \A g \in inventory.grants :
         \E r \in Told : /\ Subject(r) = g[1] /\ Undisputed(r)
                         /\ g[2] = "managed" =>
                              \E a \in r.attached :
                                {p.id : p \in {x \in Told : x.kind = "policy" /\ Undisputed(x)
                                                              /\ x.name = a[1]}} = {g[3]}
  BY <1>1, <1>2, GrantsSound
<1>4. \A m \in inventory.memberships :
         \E u \in Told : /\ Subject(u) = <<"user", m[1]>> /\ Undisputed(u)
                         /\ \E n \in u.groups :
                              {g.id : g \in {x \in Told : x.kind = "group" /\ Undisputed(x)
                                                            /\ x.name = n}} = {m[2]}
  BY <1>1, <1>2, MembershipsSound
<1>5. ASSUME inventory.complete
      PROVE  /\ \A p, q \in DOMAIN told :
                  /\ told[p].truncated = (p < Len(told))
                  /\ told[p].asked = told[q].asked => p = q
                  /\ p < Len(told) => told[p + 1].asked = told[p].next
             /\ told[Len(told)].next = "none"
  BY <1>1, <1>2, <1>5, WholeChain
<1>6. ASSUME inventory.complete, NEW r \in Told
      PROVE  /\ CASE r.kind \in {"user", "role"} -> Subject(r) \in inventory.accounts
                  [] r.kind = "group"            -> r.id \in inventory.groups
                  [] r.kind = "policy"           -> r.id \in inventory.policies
             /\ Cardinality({g \in inventory.grants : g[1] = Subject(r)})
                  = Cardinality(r.attached) + Len(r.inline)
             /\ Cardinality({m \in inventory.memberships : <<"user", m[1]>> = Subject(r)})
                  = Cardinality(r.groups)
  <2>1. AllResolved
    BY <1>2, <1>6
  <2>2. /\ Cardinality({g \in Attachments : g[1] = Subject(r)})
             = Cardinality(r.attached) + Len(r.inline)
        /\ Cardinality({m \in Memberships : <<"user", m[1]>> = Subject(r)})
             = Cardinality(r.groups)
    BY <1>1, <1>6, <2>1, AttachmentsSize, MembershipsSize
  <2>3. (CASE r.kind \in {"user", "role"} -> Subject(r) \in Inventory.accounts
           [] r.kind = "group"            -> r.id \in Inventory.groups
           [] r.kind = "policy"           -> r.id \in Inventory.policies)
    BY <1>1, <1>6, <2>1, RowsKept
  <2> QED
    BY <1>1, <1>2, <2>2, <2>3
<1>7. /\ inventory.accounts \subseteq {Subject(r) : r \in {x \in Told : Undisputed(x)}}
      /\ \A id \in inventory.groups :
           \E r \in Told : r.kind = "group" /\ r.id = id /\ Unshared(r)
      /\ \A id \in inventory.policies :
           \E r \in Told : r.kind = "policy" /\ r.id = id /\ Unshared(r)
  BY <1>1, RecordsSound
<1> QED
  BY <1>3, <1>4, <1>5, <1>6, <1>7 DEF InventoryIsSound

\* For all accounts and however their pages are cut (InventoryIsSound): no record,
\* grant or membership of an inventory rests on a row that another page denies or on
\* a name of two entities, none is without the records it refers to, and one that
\* calls itself complete was read to the end and holds every row, every attachment
\* and every membership it was told.
THEOREM InventorySound == IamSpec => []InventoryIsSound
<1>1. IamInit => IamInv
  BY InitIam
<1>2. IamInv /\ [IamNext]_iamVars => IamInv'
  BY NextIam
<1>3. IamInv => InventoryIsSound
  BY Soundness
<1> QED
  BY <1>1, <1>2, <1>3, PTL DEF IamSpec

-----------------------------------------------------------------------------
(***************************************************************************)
(* Identity Center.                                                        *)
(***************************************************************************)
Directory == {"caller", "instances", "users", "groups"}

Access == {"permissions", "sets", "describe", "assignments", "done", "malformed"}

Stages == Directory \cup {"members", "accounts"} \cup Access \cup {"failed"}

\* Where the walks over groups and configured accounts are.
Walked ==
  /\ stage \in Stages /\ set \in Nat
  /\ stage \in Directory => at = "none"
  /\ stage = "members" => todo \subseteq groups /\ at \in groups \cup {"none"}
  /\ stage = "accounts" => todo = Configured /\ at = "none"
  /\ stage = "permissions" =>
       todo \subseteq Configured /\ at \in (Configured \ todo) \cup {"none"} /\ set = 0
  /\ stage \in {"sets", "describe", "assignments"} =>
       todo \subseteq Configured /\ at \in Configured \ todo
  /\ stage \in {"describe", "assignments"} => set # 0
  /\ stage \in {"members", "accounts"} => set = 0
  /\ stage \in Directory => set = 0
  /\ stage \in {"members", "permissions"} /\ at = "none" => ~read
  /\ stage \in {"sets", "describe"} => ~read
  /\ stage = "done" => todo = {}

\* users and groups are the rows of their lists, once these have been taken.
Entities ==
  /\ stage \in {"caller", "instances", "users"} => Of("users") = {}
  /\ stage \in Directory => Of("groups") = {}
  /\ stage \notin {"caller", "instances", "users", "failed"} =>
       users = {e[2] : e \in Of("users")}
  /\ stage \notin Directory \cup {"failed"} =>
       groups = {e[2] : e \in Of("groups")} /\ users \cap groups = {}

Members ==
  /\ stage \in Directory => Of("members") = {} /\ memberIds = {} /\ memberships = {}
  /\ stage \notin Directory \cup {"failed"} =>
       /\ memberships = {<<e[2].user, e[1][2]>> : e \in {x \in Of("members") : x[2].user \in users}}
       /\ memberships \subseteq users \X groups
       /\ memberIds = {e[2].id : e \in Of("members")}
       /\ \A m, n \in Of("members") : m[2].id = n[2].id => m = n

Grants ==
  /\ stage \notin Access \cup {"failed"} =>
       Of("assignments") = {} /\ resources = {} /\ grants = {}
  /\ stage \in Access =>
       /\ grants = {<<e[1][2], e[1][3], <<e[2].kind, e[2].id>>>> :
                      e \in {x \in Of("assignments") : Resolved(x[2])}}
       /\ \A g \in grants : <<g[1], g[2]>> \in resources
       /\ {r[1] : r \in resources} = Configured \ todo
  /\ stage = "assignments" => <<at, sets[set]>> \in resources

IInv == Walked /\ Entities /\ Members /\ Grants /\ stage # "malformed"

LEMMA InitInv == Init => IInv
BY DEF Init, IInv, Walked, Entities, Members, Grants, Of, Stages, Directory, Access

LEMMA FailInv == ASSUME IInv, stage' = "failed", set' = set PROVE IInv'
BY DEF IInv, Walked, Entities, Members, Grants, Stages, Directory, Access

\* Rows that are examined are of their list, and no other.
LEMMA OfExamined ==
  ASSUME Examine, NEW s, s = stage
  PROVE  /\ \A l : l # s => Of(l)' = Of(l)
         /\ Of(s)' = Of(s) \cup {<<Where, row>> : row \in Listed}
BY DEF Examine, Of, Where

LEMMA OfSame == ASSUME UNCHANGED examined PROVE \A l : Of(l)' = Of(l)
BY DEF Of

\* Steps that take nothing from a list, and do not move the walk.
LEMMA StepList ==
  ASSUME IInv, UNCHANGED <<directory, walk, access, examined>>,
         stage' = stage, read' => ReadingList \/ read
  PROVE  IInv'
<1> USE DEF directory, walk, access, IInv
<1>1. Walked'
  BY DEF Walked, ReadingList, Lists
<1>2. Entities' /\ Members'
  BY OfSame DEF Entities, Members
<1>3. Grants'
  <2>1. \A r : Resolved(r)' = Resolved(r)
    BY DEF Resolved
  <2> QED
    BY <2>1, OfSame DEF Grants
<1> QED
  BY <1>1, <1>2, <1>3

LEMMA StepPages ==
  ASSUME IInv,
         \/ \E values, token : ListPage(values, token)
         \/ \E values : ListTooLong(values)
         \/ ListFails
  PROVE  IInv'
<1>1. set' = set
  BY DEF ListPage, ListTooLong, ListFails, Fail, walk
<1>2. CASE stage' = "failed"
  BY <1>1, <1>2, FailInv
<1>3. CASE stage' # "failed"
  <2>1. /\ stage' = stage /\ ReadingList
        /\ UNCHANGED <<organizations, directory, walk, access, examined>>
    BY <1>3 DEF ListPage, ListTooLong, ListFails, Fail
  <2> QED
    BY <2>1, StepList
<1> QED
  BY <1>2, <1>3

LEMMA StepCaller == ASSUME IInv, IdentityProved \/ IdentityFails \/ DescribesAnother PROVE IInv'
<1>1. set' = set
  BY DEF IdentityProved, IdentityFails, DescribesAnother, Fail, walk
<1>2. CASE IdentityProved
  <2>1. /\ stage = "caller" /\ stage' = "instances"
        /\ UNCHANGED <<read, users, groups, memberIds, memberships, walk, resources, grants, examined>>
    BY <1>2 DEF IdentityProved, pager, directory, access
  <2> QED
    BY <1>1, <2>1, OfSame DEF IInv, Walked, Entities, Members, Grants, Stages, Directory,
                              Access, walk
<1>3. CASE IdentityFails \/ DescribesAnother
  BY <1>1, <1>3, FailInv DEF IdentityFails, DescribesAnother, Fail
<1> QED
  BY <1>2, <1>3

LEMMA StepTakeInstances == ASSUME IInv, TakeInstances PROVE IInv'
<1>1. /\ stage = "instances" /\ stage' \in {"users", "failed"}
      /\ UNCHANGED <<users, groups, memberIds, memberships, todo, at, sets, set, resources,
                     grants, examined>>
  BY DEF TakeInstances, directory, walk, access
<1>2. CASE stage' = "users"
  BY <1>1, <1>2, OfSame DEF IInv, Walked, Entities, Members, Grants, Stages, Directory, Access
<1> QED
  BY <1>1, <1>2, FailInv

LEMMA StepTakeUsers == ASSUME IInv, TakeUsers PROVE IInv'
<1>1. /\ stage = "users" /\ stage' \in {"groups", "failed"} /\ users' = Listed /\ Examine
      /\ UNCHANGED <<groups, memberIds, memberships, todo, at, sets, set, resources, grants>>
  BY DEF TakeUsers, walk, access
<1>2. CASE stage' = "groups"
  <2>1. /\ \A l : l # "users" => Of(l)' = Of(l)
        /\ Of("users")' = Of("users") \cup {<<Where, row>> : row \in Listed}
    BY <1>1, OfExamined
  <2>2. Of("users") = {}
    BY <1>1 DEF IInv, Entities
  <2>3. users' = {e[2] : e \in Of("users")'}
    <3> DEFINE new == {<<Where, row>> : row \in Listed}
    <3>1. \A e \in new : e[2] \in Listed
      OBVIOUS
    <3>2. ASSUME NEW row \in Listed PROVE \E e \in new : e[2] = row
      <4>1. <<Where, row>> \in new /\ <<Where, row>>[2] = row
        OBVIOUS
      <4> QED
        BY <4>1
    <3>3. Of("users")' = new
      BY <2>1, <2>2
    <3> HIDE DEF new
    <3> QED
      BY <1>1, <3>1, <3>2, <3>3
  <2>4. Walked' /\ Members' /\ Grants'
    BY <1>1, <1>2, <2>1 DEF IInv, Walked, Members, Grants, Stages, Directory, Access
  <2>5. Entities'
    BY <1>1, <1>2, <2>1, <2>3 DEF IInv, Entities, Directory
  <2> QED
    BY <1>2, <2>4, <2>5 DEF IInv
<1> QED
  BY <1>1, <1>2, FailInv

LEMMA StepTakeGroups == ASSUME IInv, TakeGroups PROVE IInv'
<1>1. /\ stage = "groups" /\ stage' \in {"members", "failed"} /\ groups' = Listed /\ todo' = Listed
      /\ Examine /\ read' = FALSE
      /\ stage' = "members" => Listed \cap users = {}
      /\ UNCHANGED <<users, memberIds, memberships, at, sets, set, resources, grants>>
  BY DEF TakeGroups, Close, access
<1>2. CASE stage' = "members"
  <2>1. /\ \A l : l # "groups" => Of(l)' = Of(l)
        /\ Of("groups")' = Of("groups") \cup {<<Where, row>> : row \in Listed}
    BY <1>1, OfExamined
  <2>2. Of("groups") = {}
    BY <1>1 DEF IInv, Entities, Directory
  <2>3. groups' = {e[2] : e \in Of("groups")'}
    <3> DEFINE new == {<<Where, row>> : row \in Listed}
    <3>1. \A e \in new : e[2] \in Listed
      OBVIOUS
    <3>2. ASSUME NEW row \in Listed PROVE \E e \in new : e[2] = row
      <4>1. <<Where, row>> \in new /\ <<Where, row>>[2] = row
        OBVIOUS
      <4> QED
        BY <4>1
    <3>3. Of("groups")' = new
      BY <2>1, <2>2
    <3> HIDE DEF new
    <3> QED
      BY <1>1, <3>1, <3>2, <3>3
  <2>4. Walked' /\ Grants'
    BY <1>1, <1>2, <2>1 DEF IInv, Walked, Grants, Stages, Directory, Access
  <2>5. Entities'
    BY <1>1, <1>2, <2>1, <2>3 DEF IInv, Entities, Directory
  <2>6. Members'
    BY <1>1, <1>2, <2>1 DEF IInv, Members, Directory
  <2> QED
    BY <1>2, <2>4, <2>5, <2>6 DEF IInv
<1> QED
  BY <1>1, <1>2, FailInv

LEMMA StepNextGroup == ASSUME IInv, NEW g \in todo, NextGroup(g) PROVE IInv'
<1>1. /\ stage = "members" /\ stage' = stage /\ at = "none" /\ at' = g /\ todo' = todo \ {g}
      /\ UNCHANGED <<read, users, groups, memberIds, memberships, sets, set, resources, grants,
                     examined>>
  BY DEF NextGroup, pager, directory, access
<1>2. Walked'
  BY <1>1 DEF IInv, Walked, Directory, Stages, Access
<1>3. Entities' /\ Members' /\ Grants'
  BY <1>1, OfSame DEF IInv, Entities, Members, Grants, Directory, Access
<1> QED
  BY <1>1, <1>2, <1>3 DEF IInv

\* A membership id that comes back, on this list or under an earlier group, ends the
\* discovery; those that are left are of one row each.
LEMMA StepTakeMembers == ASSUME IInv, TakeMembers PROVE IInv'
<1> DEFINE known == {i \in DOMAIN out : out[i].user \in users}
           new == {<<Where, row>> : row \in Listed}
<1>1. /\ stage = "members" /\ stage' \in {"members", "failed"}
      /\ Examine /\ read' = FALSE /\ at' = "none"
      /\ memberIds' = memberIds \cup Range(Ids)
      /\ memberships' = memberships \cup {<<out[i].user, at>> : i \in known}
      /\ UNCHANGED <<users, groups, todo, sets, set, resources, grants>>
  BY DEF TakeMembers, Close, access
<1>2. stage' = "members" => Range(Ids) \cap memberIds = {} /\ IsInjective(Ids)
  BY DEF TakeMembers
<1>3. at \in groups
  BY DEF TakeMembers, IInv, Walked
<1>4. /\ \A l : l # "members" => Of(l)' = Of(l)
      /\ Of("members")' = Of("members") \cup new
  BY <1>1, OfExamined DEF TakeMembers
<1>5. ASSUME stage' = "members" PROVE IInv'
  <2>1. Walked' /\ Entities' /\ Grants'
    BY <1>1, <1>4, <1>5 DEF TakeMembers, IInv, Walked, Entities, Grants, Directory, Access, Stages
  <2>2. /\ Listed = {out[i] : i \in DOMAIN out}
        /\ Range(Ids) = {out[i].id : i \in DOMAIN out}
    BY DEF Listed, Range, Ids
  <2>3. /\ \A e \in new : e[1] = Where /\ e[2] \in Listed
        /\ \A row \in Listed : \E e \in new : e[1] = Where /\ e[2] = row
        /\ Where[2] = at
    <3>1. ASSUME NEW row \in Listed PROVE \E e \in new : e[1] = Where /\ e[2] = row
      <4>1. <<Where, row>> \in new /\ <<Where, row>>[1] = Where /\ <<Where, row>>[2] = row
        OBVIOUS
      <4> QED
        BY <4>1
    <3>2. Where[2] = at
      BY DEF Where
    <3>3. \A e \in new : e[1] = Where /\ e[2] \in Listed
      OBVIOUS
    <3> QED
      BY <3>1, <3>2, <3>3
  <2>4. \A i \in known : out[i].user \in users
    OBVIOUS
  <2>5. memberships' = {<<e[2].user, e[1][2]>> : e \in {x \in Of("members")' : x[2].user \in users'}}
    <3>1. {<<out[i].user, at>> : i \in known}
            = {<<e[2].user, e[1][2]>> : e \in {x \in new : x[2].user \in users}}
      <4>1. \A i \in known : \E e \in new : e[1][2] = at /\ e[2] = out[i]
        BY <2>2, <2>3
      <4>2. \A e \in new : e[2].user \in users =>
              e[1][2] = at /\ \E i \in known : e[2] = out[i]
        BY <2>2, <2>3
      <4> HIDE DEF new, known
      <4> QED
        BY <4>1, <4>2, <2>4
    <3>2. memberships
            = {<<e[2].user, e[1][2]>> : e \in {x \in Of("members") : x[2].user \in users}}
      BY <1>1 DEF TakeMembers, IInv, Members, Directory
    <3> QED
      BY <1>1, <1>4, <3>1, <3>2
  <2>6. memberships' \subseteq users' \X groups'
    <3>1. memberships \subseteq users \X groups
      BY DEF TakeMembers, IInv, Members, Directory
    <3> QED
      BY <1>1, <1>3, <3>1
  <2>7. memberIds' = {e[2].id : e \in Of("members")'}
    <3>1. memberIds = {e[2].id : e \in Of("members")}
      BY DEF TakeMembers, IInv, Members, Directory
    <3>2. Range(Ids) = {e[2].id : e \in new}
      <4>1. \A e \in new : \E i \in DOMAIN out : e[2] = out[i]
        BY <2>2, <2>3
      <4>2. \A i \in DOMAIN out : \E e \in new : e[2] = out[i]
        BY <2>2, <2>3
      <4> HIDE DEF new
      <4> QED
        BY <2>2, <4>1, <4>2
    <3> QED
      BY <1>1, <1>4, <3>1, <3>2
  <2>8. ASSUME NEW m \in Of("members")', NEW n \in Of("members")', m[2].id = n[2].id
        PROVE  m = n
    <3>1. \A x \in Of("members") : x[2].id \notin Range(Ids)
      BY <1>2, <1>5 DEF TakeMembers, IInv, Members, Directory
    <3>2. \A x \in new : x[2].id \in Range(Ids)
      BY <2>2
    <3>3. CASE m \in Of("members") /\ n \in Of("members")
      BY <2>8, <3>3 DEF TakeMembers, IInv, Members, Directory
    <3>4. CASE m \in new /\ n \in new
      <4>1. PICK i \in DOMAIN out, j \in DOMAIN out : m = <<Where, out[i]>> /\ n = <<Where, out[j]>>
        BY <2>2, <3>4
      <4>2. Ids[i] = Ids[j] /\ DOMAIN Ids = DOMAIN out
        BY <2>8, <4>1 DEF Ids
      <4>3. i = j
        BY <1>2, <1>5, <4>2 DEF IsInjective
      <4> QED
        BY <4>1, <4>3
    <3> QED
      BY <1>4, <2>8, <3>1, <3>2, <3>3, <3>4
  <2> QED
    BY <1>5, <2>1, <2>5, <2>6, <2>7, <2>8 DEF IInv, Members, Directory
<1> QED
  BY <1>1, <1>5, FailInv DEF TakeMembers

LEMMA StepGroupsDone == ASSUME IInv, GroupsDone PROVE IInv'
<1>1. /\ stage = "members" /\ at = "none" /\ stage' \in {"accounts", "permissions"}
      /\ todo' = Configured /\ ~read
      /\ UNCHANGED <<read, users, groups, memberIds, memberships, at, sets, set, resources,
                     grants, examined>>
  BY DEF GroupsDone, pager, directory, access, IInv, Walked
<1>2. Of("assignments") = {} /\ resources = {} /\ grants = {}
  BY <1>1 DEF IInv, Grants, Access
<1>3. Grants'
  BY <1>1, <1>2, OfSame DEF Grants
<1>4. Walked'
  BY <1>1 DEF IInv, Walked, Directory, Stages, Access
<1>5. Entities' /\ Members'
  BY <1>1, OfSame DEF IInv, Entities, Members, Directory
<1> QED
  BY <1>1, <1>3, <1>4, <1>5 DEF IInv

LEMMA StepTakeAccounts == ASSUME IInv, TakeAccounts PROVE IInv'
<1>1. /\ stage = "accounts" /\ stage' \in {"permissions", "failed"} /\ Examine /\ read' = FALSE
      /\ UNCHANGED <<users, groups, memberIds, memberships, todo, at, sets, set, resources, grants>>
  BY DEF TakeAccounts, Close, directory, walk, access
<1>2. CASE stage' = "permissions"
  <2>1. \A l : l # "accounts" => Of(l)' = Of(l)
    BY <1>1, OfExamined
  <2>2. Of("assignments") = {} /\ resources = {} /\ grants = {} /\ todo = Configured
    BY <1>1 DEF IInv, Grants, Access, Walked
  <2>3. Grants'
    BY <1>1, <1>2, <2>1, <2>2 DEF Grants
  <2>4. Walked'
    BY <1>1, <1>2 DEF IInv, Walked, Directory, Stages, Access
  <2>5. Entities' /\ Members'
    BY <1>1, <1>2, <2>1 DEF IInv, Entities, Members, Directory
  <2> QED
    BY <1>2, <2>3, <2>4, <2>5 DEF IInv
<1> QED
  BY <1>1, <1>2, FailInv

-----------------------------------------------------------------------------
(***************************************************************************)
(* Permission sets and assignments.                                        *)
(***************************************************************************)
\* The steps that leave the directory as it is.
LEMMA DirectoryKept ==
  ASSUME IInv, stage \in Access, stage' \in Access,
         UNCHANGED <<users, groups, memberIds, memberships>>,
         \A l : l \in {"users", "groups", "members"} => Of(l)' = Of(l)
  PROVE  Entities' /\ Members'
BY DEF IInv, Entities, Members, Directory, Access

LEMMA StepNextAccount == ASSUME IInv, NEW a \in todo, NextAccount(a) PROVE IInv'
<1>1. /\ stage = "permissions" /\ stage' = stage /\ at = "none" /\ at' = a /\ todo' = todo \ {a}
      /\ resources' = resources \cup {<<a>>} /\ ~read
      /\ UNCHANGED <<read, users, groups, memberIds, memberships, sets, set, grants, examined>>
  BY DEF NextAccount, pager, directory, IInv, Walked
<1>2. Entities' /\ Members'
  BY <1>1, OfSame, DirectoryKept DEF Access
<1>3. Walked'
  BY <1>1 DEF IInv, Walked, Directory, Stages, Access
<1>4. Grants'
  <2>1. {r[1] : r \in resources'} = Configured \ todo'
    <3>1. {r[1] : r \in resources} = Configured \ todo /\ todo \subseteq Configured
      BY <1>1 DEF IInv, Grants, Access, Walked
    <3>2. {r[1] : r \in resources'} = {r[1] : r \in resources} \cup {a}
      <4> DEFINE entry == <<a>>
      <4>1. entry[1] = a
        OBVIOUS
      <4>2. resources' = resources \cup {entry}
        BY <1>1
      <4> HIDE DEF entry
      <4> QED
        BY <4>1, <4>2
    <3> QED
      BY <1>1, <3>1, <3>2
  <2>2. \A r : Resolved(r)' = Resolved(r)
    BY <1>1 DEF Resolved
  <2> QED
    BY <1>1, <2>1, <2>2, OfSame DEF IInv, Grants, Access
<1> QED
  BY <1>1, <1>2, <1>3, <1>4 DEF IInv

LEMMA StepSets == ASSUME IInv, TakePermissions \/ NextSet \/ SetsDone \/ DescribeFails PROVE IInv'
<1>1. /\ stage \in Access /\ stage' \in Access \cup {"failed"} /\ stage' # "assignments"
      /\ stage' \notin {"done", "malformed"}
      /\ UNCHANGED <<users, groups, memberIds, memberships, todo, resources, grants>>
  BY DEF TakePermissions, NextSet, SetsDone, DescribeFails, directory, access, walk, Access
<1>2. \A l : l # "permissions" => Of(l)' = Of(l)
  BY OfSame, OfExamined DEF TakePermissions, NextSet, SetsDone, DescribeFails
<1>3. Walked'
  BY DEF TakePermissions, NextSet, SetsDone, DescribeFails, IInv, Walked, Directory, Stages,
         Access, pager, walk, Close
<1>4. CASE stage' # "failed"
  <2>1. Entities' /\ Members'
    BY <1>1, <1>2, <1>4, DirectoryKept
  <2>2. \A r : Resolved(r)' = Resolved(r)
    BY <1>1 DEF Resolved
  <2>3. Grants'
    BY <1>1, <1>2, <1>4, <2>2 DEF IInv, Grants
  <2> QED
    BY <1>1, <1>3, <2>1, <2>3 DEF IInv
<1>5. CASE stage' = "failed"
  <2>1. Entities' /\ Members' /\ Grants'
    BY <1>5 DEF Entities, Members, Grants, Directory, Access
  <2> QED
    BY <1>3, <1>5, <2>1 DEF IInv
<1> QED
  BY <1>4, <1>5

LEMMA StepDescribed == ASSUME IInv, Described PROVE IInv'
<1>1. /\ stage = "describe" /\ stage' = "assignments"
      /\ resources' = resources \cup {<<at, sets[set]>>}
      /\ UNCHANGED <<read, users, groups, memberIds, memberships, todo, at, sets, set, grants,
                     examined>>
  BY DEF Described, pager, directory, walk
<1>2. Entities' /\ Members'
  BY <1>1, OfSame, DirectoryKept DEF Access
<1>3. Walked'
  BY <1>1 DEF IInv, Walked, Directory, Stages, Access
<1>4. Grants'
  <2>1. {r[1] : r \in resources'} = Configured \ todo'
    <3>1. {r[1] : r \in resources} = Configured \ todo /\ at \in Configured \ todo
      BY <1>1 DEF IInv, Grants, Access, Walked
    <3>2. {r[1] : r \in resources'} = {r[1] : r \in resources} \cup {at}
      <4> DEFINE entry == <<at, sets[set]>>
      <4>1. entry[1] = at
        OBVIOUS
      <4>2. resources' = resources \cup {entry}
        BY <1>1
      <4> HIDE DEF entry
      <4> QED
        BY <4>1, <4>2
    <3> QED
      BY <1>1, <3>1, <3>2
  <2>2. \A r : Resolved(r)' = Resolved(r)
    BY <1>1 DEF Resolved
  <2> QED
    BY <1>1, <2>1, <2>2, OfSame DEF IInv, Grants, Access
<1> QED
  BY <1>1, <1>2, <1>3, <1>4 DEF IInv

LEMMA StepTakeAssignments == ASSUME IInv, TakeAssignments PROVE IInv'
<1> DEFINE known == {i \in DOMAIN out : Resolved(out[i])}
           new == {<<Where, row>> : row \in Listed}
           Grant(e) == <<e[1][2], e[1][3], <<e[2].kind, e[2].id>>>>
           granted == {<<at, sets[set], <<out[i].kind, out[i].id>>>> : i \in known}
<1>1. /\ stage = "assignments" /\ stage' \in {"sets", "failed"} /\ Examine /\ read' = FALSE
      /\ grants' = grants \cup granted
      /\ UNCHANGED <<users, groups, memberIds, memberships, todo, at, sets, set, resources>>
  BY DEF TakeAssignments, Close, directory, walk
<1>2. /\ \A l : l # "assignments" => Of(l)' = Of(l)
      /\ Of("assignments")' = Of("assignments") \cup new
  BY <1>1, OfExamined
<1>3. CASE stage' = "sets"
  <2>1. Entities' /\ Members'
    BY <1>1, <1>2, <1>3, DirectoryKept DEF Access
  <2>2. Walked'
    BY <1>1, <1>3 DEF IInv, Walked, Directory, Stages, Access
  <2>3. \A r : Resolved(r)' = Resolved(r)
    BY <1>1 DEF Resolved
  <2>4. Listed = {out[i] : i \in DOMAIN out}
    BY DEF Listed, Range
  <2>5. Where = <<"assignments", at, sets[set]>>
    BY <1>1 DEF Where, IInv, Walked
  <2>6. ASSUME NEW i \in known PROVE \E e \in new : Resolved(e[2]) /\ Grant(e) = <<at, sets[set], <<out[i].kind, out[i].id>>>>
    <3>1. <<Where, out[i]>> \in new
      BY <2>4
    <3> QED
      BY <2>5, <3>1
  <2>7. ASSUME NEW e \in new, Resolved(e[2])
        PROVE  \E i \in known : Grant(e) = <<at, sets[set], <<out[i].kind, out[i].id>>>>
    <3>1. PICK i \in DOMAIN out : e = <<Where, out[i]>>
      BY <2>4
    <3>2. i \in known
      BY <2>7, <3>1
    <3> QED
      BY <2>5, <3>1, <3>2
  <2>8. grants = {Grant(e) : e \in {x \in Of("assignments") : Resolved(x[2])}}
    BY <1>1 DEF IInv, Grants, Access
  <2>9. grants' = {Grant(e) : e \in {x \in Of("assignments")' : Resolved(x[2])}}
    <3> HIDE DEF Grant, known, new
    <3>1. granted = {Grant(e) : e \in {x \in new : Resolved(x[2])}}
      BY <2>6, <2>7
    <3> QED
      BY <1>1, <1>2, <2>8, <3>1
  <2>10. ASSUME NEW g \in grants' PROVE <<g[1], g[2]>> \in resources'
    <3>1. CASE g \in grants
      BY <1>1, <3>1 DEF IInv, Grants, Access
    <3>2. CASE g \in granted
      <4>1. g[1] = at /\ g[2] = sets[set]
        BY <3>2
      <4> QED
        BY <1>1, <4>1 DEF IInv, Grants
    <3> QED
      BY <1>1, <3>1, <3>2
  <2>11. Grants'
    BY <1>1, <1>3, <2>3, <2>9, <2>10 DEF IInv, Grants, Access
  <2> QED
    BY <1>3, <2>1, <2>2, <2>11 DEF IInv
<1> QED
  BY <1>1, <1>3, FailInv

LEMMA StepEnds == ASSUME IInv, CollectEnds PROVE IInv'
<1>1. /\ stage = "permissions" /\ todo = {}
      /\ stage' \in {"done", "malformed", "failed"} /\ (stage' = "malformed" => ~Closed)
      /\ UNCHANGED <<read, users, groups, memberIds, memberships, todo, at, sets, set, resources,
                     grants, examined>>
  BY DEF CollectEnds, pager, directory, walk, access
<1>2. Closed
  <2>1. memberships \subseteq users \X groups
    BY <1>1 DEF IInv, Members, Directory
  <2>2. \A g \in grants : <<g[1], g[2]>> \in resources
    BY <1>1 DEF IInv, Grants, Access
  <2>3. ASSUME NEW g \in grants PROVE g[3][2] \in IF g[3][1] = "USER" THEN users ELSE groups
    <3>1. PICK e \in Of("assignments") :
            Resolved(e[2]) /\ g = <<e[1][2], e[1][3], <<e[2].kind, e[2].id>>>>
      BY <1>1 DEF IInv, Grants, Access
    <3> QED
      BY <3>1 DEF Resolved
  <2> QED
    BY <2>1, <2>2, <2>3 DEF Closed
<1>3. CASE stage' = "done"
  <2>1. Entities' /\ Members'
    BY <1>1, <1>3, OfSame, DirectoryKept DEF Access
  <2>2. \A r : Resolved(r)' = Resolved(r)
    BY <1>1 DEF Resolved
  <2>3. Walked' /\ Grants'
    BY <1>1, <1>3, <2>2, OfSame DEF IInv, Walked, Grants, Directory, Stages, Access
  <2> QED
    BY <1>3, <2>1, <2>3 DEF IInv
<1> QED
  BY <1>1, <1>2, <1>3, FailInv

LEMMA NextInv == IInv /\ [Next]_vars => IInv'
<1> SUFFICES ASSUME IInv, [Next]_vars PROVE IInv'
  OBVIOUS
<1>1. CASE UNCHANGED vars
  BY <1>1, StepList DEF vars, pager
<1>2. CASE IdentityProved \/ IdentityFails \/ DescribesAnother
  BY <1>2, StepCaller
<1>3. CASE \/ \E values, token : ListPage(values, token)
           \/ \E values : ListTooLong(values)
           \/ ListFails
  BY <1>3, StepPages
<1>4. CASE TakeInstances \/ TakeUsers \/ TakeGroups \/ TakeMembers \/ GroupsDone \/ TakeAccounts
  BY <1>4, StepTakeInstances, StepTakeUsers, StepTakeGroups, StepTakeMembers, StepGroupsDone,
     StepTakeAccounts
<1>5. ASSUME NEW x \in todo, NextGroup(x) \/ NextAccount(x) PROVE IInv'
  BY <1>5, StepNextGroup, StepNextAccount
<1>6. CASE TakePermissions \/ NextSet \/ SetsDone \/ DescribeFails
  BY <1>6, StepSets
<1>7. CASE Described \/ TakeAssignments \/ CollectEnds
  BY <1>7, StepDescribed, StepTakeAssignments, StepEnds
<1> QED
  BY <1>1, <1>2, <1>3, <1>4, <1>5, <1>6, <1>7 DEF Next

\* "No invented membership/grant" (docs/aws-identity-center.md 98): the snapshot's
\* memberships and grants are those rows whose principal was listed as what the row
\* says it is, and no membership id speaks of two rows (collect, discovery.rs 60-330).
THEOREM EvidenceExact == Spec => []EvidenceIsExact
<1>1. IInv => EvidenceIsExact
  <2> SUFFICES ASSUME IInv PROVE EvidenceIsExact
    OBVIOUS
  <2>1. stage # "malformed"
    BY DEF IInv
  <2>2. CASE stage # "done"
    BY <2>1, <2>2 DEF EvidenceIsExact
  <2>3. CASE stage = "done"
    <3>1. /\ users = {e[2] : e \in Of("users")} /\ groups = {e[2] : e \in Of("groups")}
          /\ users \cap groups = {}
      BY <2>3 DEF IInv, Entities, Directory
    <3>2. /\ memberships = {<<e[2].user, e[1][2]>> : e \in {x \in Of("members") : x[2].user \in users}}
          /\ \A m, n \in Of("members") : m[2].id = n[2].id => m = n
      BY <2>3 DEF IInv, Members, Directory
    <3>3. {r[1] : r \in resources} = Configured
      BY <2>3 DEF IInv, Grants, Walked, Access
    <3>4. grants = {<<e[1][2], e[1][3], <<e[2].kind, e[2].id>>>> :
                      e \in {x \in Of("assignments") : Resolved(x[2])}}
      BY <2>3 DEF IInv, Grants, Access
    <3>5. \A row : Resolved(row) <=> row.id \in CASE row.kind = "USER"  -> users
                                                  [] row.kind = "GROUP" -> groups
                                                  [] OTHER              -> {}
      BY DEF Resolved
    <3> QED
      BY <2>1, <3>1, <3>2, <3>3, <3>4, <3>5 DEF EvidenceIsExact
  <2> QED
    BY <2>2, <2>3
<1> QED
  BY InitInv, NextInv, <1>1, PTL DEF Spec

-----------------------------------------------------------------------------
(***************************************************************************)
(* What a complete snapshot has read.                                      *)
(***************************************************************************)
\* While nothing was cut short, tokens are new, and only the last page names none.
Paging ==
  /\ out \in Seq(Range(out)) /\ tokens \in Seq(Tokens \cup {"none", Bad})
  /\ complete => /\ IsInjective(tokens)
                 /\ read => tokens # <<>> /\ tokens[Len(tokens)] = "none"
                 /\ ~read => "none" \notin Range(tokens)

InSets == {"sets", "describe", "assignments"}

\* The account whose permission sets have not been listed yet.
Pending(a) == a \in todo \/ (stage = "permissions" /\ a = at)

\* The i-th set of the account in progress has not been walked yet.
Unwalked(i) == set < i \/ (stage \in {"describe", "assignments"} /\ i = set)

\* The lists of the directory.
DirectoryWhole ==
  /\ stage \notin {"caller", "instances"} => <<"instances", "none", "none">> \in whole
  /\ stage \notin {"caller", "instances", "users"} => <<"users", "none", "none">> \in whole
  /\ stage \notin Directory => <<"groups", "none", "none">> \in whole
  /\ stage = "members" =>
       \A g \in groups \ (todo \cup {at}) : <<"members", g, "none">> \in whole
  /\ stage \in {"accounts"} \cup Access =>
       \A g \in groups : <<"members", g, "none">> \in whole
  /\ stage \in Access /\ organizations =>
       /\ <<"accounts", "none", "none">> \in whole
       /\ Configured \subseteq {e[2].id : e \in Of("accounts")}

\* The lists of each configured account.
AccessWhole ==
  /\ stage \in Access =>
       \A a \in Configured : Pending(a) \/ <<"permissions", a, "none">> \in whole
  /\ \A e \in Of("permissions") :
       \/ <<"assignments", e[1][2], e[2]>> \in whole
       \/ /\ stage \in InSets /\ e[1][2] = at
          /\ \E i \in DOMAIN sets : sets[i] = e[2] /\ Unwalked(i)

\* No member and no assignment was left out.
NothingLeftOut ==
  /\ \A e \in Of("members") : e[2].user \in users
  /\ \A e \in Of("assignments") : Resolved(e[2])

Places ==
  /\ sets \in Seq(Range(sets)) /\ set \in 0 .. Len(sets)
  /\ stage \notin InSets \cup {"failed"} => sets = <<>>
  /\ stage \notin Access \cup {"failed"} => Of("permissions") = {}

\* No group has the name for none.
Unnamed == "none" \notin groups /\ (stage = "groups" => "none" \notin Range(out))

JInv ==
  /\ Paging /\ Unnamed
  /\ stage # "failed" => Places
  /\ stage # "failed" /\ complete => DirectoryWhole /\ AccessWhole /\ NothingLeftOut

LEMMA InitJ == Init => JInv
BY DEF Init, JInv, Paging, Unnamed, Places, DirectoryWhole, AccessWhole, NothingLeftOut, Of, Range,
       IsInjective, Directory, Access, InSets

LEMMA StillComplete == [Next]_vars => (complete' => complete)
BY DEF Next, vars, IdentityProved, IdentityFails, Fail, ListPage, ListTooLong, ListFails,
   TakeInstances, TakeUsers, TakeGroups, TakeMembers, GroupsDone, NextGroup, NextAccount,
   TakeAccounts, TakePermissions, NextSet, SetsDone, Described, DescribeFails, DescribesAnother,
   TakeAssignments, CollectEnds

\* A list that is closed while nothing was cut short has been read to its end.
LEMMA CloseWhole ==
  ASSUME Paging, Close
  PROVE  (out \in Seq(Range(out)) /\ tokens \in Seq(Tokens \cup {"none", Bad}))'
         /\ out' = <<>> /\ tokens' = <<>> /\ ~read'
         /\ (complete /\ read => whole' = whole \cup {Where})
BY DEF Paging, Close, Range

LEMMA PagingStep == Paging /\ [Next]_vars => Paging'
<1> SUFFICES ASSUME Paging, [Next]_vars PROVE Paging'
  OBVIOUS
<1>1. CASE Close
  <2>1. tokens' = <<>> /\ out' = <<>> /\ ~read'
    BY <1>1 DEF Close
  <2> QED
    BY <2>1 DEF Paging, Range, IsInjective
<1>2. ASSUME NEW values \in IF stage \in Lists THEN Pages[stage] ELSE {},
             NEW token \in Tokens \cup {"none", Bad}, ListPage(values, token)
      PROVE  Paging'
  <2>1. values \in Seq(Range(values))
    BY <1>2, IdentityCenterAssumption
  <2>2. out' \in Seq(Range(out'))
    <3>1. out' = out \o values
      BY <1>2 DEF ListPage
    <3>2. out' \in Seq(Range(out) \cup Range(values))
      BY <3>1, <2>1 DEF Paging
    <3>3. DOMAIN out' = 1 .. Len(out') /\ Len(out') \in Nat
      BY <3>2
    <3> QED
      BY <3>2, <3>3 DEF Range
  <2>3. /\ tokens' = Append(tokens, token) /\ Len(tokens) \in Nat
        /\ tokens' \in Seq(Tokens \cup {"none", Bad})
        /\ Len(tokens') = Len(tokens) + 1
        /\ tokens'[Len(tokens')] = token
        /\ \A i \in 1 .. Len(tokens) : tokens'[i] = tokens[i]
        /\ DOMAIN tokens = 1 .. Len(tokens) /\ DOMAIN tokens' = 1 .. Len(tokens')
    BY <1>2 DEF ListPage, Paging
  <2>4. ASSUME complete'
        PROVE  /\ IsInjective(tokens')
               /\ read' => tokens' # <<>> /\ tokens'[Len(tokens')] = "none"
               /\ ~read' => "none" \notin Range(tokens')
    <3>1. /\ complete /\ Advance(token) # "cut" /\ ~read
          /\ read' = (Advance(token) # "more")
      BY <1>2, <2>4 DEF ListPage, ReadingList
    <3>2. IsInjective(tokens) /\ "none" \notin Range(tokens)
      BY <3>1 DEF Paging
    <3>3. /\ token \notin Range(tokens)
          /\ read' => token = "none"
          /\ ~read' => token # "none"
      BY <3>1, <3>2 DEF Advance
    <3>4. \A i \in 1 .. Len(tokens) : tokens[i] \in Range(tokens)
      BY <2>3 DEF Range
    <3>5. IsInjective(tokens')
      BY <2>3, <3>2, <3>3, <3>4 DEF IsInjective
    <3>6. Range(tokens') \subseteq Range(tokens) \cup {token}
      BY <2>3 DEF Range
    <3>7. tokens' # <<>>
      BY <2>3
    <3> QED
      BY <3>2, <3>3, <3>5, <3>6, <3>7, <2>3
  <2> QED
    BY <2>2, <2>3, <2>4 DEF Paging
<1>3. CASE /\ out' = out /\ tokens' = tokens
           /\ complete' => complete /\ read' = read
  BY <1>3 DEF Paging, Range, IsInjective
<1>4. \/ Close
      \/ \E values \in IF stage \in Lists THEN Pages[stage] ELSE {},
            token \in Tokens \cup {"none", Bad} : ListPage(values, token)
      \/ UNCHANGED pager
      \/ /\ ~complete' /\ UNCHANGED <<out, tokens>>
  BY DEF Next, vars, IdentityProved, IdentityFails, Fail, ListTooLong, ListFails,
     TakeInstances, TakeUsers, TakeGroups, TakeMembers, GroupsDone, NextGroup, NextAccount,
     TakeAccounts, TakePermissions, NextSet, SetsDone, Described, DescribeFails,
     DescribesAnother, TakeAssignments, CollectEnds, pager
<1> QED
  BY <1>1, <1>2, <1>3, <1>4, StillComplete DEF pager

LEMMA UnnamedStep == Paging /\ Unnamed /\ [Next]_vars => Unnamed'
<1> SUFFICES ASSUME Paging, Unnamed, [Next]_vars PROVE Unnamed'
  OBVIOUS
<1>1. CASE TakeUsers
  BY <1>1 DEF TakeUsers, Close, Unnamed, Range
<1>2. CASE TakeGroups
  BY <1>2 DEF TakeGroups, Unnamed, Listed
<1>3. ASSUME NEW values \in IF stage \in Lists THEN Pages[stage] ELSE {}, NEW token,
             ListPage(values, token)
      PROVE  Unnamed'
  <2>1. groups' = groups /\ stage' \in {stage, "failed"} /\ out' = out \o values
    BY <1>3 DEF ListPage, directory
  <2>2. CASE stage = "groups"
    <3>1. values \in Seq(Range(values)) /\ "none" \notin Range(values)
      BY <2>2, IdentityCenterAssumption DEF Lists
    <3>2. "none" \notin Range(out) /\ out \in Seq(Range(out))
      BY <2>2 DEF Unnamed, Paging
    <3>3. out' \in Seq(Range(out) \cup Range(values))
      BY <2>1, <3>1, <3>2
    <3>4. Range(out') \subseteq Range(out) \cup Range(values)
      BY <3>3 DEF Range
    <3> QED
      BY <2>1, <3>1, <3>2, <3>4 DEF Unnamed
  <2>3. CASE stage # "groups"
    BY <2>1, <2>3 DEF Unnamed
  <2> QED
    BY <2>2, <2>3
<1>4. CASE groups' = groups /\ (stage' = "groups" => stage = "groups" /\ out' = out)
  BY <1>4 DEF Unnamed, Range
<1> QED
  BY <1>1, <1>2, <1>3, <1>4 DEF Next, vars, pager, directory, IdentityProved, IdentityFails,
     Fail, ListTooLong, ListFails, TakeInstances, TakeMembers, GroupsDone, NextGroup,
     NextAccount, TakeAccounts, TakePermissions, NextSet, SetsDone, Described, DescribeFails,
     DescribesAnother, TakeAssignments, CollectEnds

LEMMA PlacesStep ==
  ASSUME IInv, Paging, stage # "failed" => Places, [Next]_vars, stage' # "failed"
  PROVE  Places'
<1>1. CASE TakePermissions
  <2>1. stage = "permissions" /\ stage' = "sets" /\ sets' = out /\ set' = set
    BY <1>1 DEF TakePermissions
  <2>2. set = 0
    BY <2>1 DEF IInv, Walked
  <2>3. sets' \in Seq(Range(sets')) /\ set' \in 0 .. Len(sets')
    BY <2>1, <2>2 DEF Paging
  <2> QED
    BY <2>1, <2>3 DEF Places, Access, InSets
<1>2. CASE SetsDone
  <2>1. stage = "sets" /\ stage' = "permissions" /\ sets' = <<>> /\ set' = 0
    BY <1>2 DEF SetsDone
  <2> QED
    BY <2>1 DEF Places, Access, InSets, Range
<1>3. CASE NextSet
  <2>1. /\ stage = "sets" /\ stage' \in {"describe", "failed"} /\ sets' = sets
        /\ set < Len(sets) /\ set' = set + 1
    BY <1>3 DEF NextSet
  <2>2. Places
    BY <2>1
  <2>3. sets' \in Seq(Range(sets')) /\ set' \in 0 .. Len(sets')
    BY <2>1, <2>2 DEF Places, Range
  <2> QED
    BY <2>1, <2>3 DEF Places, Access, InSets
<1>4. CASE UNCHANGED <<sets, set>> /\ ~TakePermissions /\ ~SetsDone
  <2>1. \/ UNCHANGED examined
        \/ stage \in Lists \ {"permissions"} /\ Examine
    BY <1>4 DEF Next, vars, IdentityProved, IdentityFails, Fail, ListPage, ListTooLong, ListFails,
       TakeInstances, TakeUsers, TakeGroups, TakeMembers, GroupsDone, NextGroup, NextAccount,
       TakeAccounts, NextSet, SetsDone, Described, DescribeFails, DescribesAnother,
       TakeAssignments, CollectEnds, Lists
  <2>2. Of("permissions")' = Of("permissions")
    BY <2>1, OfSame, OfExamined
  <2>3. /\ stage # "failed"
        /\ stage' \notin InSets => stage \notin InSets
        /\ stage' \notin Access => stage \notin Access
    BY <1>4 DEF Next, vars, walk, IdentityProved, IdentityFails, Fail, ListPage, ListTooLong,
       ListFails, TakeInstances, TakeUsers, TakeGroups, TakeMembers, GroupsDone, NextGroup,
       NextAccount, TakeAccounts, NextSet, SetsDone, Described, DescribeFails, DescribesAnother,
       TakeAssignments, CollectEnds, InSets, Access, Lists, ReadingList
  <2> QED
    BY <1>4, <2>2, <2>3 DEF Places, Range
<1> QED
  BY <1>1, <1>2, <1>3, <1>4 DEF Next, vars, walk, IdentityProved, IdentityFails, Fail,
     ListPage, ListTooLong, ListFails, TakeInstances, TakeUsers, TakeGroups, TakeMembers,
     GroupsDone, NextGroup, NextAccount, TakeAccounts, Described, DescribeFails,
     DescribesAnother, TakeAssignments, CollectEnds

\* What is whole stays whole, and what was left out is not there later.
Whole == DirectoryWhole /\ AccessWhole /\ NothingLeftOut

LEMMA WholeInstances ==
  ASSUME IInv, Paging, Places, Whole, complete, TakeInstances, stage' # "failed" PROVE Whole'
<1>1. /\ stage = "instances" /\ stage' = "users" /\ read /\ Close
      /\ UNCHANGED <<users, groups, todo, at, sets, set, organizations, examined>>
  BY DEF TakeInstances, directory, walk
<1>2. Where = <<"instances", "none", "none">>
  BY <1>1 DEF IInv, Walked, Directory, Where
<1>3. whole' = whole \cup {Where}
  BY <1>1, CloseWhole
<1>4. \A r : Resolved(r)' = Resolved(r)
  BY <1>1 DEF Resolved
<1> QED
  BY <1>1, <1>2, <1>3, <1>4, OfSame
     DEF Whole, DirectoryWhole, AccessWhole, NothingLeftOut, Directory, Access, InSets

LEMMA WholeUsers ==
  ASSUME IInv, Paging, Places, Whole, complete, TakeUsers, stage' # "failed" PROVE Whole'
<1>1. /\ stage = "users" /\ stage' = "groups" /\ read /\ Close /\ Examine
      /\ UNCHANGED <<groups, todo, at, sets, set, organizations>>
  BY DEF TakeUsers, walk
<1>2. Where = <<"users", "none", "none">>
  BY <1>1 DEF IInv, Walked, Directory, Where
<1>3. whole' = whole \cup {Where}
  BY <1>1, CloseWhole
<1>4. Of("members")' = {} /\ Of("assignments")' = {} /\ Of("permissions")' = {}
  <2>1. Of("members") = {} /\ Of("assignments") = {} /\ Of("permissions") = {}
    BY <1>1 DEF IInv, Members, Grants, Places, Directory, Access
  <2> QED
    BY <1>1, <2>1, OfExamined
<1> QED
  BY <1>1, <1>2, <1>3, <1>4
     DEF Whole, DirectoryWhole, AccessWhole, NothingLeftOut, Directory, Access, InSets

LEMMA WholeGroups ==
  ASSUME IInv, Paging, Places, Whole, complete, TakeGroups, stage' # "failed" PROVE Whole'
<1>1. /\ stage = "groups" /\ stage' = "members" /\ read /\ Close /\ Examine
      /\ groups' = Listed /\ todo' = Listed
      /\ UNCHANGED <<users, at, sets, set, organizations>>
  BY DEF TakeGroups, walk
<1>2. Where = <<"groups", "none", "none">>
  BY <1>1 DEF IInv, Walked, Directory, Where
<1>3. whole' = whole \cup {Where}
  BY <1>1, CloseWhole
<1>4. Of("members")' = {} /\ Of("assignments")' = {} /\ Of("permissions")' = {}
  <2>1. Of("members") = {} /\ Of("assignments") = {} /\ Of("permissions") = {}
    BY <1>1 DEF IInv, Members, Grants, Places, Directory, Access
  <2> QED
    BY <1>1, <2>1, OfExamined
<1> QED
  BY <1>1, <1>2, <1>3, <1>4
     DEF Whole, DirectoryWhole, AccessWhole, NothingLeftOut, Directory, Access, InSets

LEMMA WholeMembers ==
  ASSUME IInv, Paging, Places, Whole, complete', complete, TakeMembers, stage' # "failed"
  PROVE  Whole'
<1>1. /\ stage = "members" /\ stage' = "members" /\ read /\ Close /\ Examine
      /\ {i \in DOMAIN out : out[i].user \in users} = DOMAIN out
      /\ at' = "none"
      /\ UNCHANGED <<users, groups, todo, sets, set, organizations>>
  BY DEF TakeMembers
<1>2. Where = <<"members", at, "none">>
  BY <1>1 DEF IInv, Walked, Where
<1>3. whole' = whole \cup {Where}
  BY <1>1, CloseWhole
<1>4. \A e \in Of("members")' : e[2].user \in users'
  <2>1. Of("members")' = Of("members") \cup {<<Where, row>> : row \in Listed}
    BY <1>1, OfExamined
  <2>2. \A row \in Listed : row.user \in users
    BY <1>1 DEF Listed, Range
  <2> QED
    BY <1>1, <2>1, <2>2 DEF Whole, NothingLeftOut
<1>5. Of("assignments")' = {} /\ Of("permissions")' = {}
  <2>1. Of("assignments") = {} /\ Of("permissions") = {}
    BY <1>1 DEF IInv, Grants, Places, Directory, Access
  <2> QED
    BY <1>1, <2>1, OfExamined
<1> QED
  BY <1>1, <1>2, <1>3, <1>4, <1>5
     DEF Whole, DirectoryWhole, AccessWhole, NothingLeftOut, Directory, Access, InSets

LEMMA WholeAccounts ==
  ASSUME IInv, Paging, Places, Whole, complete', complete, TakeAccounts, stage' # "failed"
  PROVE  Whole'
<1>1. /\ stage = "accounts" /\ stage' = "permissions" /\ read /\ Close /\ Examine
      /\ Configured \subseteq {row.id : row \in Listed}
      /\ UNCHANGED <<users, groups, todo, at, sets, set, organizations>>
  BY DEF TakeAccounts, directory, walk
<1>2. Where = <<"accounts", "none", "none">> /\ todo = Configured
  BY <1>1 DEF IInv, Walked, Where
<1>3. whole' = whole \cup {Where}
  BY <1>1, CloseWhole
<1>4. /\ Of("accounts")' = Of("accounts") \cup {<<Where, row>> : row \in Listed}
      /\ Of("members")' = Of("members") /\ Of("assignments")' = Of("assignments")
      /\ Of("permissions")' = Of("permissions")
  BY <1>1, OfExamined
<1>5. Configured \subseteq {e[2].id : e \in Of("accounts")'}
  <2>1. ASSUME NEW row \in Listed PROVE <<Where, row>> \in Of("accounts")'
    BY <1>4
  <2>2. \A row \in Listed : <<Where, row>>[2] = row
    OBVIOUS
  <2>3. \A row \in Listed : \E e \in Of("accounts")' : e[2] = row
    BY <2>1, <2>2
  <2> QED
    BY <1>1, <2>3
<1>6. Of("permissions") = {} /\ \A r : Resolved(r)' = Resolved(r)
  BY <1>1 DEF Places, Access, Resolved
<1>7. DirectoryWhole'
  BY <1>1, <1>2, <1>3, <1>5 DEF Whole, DirectoryWhole, Directory, Access
<1>8. AccessWhole'
  BY <1>1, <1>2, <1>4, <1>6 DEF AccessWhole, Access, Pending
<1>9. NothingLeftOut'
  BY <1>1, <1>4, <1>6 DEF Whole, NothingLeftOut
<1> QED
  BY <1>7, <1>8, <1>9 DEF Whole

LEMMA WholePermissions ==
  ASSUME IInv, Paging, Places, Whole, complete, TakePermissions PROVE Whole'
<1>1. /\ stage = "permissions" /\ stage' = "sets" /\ read /\ Close /\ Examine
      /\ sets' = out
      /\ UNCHANGED <<users, groups, todo, at, set, organizations>>
  BY DEF TakePermissions, directory
<1>2. Where = <<"permissions", at, "none">> /\ set = 0
  BY <1>1 DEF IInv, Walked, Where
<1>3. whole' = whole \cup {Where}
  BY <1>1, CloseWhole
<1>4. /\ Of("permissions")' = Of("permissions") \cup {<<Where, row>> : row \in Listed}
      /\ Of("members")' = Of("members") /\ Of("assignments")' = Of("assignments")
      /\ Of("accounts")' = Of("accounts")
  BY <1>1, OfExamined
<1>5. \A r : Resolved(r)' = Resolved(r)
  BY <1>1 DEF Resolved
<1>6. DirectoryWhole'
  BY <1>1, <1>2, <1>3, <1>4 DEF Whole, DirectoryWhole, Directory, Access
<1>7. \A a \in Configured : Pending(a)' \/ <<"permissions", a, "none">> \in whole'
  BY <1>1, <1>2, <1>3 DEF Whole, AccessWhole, Access, Pending
<1>8. ASSUME NEW e \in Of("permissions")'
      PROVE  \/ <<"assignments", e[1][2], e[2]>> \in whole'
             \/ e[1][2] = at' /\ \E i \in DOMAIN sets' : sets'[i] = e[2] /\ Unwalked(i)'
  <2>1. CASE e \in Of("permissions")
    BY <1>1, <1>3, <2>1 DEF Whole, AccessWhole, InSets
  <2>2. CASE e \in {<<Where, row>> : row \in Listed}
    <3>1. PICK i \in DOMAIN out : e = <<Where, out[i]>>
      BY <2>2 DEF Listed, Range
    <3>2. e[1][2] = at /\ e[2] = out[i]
      BY <3>1, <1>2
    <3>3. i \in 1 .. Len(out) /\ Len(out) \in Nat
      BY DEF Paging
    <3>4. Unwalked(i)'
      BY <1>1, <1>2, <3>3 DEF Unwalked
    <3> QED
      BY <1>1, <3>2, <3>4
  <2> QED
    BY <1>4, <2>1, <2>2
<1>9. NothingLeftOut'
  BY <1>1, <1>4, <1>5 DEF Whole, NothingLeftOut
<1> QED
  BY <1>1, <1>6, <1>7, <1>8, <1>9 DEF Whole, AccessWhole, InSets

LEMMA WholeAssignments ==
  ASSUME IInv, Paging, Places, Whole, complete', complete, TakeAssignments, stage' # "failed"
  PROVE  Whole'
<1>1. /\ stage = "assignments" /\ stage' = "sets" /\ read /\ Close /\ Examine
      /\ {i \in DOMAIN out : Resolved(out[i])} = DOMAIN out
      /\ UNCHANGED <<users, groups, todo, at, sets, set, organizations>>
  BY DEF TakeAssignments, directory, walk
<1>2. Where = <<"assignments", at, sets[set]>>
  BY <1>1 DEF IInv, Walked, Where
<1>3. whole' = whole \cup {Where}
  BY <1>1, CloseWhole
<1>4. /\ Of("assignments")' = Of("assignments") \cup {<<Where, row>> : row \in Listed}
      /\ Of("members")' = Of("members") /\ Of("permissions")' = Of("permissions")
      /\ Of("accounts")' = Of("accounts")
  BY <1>1, OfExamined
<1>5. \A r : Resolved(r)' = Resolved(r)
  BY <1>1 DEF Resolved
<1>6. DirectoryWhole'
  BY <1>1, <1>3, <1>4 DEF Whole, DirectoryWhole, Directory, Access
<1>7. \A a \in Configured : Pending(a)' \/ <<"permissions", a, "none">> \in whole'
  BY <1>1, <1>3 DEF Whole, AccessWhole, Access, Pending
<1>8. ASSUME NEW e \in Of("permissions")
      PROVE  \/ <<"assignments", e[1][2], e[2]>> \in whole'
             \/ e[1][2] = at' /\ \E i \in DOMAIN sets' : sets'[i] = e[2] /\ Unwalked(i)'
  <2>1. CASE <<"assignments", e[1][2], e[2]>> \in whole
    BY <1>3, <2>1
  <2>2. CASE e[1][2] = at /\ \E i \in DOMAIN sets : sets[i] = e[2] /\ Unwalked(i)
    <3>1. PICK i \in DOMAIN sets : sets[i] = e[2] /\ Unwalked(i)
      BY <2>2
    <3>2. CASE i = set
      BY <1>2, <1>3, <2>2, <3>1, <3>2
    <3>3. CASE i # set
      BY <1>1, <2>2, <3>1, <3>3 DEF Unwalked
    <3> QED
      BY <3>2, <3>3
  <2> QED
    BY <2>1, <2>2 DEF Whole, AccessWhole
<1>9. NothingLeftOut'
  <2>1. \A row \in Listed : Resolved(row)
    BY <1>1 DEF Listed, Range
  <2>2. \A e \in Of("assignments")' : Resolved(e[2])'
    BY <1>4, <1>5, <2>1 DEF Whole, NothingLeftOut
  <2> QED
    BY <1>1, <1>4, <2>2 DEF Whole, NothingLeftOut
<1> QED
  BY <1>1, <1>4, <1>6, <1>7, <1>8, <1>9 DEF Whole, AccessWhole, InSets

LEMMA WholeNextGroup ==
  ASSUME IInv, Unnamed, Whole, NEW g \in todo, NextGroup(g) PROVE Whole'
<1>1. /\ stage = "members" /\ stage' = "members" /\ at = "none" /\ at' = g
      /\ todo' = todo \ {g}
      /\ UNCHANGED <<users, groups, sets, set, organizations, examined, whole>>
  BY DEF NextGroup, directory
<1>2. \A r : Resolved(r)' = Resolved(r)
  BY <1>1 DEF Resolved
<1>3. groups' \ (todo' \cup {at'}) = groups \ (todo \cup {at})
  BY <1>1 DEF Unnamed
<1>4. DirectoryWhole'
  BY <1>1, <1>3, OfSame DEF Whole, DirectoryWhole, Directory, Access
<1>5. AccessWhole' /\ NothingLeftOut'
  BY <1>1, <1>2, OfSame DEF Whole, AccessWhole, NothingLeftOut, Access, InSets
<1> QED
  BY <1>4, <1>5 DEF Whole

LEMMA WholeGroupsDone == ASSUME IInv, Unnamed, Places, Whole, GroupsDone PROVE Whole'
<1>1. /\ stage = "members" /\ stage' = IF organizations THEN "accounts" ELSE "permissions"
      /\ at = "none" /\ at' = "none" /\ todo = {} /\ todo' = Configured
      /\ UNCHANGED <<users, groups, sets, set, organizations, examined, whole>>
  BY DEF GroupsDone, directory
<1>2. \A r : Resolved(r)' = Resolved(r)
  BY <1>1 DEF Resolved
<1>3. Of("permissions") = {}
  BY <1>1 DEF Places, Access
<1>4. DirectoryWhole'
  <2>1. \A g \in groups : <<"members", g, "none">> \in whole
    BY <1>1 DEF Unnamed, Whole, DirectoryWhole
  <2>2. CASE organizations
    BY <1>1, <2>1, <2>2 DEF Whole, DirectoryWhole, Directory, Access
  <2>3. CASE ~organizations
    BY <1>1, <2>1, <2>3 DEF Whole, DirectoryWhole, Directory, Access
  <2> QED
    BY <2>2, <2>3
<1>5. AccessWhole'
  BY <1>1, <1>3, OfSame DEF AccessWhole, Access, Pending
<1>6. NothingLeftOut'
  BY <1>1, <1>2, OfSame DEF Whole, NothingLeftOut
<1> QED
  BY <1>4, <1>5, <1>6 DEF Whole

LEMMA WholeWalks ==
  ASSUME IInv, Places, Whole,
         (\E a \in todo : NextAccount(a)) \/ NextSet \/ SetsDone \/ Described,
         stage' # "failed"
  PROVE  Whole'
<1>1. UNCHANGED <<users, groups, organizations, examined, whole>>
  BY DEF NextAccount, NextSet, SetsDone, Described, directory
<1>2. \A r : Resolved(r)' = Resolved(r)
  BY <1>1 DEF Resolved
<1>3. stage \in Access /\ stage' \in Access
  BY DEF NextAccount, NextSet, SetsDone, Described, Access
<1>4. DirectoryWhole'
  BY <1>1, <1>3, OfSame DEF Whole, DirectoryWhole, Directory, Access
<1>5. NothingLeftOut'
  BY <1>1, <1>2, OfSame DEF Whole, NothingLeftOut
<1>6. \A a \in Configured : Pending(a)' \/ <<"permissions", a, "none">> \in whole'
  <2>1. ASSUME NEW a \in Configured, ~Pending(a)' PROVE ~Pending(a)
    <3>1. a # "none"
      BY IdentityCenterAssumption
    <3>2. CASE \E x \in todo : NextAccount(x)
      BY <2>1, <3>1, <3>2 DEF NextAccount, Pending
    <3>3. CASE NextSet \/ SetsDone \/ Described
      BY <2>1, <3>3 DEF NextSet, SetsDone, Described, Pending, walk
    <3> QED
      BY <3>2, <3>3
  <2> QED
    BY <1>1, <1>3, <2>1 DEF Whole, AccessWhole
<1>7. ASSUME NEW e \in Of("permissions")
      PROVE  \/ <<"assignments", e[1][2], e[2]>> \in whole
             \/ /\ stage' \in InSets /\ e[1][2] = at'
                /\ \E i \in DOMAIN sets' : sets'[i] = e[2] /\ Unwalked(i)'
  <2>1. \/ <<"assignments", e[1][2], e[2]>> \in whole
        \/ /\ stage \in InSets /\ e[1][2] = at
           /\ \E i \in DOMAIN sets : sets[i] = e[2] /\ Unwalked(i)
    BY DEF Whole, AccessWhole
  <2>2. CASE \E a \in todo : NextAccount(a)
    BY <2>1, <2>2 DEF NextAccount, InSets
  <2>3. CASE Described
    BY <2>1, <2>3 DEF Described, InSets, Unwalked, walk
  <2>4. CASE NextSet
    <3>1. /\ stage = "sets" /\ stage' = "describe" /\ set' = set + 1
          /\ UNCHANGED <<at, sets>>
      BY <2>4 DEF NextSet
    <3>2. ASSUME NEW i \in DOMAIN sets, Unwalked(i) PROVE Unwalked(i)'
      BY <3>1, <3>2 DEF Unwalked, Places
    <3> QED
      BY <2>1, <3>1, <3>2 DEF InSets
  <2>5. CASE SetsDone
    <3>1. stage = "sets" /\ set = Len(sets)
      BY <2>5 DEF SetsDone
    <3>2. ASSUME NEW i \in DOMAIN sets PROVE ~Unwalked(i)
      BY <3>1 DEF Unwalked, Places
    <3> QED
      BY <2>1, <3>2
  <2> QED
    BY <2>2, <2>3, <2>4, <2>5
<1>8. AccessWhole'
  BY <1>1, <1>6, <1>7, OfSame DEF AccessWhole
<1> QED
  BY <1>4, <1>5, <1>8 DEF Whole

\* Steps that neither close a list nor move a walk.
LEMMA WholeElse ==
  ASSUME IInv, Places, Whole, stage' # "failed",
         \/ IdentityProved \/ CollectEnds \/ UNCHANGED vars
         \/ stage' = stage /\ UNCHANGED <<organizations, directory, walk, examined, whole>>
  PROVE  Whole'
<1>1. UNCHANGED <<organizations, users, groups, todo, at, sets, set, examined, whole>>
  BY DEF IdentityProved, CollectEnds, vars, directory, walk
<1>2. \A r : Resolved(r)' = Resolved(r)
  BY <1>1 DEF Resolved
<1>3. CASE stage' = stage
  BY <1>1, <1>2, <1>3, OfSame
     DEF Whole, DirectoryWhole, AccessWhole, NothingLeftOut, Pending, Unwalked
<1>4. CASE IdentityProved
  BY <1>1, <1>2, <1>4, OfSame
     DEF IdentityProved, Whole, DirectoryWhole, AccessWhole, NothingLeftOut, Access, InSets,
         Directory
<1>5. CASE CollectEnds
  <2>1. \A a \in Configured : a # "none"
    BY IdentityCenterAssumption
  <2> QED
    BY <2>1, <1>1, <1>2, <1>5, OfSame
     DEF CollectEnds, Whole, DirectoryWhole, AccessWhole, NothingLeftOut, Access, InSets,
         Directory, Pending
<1> QED
  BY <1>3, <1>4, <1>5 DEF vars

LEMMA NextJ == IInv /\ JInv /\ [Next]_vars => JInv'
<1> SUFFICES ASSUME IInv, JInv, [Next]_vars PROVE JInv'
  OBVIOUS
<1>1. Paging' /\ Unnamed'
  BY PagingStep, UnnamedStep DEF JInv
<1>2. stage' # "failed" => stage # "failed"
  BY DEF Next, vars, IdentityProved, IdentityFails, Fail, ListPage, ListTooLong, ListFails,
     TakeInstances, TakeUsers, TakeGroups, TakeMembers, GroupsDone, NextGroup, NextAccount,
     TakeAccounts, TakePermissions, NextSet, SetsDone, Described, DescribeFails,
     DescribesAnother, TakeAssignments, CollectEnds, ReadingList, Lists
<1>3. stage' # "failed" => Places'
  BY PlacesStep DEF JInv
<1>4. ASSUME stage' # "failed", complete' PROVE Whole'
  <2>1. complete /\ Paging /\ Unnamed /\ Places /\ Whole
    BY <1>2, <1>4, StillComplete DEF JInv, Whole
  <2>2. CASE TakeInstances \/ TakeUsers \/ TakeGroups \/ TakeMembers
    BY <1>4, <2>1, <2>2, WholeInstances, WholeUsers, WholeGroups, WholeMembers
  <2>3. CASE TakeAccounts \/ TakePermissions \/ TakeAssignments
    BY <1>4, <2>1, <2>3, WholeAccounts, WholePermissions, WholeAssignments
  <2>4. CASE \E g \in todo : NextGroup(g)
    BY <2>1, <2>4, WholeNextGroup
  <2>5. CASE GroupsDone
    BY <2>1, <2>5, WholeGroupsDone
  <2>6. CASE (\E a \in todo : NextAccount(a)) \/ NextSet \/ SetsDone \/ Described
    BY <1>4, <2>1, <2>6, WholeWalks
  <2>7. CASE \/ IdentityProved \/ CollectEnds \/ UNCHANGED vars
             \/ \E values, token : ListPage(values, token)
    <3>1. ASSUME NEW values, NEW token, ListPage(values, token)
          PROVE  stage' = stage /\ UNCHANGED <<organizations, directory, walk, examined, whole>>
      BY <1>4, <3>1 DEF ListPage
    <3> QED
      BY <1>4, <2>1, <2>7, <3>1, WholeElse
  <2>8. ~ListFails /\ ~(\E values : ListTooLong(values)) /\ ~DescribeFails
        /\ ~IdentityFails /\ ~DescribesAnother
    BY <1>4 DEF ListFails, ListTooLong, DescribeFails, IdentityFails, DescribesAnother, Fail
  <2> QED
    BY <2>2, <2>3, <2>4, <2>5, <2>6, <2>7, <2>8 DEF Next
<1> QED
  BY <1>1, <1>3, <1>4 DEF JInv, Whole

LEMMA WholeSuffices == IInv /\ JInv => CompleteIsWhole
<1> SUFFICES ASSUME IInv, JInv, stage = "done", complete
             PROVE
      /\ {<<l, "none", "none">> : l \in {"instances", "users", "groups"}} \subseteq whole
      /\ {<<"members", g, "none">> : g \in groups} \subseteq whole
      /\ {<<"permissions", a, "none">> : a \in Configured} \subseteq whole
      /\ \A e \in Of("permissions") : <<"assignments", e[1][2], e[2]>> \in whole
      /\ organizations => /\ <<"accounts", "none", "none">> \in whole
                          /\ Configured \subseteq {e[2].id : e \in Of("accounts")}
      /\ \A e \in Of("members") : <<e[2].user, e[1][2]>> \in memberships
      /\ \A e \in Of("assignments") : <<e[1][2], e[1][3], <<e[2].kind, e[2].id>>>> \in grants
  BY DEF CompleteIsWhole
<1>1. DirectoryWhole /\ AccessWhole /\ NothingLeftOut
  BY DEF JInv
<1>2. stage \in Access /\ stage \notin Directory /\ stage \notin InSets
      /\ stage \notin {"instances", "caller", "users", "permissions", "failed"} /\ todo = {}
  BY DEF IInv, Walked, Access, Directory, InSets
<1>3. /\ <<"instances", "none", "none">> \in whole /\ <<"users", "none", "none">> \in whole
      /\ <<"groups", "none", "none">> \in whole
      /\ \A g \in groups : <<"members", g, "none">> \in whole
      /\ organizations => /\ <<"accounts", "none", "none">> \in whole
                          /\ Configured \subseteq {e[2].id : e \in Of("accounts")}
  BY <1>1, <1>2 DEF DirectoryWhole
<1>4. /\ \A a \in Configured : <<"permissions", a, "none">> \in whole
      /\ \A e \in Of("permissions") : <<"assignments", e[1][2], e[2]>> \in whole
  BY <1>1, <1>2 DEF AccessWhole, Pending
<1>5. ASSUME NEW e \in Of("members") PROVE <<e[2].user, e[1][2]>> \in memberships
  BY <1>1, <1>2 DEF NothingLeftOut, IInv, Members
<1>6. ASSUME NEW e \in Of("assignments")
      PROVE  <<e[1][2], e[1][3], <<e[2].kind, e[2].id>>>> \in grants
  BY <1>1, <1>2 DEF NothingLeftOut, IInv, Grants
<1> QED
  BY <1>3, <1>4, <1>5, <1>6

\* complete=true means that every list, of each group, account and permission set,
\* was read along new tokens to a page that names none, and that no member and no
\* assignment was left out.
THEOREM CompleteWhole == Spec => []CompleteIsWhole
BY InitInv, NextInv, InitJ, NextJ, WholeSuffices, PTL DEF Spec

-----------------------------------------------------------------------------
(***************************************************************************)
(* Types, and what each binary is charged for.                             *)
(***************************************************************************)
\* What the rows of a list are made into is no more than these rows.
LEMMA AtMost ==
  ASSUME NEW S, NEW n \in Nat, NEW f, \A x \in S : \E i \in 1 .. n : x = f[i]
  PROVE  IsFiniteSet(S) /\ Cardinality(S) \in Nat /\ Cardinality(S) <= n
<1> DEFINE U == {i \in 1 .. n : f[i] \in S}
           g == [i \in U |-> f[i]]
<1>1. IsFiniteSet(1 .. n) /\ Cardinality(1 .. n) = n
  <2>1. IsFiniteSet(1 .. n) /\ Cardinality(1 .. n) = IF 1 > n THEN 0 ELSE n - 1 + 1
    BY FS_Interval
  <2> QED
    BY <2>1
<1>2. U \in SUBSET (1 .. n)
  OBVIOUS
<1>3. IsFiniteSet(U) /\ Cardinality(U) <= Cardinality(1 .. n)
  BY <1>1, <1>2, FS_Subset
<1>4. g \in Surjection(U, S)
  <2>1. g \in [U -> S]
    OBVIOUS
  <2>2. \A x \in S : \E i \in U : g[i] = x
    OBVIOUS
  <2> QED
    BY <2>1, <2>2 DEF Surjection
<1>5. IsFiniteSet(S) /\ Cardinality(S) <= Cardinality(U)
  BY <1>3, <1>4, FS_Surjection
<1>6. Cardinality(S) \in Nat /\ Cardinality(U) \in Nat
  BY <1>3, <1>5, FS_CardinalityType
<1> QED
  BY <1>1, <1>3, <1>5, <1>6

LEMMA JoinedAtMost ==
  ASSUME NEW R, IsFiniteSet(R), NEW S, NEW n \in Nat, NEW f,
         \A x \in S : \E i \in 1 .. n : x = f[i]
  PROVE  /\ IsFiniteSet(R \cup S) /\ Cardinality(R \cup S) \in Nat
         /\ Cardinality(R) \in Nat /\ Cardinality(R \cup S) <= Cardinality(R) + n
<1>1. IsFiniteSet(S) /\ Cardinality(S) \in Nat /\ Cardinality(S) <= n
  BY AtMost
<1>2. /\ IsFiniteSet(R \cup S)
      /\ Cardinality(R \cup S) = Cardinality(R) + Cardinality(S) - Cardinality(R \cap S)
  BY <1>1, FS_Union
<1>3. R \cap S \in SUBSET R
  OBVIOUS
<1>4. IsFiniteSet(R \cap S)
  BY <1>3, FS_Subset
<1>5. Cardinality(R) \in Nat /\ Cardinality(R \cup S) \in Nat /\ Cardinality(R \cap S) \in Nat
  BY <1>2, <1>4, FS_CardinalityType
<1> QED
  BY <1>1, <1>2, <1>5

\* A page is asked for only while the limit allows one more.
IamTyped ==
  /\ IamTypeOK /\ IsFiniteSet(collected)
  /\ phase \in {"caller", "pages"} => Len(told) < MaxIamPages

LEMMA InitIamTyped == IamInit => IamTyped
<1> SUFFICES ASSUME IamInit PROVE IamTyped
  OBVIOUS
<1>1. IsFiniteSet({}) /\ Cardinality({}) = 0
  BY FS_EmptySet
<1>2. Len(<<>>) = 0 /\ MaxIamPages > 0 /\ MaxIamRows \in Nat
  BY AwsIamAssumption
<1>3. /\ phase = "caller" /\ marker = "first" /\ markers = {} /\ collected = {} /\ count = 0
      /\ warned = FALSE /\ told = <<>>
  BY DEF IamInit
<1>4. Cardinality(collected) <= count /\ count \in 0 .. MaxIamRows
  BY <1>1, <1>2, <1>3
<1>5. Len(told) < MaxIamPages /\ Len(told) <= MaxIamPages
  BY <1>2, <1>3, AwsIamAssumption
<1>6. IsFiniteSet(collected) /\ warned \in BOOLEAN
  BY <1>1, <1>3
<1>7. marker \in Markers \cup {"first"} /\ markers \subseteq Markers
  BY <1>3
<1> QED
  BY <1>3, <1>4, <1>5, <1>6, <1>7 DEF IamTyped, IamTypeOK

LEMMA IamPageTyped ==
  ASSUME IamTyped, Collected,
         NEW output \in Outputs, NEW truncated \in BOOLEAN, NEW next \in Markers \cup {"none", Unfit},
         Page(output, truncated, next)
  PROVE  IamTyped'
<1> DEFINE end == PageEnds(truncated, next)
           S == {output[i] : i \in DOMAIN output}
<1>1. output \in Seq(Row) /\ Len(output) \in Nat /\ DOMAIN output = 1 .. Len(output)
  BY AwsIamAssumption
<1>2. /\ phase = "pages" /\ phase' = IF end = "more" THEN "pages" ELSE "finish"
      /\ marker' = IF end = "more" THEN next ELSE marker
      /\ markers' = IF truncated /\ next \in Markers THEN markers \cup {next} ELSE markers
      /\ warned' = (warned \/ end = "cut")
      /\ collected' = collected \cup S /\ count' = count + Len(output)
      /\ count + Len(output) <= MaxIamRows
  BY DEF Page, Room
<1>3. end = "more" => next \in Markers /\ Len(told) + 1 # MaxIamPages
  BY DEF PageEnds
<1>4. /\ IsFiniteSet(collected \cup S) /\ Cardinality(collected \cup S) \in Nat
      /\ Cardinality(collected) \in Nat
      /\ Cardinality(collected \cup S) <= Cardinality(collected) + Len(output)
  <2>1. \A x \in S : \E i \in 1 .. Len(output) : x = output[i]
    BY <1>1
  <2> HIDE DEF S
  <2> QED
    BY <1>1, <2>1, JoinedAtMost DEF IamTyped
<1>5. Len(told) \in Nat /\ Len(told') = Len(told) + 1 /\ Len(told) < MaxIamPages
  BY <1>2 DEF Collected, IamTyped, Page
<1> HIDE DEF end, S
<1>6. Cardinality(collected') <= count' /\ count' \in 0 .. MaxIamRows
  BY <1>1, <1>2, <1>4, AwsIamAssumption DEF IamTyped, IamTypeOK
<1>7. Len(told') <= MaxIamPages /\ (end = "more" => Len(told') < MaxIamPages)
  BY <1>3, <1>5, AwsIamAssumption
<1>8. phase' \in {"pages", "finish"} /\ warned' \in BOOLEAN
  BY <1>2
<1>9. marker' \in Markers \cup {"first"} /\ markers' \subseteq Markers
  BY <1>2, <1>3 DEF IamTyped, IamTypeOK
<1> QED
  BY <1>2, <1>4, <1>6, <1>7, <1>8, <1>9 DEF IamTyped, IamTypeOK

LEMMA NextIamTyped == ASSUME IamInv, IamTyped, [IamNext]_iamVars PROVE IamTyped'
<1>1. CASE UNCHANGED iamVars
  BY <1>1 DEF iamVars, IamTyped, IamTypeOK
<1>2. CASE CallerProved \/ CallerFails \/ PageFails \/ Finish \/ \E output \in Outputs : TooMany(output)
  <2>1. /\ phase' \in {"pages", "finish", "failed", "done", "malformed"}
        /\ (phase' = "pages" => phase = "caller")
        /\ warned' \in BOOLEAN
        /\ UNCHANGED <<marker, markers, collected, count, told>>
    BY <1>2 DEF CallerProved, CallerFails, PageFails, Finish, TooMany, IamTyped, IamTypeOK
  <2> QED
    BY <2>1 DEF IamTyped, IamTypeOK
<1>3. ASSUME NEW output \in Outputs, NEW truncated \in BOOLEAN,
             NEW next \in Markers \cup {"none", Unfit}, Page(output, truncated, next)
      PROVE  IamTyped'
  BY <1>3, IamPageTyped DEF IamInv
<1> QED
  BY <1>1, <1>2, <1>3 DEF IamNext

\* What was taken from lists: each of it was a row, and the rows in hand were charged
\* for beside it, but for those of the instances.
Held ==
  Cardinality(users) + Cardinality(groups) + Cardinality(memberships) + Cardinality(grants)

CenterTyped ==
  /\ TypeOK
  /\ IsFiniteSet(users) /\ IsFiniteSet(groups) /\ IsFiniteSet(memberships) /\ IsFiniteSet(grants)
  /\ ~read => Len(tokens) < MaxPages
  /\ stage \notin {"instances", "failed"} => Held + Len(out) <= rows
  /\ sets \in Seq(Range(sets))

LEMMA InitCenterTyped == Init => CenterTyped
<1> SUFFICES ASSUME Init PROVE CenterTyped
  OBVIOUS
<1>1. IsFiniteSet({}) /\ Cardinality({}) = 0
  BY FS_EmptySet
<1>2. Len(<<>>) = 0 /\ MaxPages > 0 /\ MaxRows \in Nat /\ MaxPages \in Nat
  BY IdentityCenterAssumption
<1>3. Held = 0 /\ Held + Len(out) <= rows
  BY <1>1, <1>2 DEF Init, Held
<1>4. TypeOK
  <2>1. Len(tokens) <= MaxPages /\ rows \in 0 .. MaxRows + 1 /\ set \in 0 .. Len(sets)
    BY <1>2 DEF Init
  <2>2. /\ stage = "caller" /\ organizations \in Include /\ read = FALSE /\ complete = TRUE
        /\ todo = {} /\ at = "none" /\ Held <= rows
    BY <1>1 DEF Init, Held
  <2> QED
    BY <2>1, <2>2 DEF TypeOK, Held
<1>5. sets \in Seq(Range(sets))
  BY DEF Init
<1> QED
  BY <1>1, <1>2, <1>3, <1>4, <1>5 DEF Init, CenterTyped

LEMMA HeldNat ==
  ASSUME CenterTyped
  PROVE  /\ Cardinality(users) \in Nat /\ Cardinality(groups) \in Nat
         /\ Cardinality(memberships) \in Nat /\ Cardinality(grants) \in Nat
         /\ Held \in Nat /\ Held <= rows /\ rows \in Nat
<1>1. /\ Cardinality(users) \in Nat /\ Cardinality(groups) \in Nat
      /\ Cardinality(memberships) \in Nat /\ Cardinality(grants) \in Nat
  BY FS_CardinalityType DEF CenterTyped
<1> QED
  BY <1>1, IdentityCenterAssumption DEF CenterTyped, Held, TypeOK

\* Steps that ask for a list, or stop asking.
LEMMA ListTyped ==
  ASSUME CenterTyped, Paging,
         \/ \E values \in IF stage \in Lists THEN Pages[stage] ELSE {},
               token \in Tokens \cup {"none", Bad} : ListPage(values, token)
         \/ \E values \in IF stage \in Lists THEN Pages[stage] ELSE {} : ListTooLong(values)
         \/ ListFails
  PROVE  CenterTyped'
<1> DEFINE V == IF stage \in Lists THEN Pages[stage] ELSE {}
<1>0. /\ Len(out) \in Nat /\ Len(tokens) \in Nat /\ MaxRows \in Nat /\ MaxPages \in Nat
      /\ Held \in Nat /\ Held <= rows /\ rows \in Nat
  BY HeldNat, IdentityCenterAssumption DEF Paging
<1>1. ASSUME NEW values \in V, NEW token \in Tokens \cup {"none", Bad}, ListPage(values, token)
      PROVE  CenterTyped'
  <2>1. values \in Seq(Range(values)) /\ Len(values) \in Nat
    BY <1>1, IdentityCenterAssumption
  <2>2. /\ stage \in Lists /\ ~read
        /\ UNCHANGED <<organizations, users, groups, memberIds, memberships, todo, at, sets,
                       set, resources, grants>>
        /\ rows' = Charged(values) /\ Charged(values) <= MaxRows
        /\ out' = out \o values /\ tokens' = Append(tokens, token)
        /\ read' = (Advance(token) # "more") /\ complete' \in BOOLEAN
        /\ stage' \in {stage, "failed"}
    BY <1>1 DEF ListPage, ReadingList, directory, walk, access, CenterTyped, TypeOK
  <2>3. Len(out') = Len(out) + Len(values) /\ Len(tokens') = Len(tokens) + 1
    <3>1. out \in Seq(Range(out) \cup Range(values)) /\ values \in Seq(Range(out) \cup Range(values))
      BY <2>1 DEF Paging
    <3> QED
      BY <2>2, <3>1 DEF Paging
  <2>4. Len(tokens) < MaxPages /\ Len(tokens') <= MaxPages
    BY <1>0, <2>2, <2>3 DEF CenterTyped
  <2>5. Len(tokens) + 1 = MaxPages => Advance(token) # "more"
    BY DEF Advance
  <2>6. ~read' => Len(tokens') < MaxPages
    <3>1. ~read' => Advance(token) = "more"
      BY <2>2
    <3>2. ~read' => Len(tokens) + 1 # MaxPages
      BY <2>5, <3>1
    <3> QED
      BY <1>0, <2>3, <2>4, <3>2
  <2>7. /\ rows' \in 0 .. MaxRows + 1 /\ rows <= rows'
        /\ stage # "instances" => rows' = rows + Len(values)
    BY <1>0, <2>1, <2>2 DEF Charged
  <2>8. stage \notin {"instances", "failed"} => Held + Len(out') <= rows'
    BY <1>0, <2>1, <2>3, <2>7 DEF CenterTyped
  <2>9. Held' = Held /\ Held' <= rows'
    BY <1>0, <2>2, <2>7 DEF Held
  <2>10. TypeOK'
    BY <2>2, <2>4, <2>7, <2>9 DEF CenterTyped, TypeOK, Held
  <2> QED
    BY <2>2, <2>6, <2>8, <2>9, <2>10 DEF CenterTyped
<1>2. CASE (\E values \in V : ListTooLong(values)) \/ ListFails
  <2>1. /\ UNCHANGED <<organizations, users, groups, memberIds, memberships, todo, at, sets,
                       set, resources, grants, out, tokens>>
        /\ complete' \in BOOLEAN /\ stage' \in {stage, "failed"}
        /\ read' \in BOOLEAN /\ (~read' => ~read)
        /\ rows' \in {rows, MaxRows + 1}
    BY <1>2 DEF ListTooLong, ListFails, Fail, directory, walk, access, pager, CenterTyped, TypeOK
  <2>2. rows' \in 0 .. MaxRows + 1 /\ rows <= rows'
    BY <1>0, <2>1 DEF CenterTyped, TypeOK
  <2>3. Held' = Held /\ Held' <= rows'
    BY <1>0, <2>1, <2>2 DEF Held
  <2>4. stage' \notin {"instances", "failed"} => Held' + Len(out') <= rows'
    BY <1>0, <2>1, <2>2, <2>3 DEF CenterTyped
  <2>5. TypeOK'
    BY <2>1, <2>2, <2>3 DEF CenterTyped, TypeOK, Held
  <2> QED
    BY <2>1, <2>4, <2>5 DEF CenterTyped
<1> QED
  BY <1>1, <1>2

\* Steps that leave what is listed, what is held and where the walk is.
LEMMA StillTyped ==
  ASSUME CenterTyped, stage' \in Lists \cup {"caller", "sets", "describe", "done", "failed", "malformed"},
         stage' \notin {"instances", "failed"} /\ stage \in {"instances", "failed"} => out' = <<>>,
         organizations' = organizations, complete' \in BOOLEAN, rows' = rows,
         users' = users, groups' = groups, memberships' = memberships, grants' = grants,
         \/ UNCHANGED pager
         \/ out' = <<>> /\ tokens' = <<>> /\ read' = FALSE,
         out \in Seq(Range(out)),
         todo' \subseteq groups \cup Configured, at' \in {"none"} \cup groups \cup Configured,
         sets' \in Seq(Range(sets')), set' \in 0 .. Len(sets')
  PROVE  CenterTyped'
<1>1. /\ Held \in Nat /\ Held <= rows /\ rows \in Nat /\ Len(out) \in Nat
      /\ MaxPages \in Nat \ {0}
  BY HeldNat, IdentityCenterAssumption
<1>2. Len(<<>>) = 0
  OBVIOUS
<1>3. Held' = Held
  BY DEF Held
<1>4. stage' \notin {"instances", "failed"} => Held' + Len(out') <= rows'
  <2>1. CASE out' = <<>>
    BY <1>1, <1>2, <1>3, <2>1
  <2>2. CASE out' # <<>>
    BY <1>1, <1>3, <2>2 DEF CenterTyped, pager
  <2> QED
    BY <2>1, <2>2
<1>5. Len(tokens') <= MaxPages /\ (~read' => Len(tokens') < MaxPages) /\ read' \in BOOLEAN
  <2>1. CASE tokens' = tokens /\ read' = read
    BY <2>1 DEF CenterTyped, TypeOK
  <2>2. CASE tokens' = <<>> /\ read' = FALSE
    <3>1. Len(tokens') = 0 /\ 0 < MaxPages
      BY <1>1, <1>2, <2>2
    <3>2. Len(tokens') <= MaxPages /\ Len(tokens') < MaxPages
      BY <1>1, <3>1
    <3>3. read' \in BOOLEAN
      BY <2>2
    <3> QED
      BY <3>2, <3>3
  <2> QED
    BY <2>1, <2>2 DEF pager
<1>6. TypeOK'
  BY <1>5 DEF CenterTyped, TypeOK
<1> QED
  BY <1>4, <1>5, <1>6 DEF CenterTyped

LEMMA EmptyIsSeq == \A S : <<>> \in Seq(S) /\ Len(<<>>) = 0
OBVIOUS

\* A list has been taken: what it became is no more than its rows, which were charged.
LEMMA TakenTyped ==
  ASSUME CenterTyped, out \in Seq(Range(out)), Close, stage \in Lists \ {"instances"},
         stage' \in Lists \cup {"sets", "failed"},
         organizations' = organizations, complete' \in BOOLEAN, rows' = rows,
         IsFiniteSet(users') /\ IsFiniteSet(groups'),
         IsFiniteSet(memberships') /\ IsFiniteSet(grants'),
         Held' <= Held + Len(out), Held' \in Nat,
         todo' \subseteq groups' \cup Configured, at' \in {"none"} \cup groups' \cup Configured,
         sets' \in Seq(Range(sets')), set' \in 0 .. Len(sets')
  PROVE  CenterTyped'
<1>1. /\ Held \in Nat /\ rows \in Nat /\ Len(out) \in Nat /\ MaxPages \in Nat \ {0}
  BY HeldNat, IdentityCenterAssumption
<1>2. Held + Len(out) <= rows
  BY DEF CenterTyped, Lists
<1>3. Held' <= rows'
  BY <1>1, <1>2
<1>4. out' = <<>> /\ tokens' = <<>> /\ read' = FALSE
  BY DEF Close
<1>5. Len(out') = 0 /\ Len(tokens') = 0
  BY <1>4, EmptyIsSeq
<1>6. Held' + Len(out') <= rows'
  <2>1. Held' \in Nat /\ rows' \in Nat
    BY <1>1
  <2>2. \A h, r \in Nat : \A l : h <= r /\ l = 0 => h + l <= r
    OBVIOUS
  <2> QED
    BY <1>3, <1>5, <2>1, <2>2, Zenon
<1>7. Len(tokens') <= MaxPages /\ Len(tokens') < MaxPages
  BY <1>1, <1>5
<1>8. TypeOK'
  BY <1>3, <1>4, <1>7 DEF CenterTyped, TypeOK, Held
<1> QED
  BY <1>4, <1>6, <1>7, <1>8 DEF CenterTyped

LEMMA TakeUsersTyped == ASSUME CenterTyped, IInv, Paging, TakeUsers PROVE CenterTyped'
<1>1. /\ stage = "users" /\ users' = Listed /\ stage' \in {"groups", "failed"}
      /\ UNCHANGED <<organizations, rows, groups, memberships, todo, at, sets, set, grants, complete>>
      /\ Close /\ out \in Seq(Range(out))
  BY DEF TakeUsers, walk, access, Paging
<1>2. IsFiniteSet(users') /\ Cardinality(users') \in Nat /\ Cardinality(users') <= Len(out)
  <2>1. \A x \in Listed : \E i \in 1 .. Len(out) : x = out[i]
    BY <1>1 DEF Listed, Range
  <2>2. Len(out) \in Nat
    BY <1>1
  <2> QED
    BY <1>1, <2>1, <2>2, AtMost
<1>3. Held' <= Held + Len(out) /\ Held' \in Nat
  <2>1. Len(out) \in Nat
    BY <1>1
  <2>2. /\ Cardinality(groups') = Cardinality(groups) /\ Cardinality(memberships') = Cardinality(memberships)
        /\ Cardinality(grants') = Cardinality(grants)
    BY <1>1
  <2>3. Held' = Cardinality(users') + Cardinality(groups) + Cardinality(memberships) + Cardinality(grants)
    BY <2>2 DEF Held
  <2> QED
    BY <1>2, <2>1, <2>3, HeldNat DEF Held
<1> QED
  BY <1>1, <1>2, <1>3, TakenTyped DEF CenterTyped, TypeOK, Lists

LEMMA TakeGroupsTyped == ASSUME CenterTyped, IInv, Paging, TakeGroups PROVE CenterTyped'
<1>1. /\ stage = "groups" /\ groups' = Listed /\ todo' = Listed /\ stage' \in {"members", "failed"}
      /\ UNCHANGED <<organizations, rows, users, memberships, at, sets, set, grants, complete>>
      /\ Close /\ out \in Seq(Range(out))
  BY DEF TakeGroups, access, Paging
<1>2. IsFiniteSet(groups') /\ Cardinality(groups') \in Nat /\ Cardinality(groups') <= Len(out)
  <2>1. \A x \in Listed : \E i \in 1 .. Len(out) : x = out[i]
    BY <1>1 DEF Listed, Range
  <2>2. Len(out) \in Nat
    BY <1>1
  <2> QED
    BY <1>1, <2>1, <2>2, AtMost
<1>3. Held' <= Held + Len(out) /\ Held' \in Nat
  <2>1. Len(out) \in Nat
    BY <1>1
  <2>2. /\ Cardinality(users') = Cardinality(users) /\ Cardinality(memberships') = Cardinality(memberships)
        /\ Cardinality(grants') = Cardinality(grants)
    BY <1>1
  <2>3. Held' = Cardinality(users) + Cardinality(groups') + Cardinality(memberships) + Cardinality(grants)
    BY <2>2 DEF Held
  <2> QED
    BY <1>2, <2>1, <2>3, HeldNat DEF Held
<1>4. at' = "none"
  BY <1>1 DEF IInv, Walked, Directory
<1> QED
  BY <1>1, <1>2, <1>3, <1>4, TakenTyped DEF CenterTyped, TypeOK, Lists

LEMMA TakeMembersTyped == ASSUME CenterTyped, IInv, Paging, TakeMembers PROVE CenterTyped'
<1> DEFINE known == {i \in DOMAIN out : out[i].user \in users}
           S == {<<out[i].user, at>> : i \in known}
<1>1. /\ stage = "members" /\ memberships' = memberships \cup S
      /\ stage' \in {"members", "failed"} /\ complete' \in BOOLEAN /\ at' = "none"
      /\ UNCHANGED <<organizations, rows, users, groups, todo, sets, set, grants>>
      /\ Close /\ out \in Seq(Range(out))
  BY DEF TakeMembers, access, Paging, CenterTyped, TypeOK
<1>2. /\ IsFiniteSet(memberships') /\ Cardinality(memberships') \in Nat
      /\ Cardinality(memberships') <= Cardinality(memberships) + Len(out)
  <2> DEFINE f == [i \in 1 .. Len(out) |-> <<out[i].user, at>>]
  <2>1. \A x \in S : \E i \in 1 .. Len(out) : x = f[i]
    BY <1>1
  <2>2. Len(out) \in Nat /\ IsFiniteSet(memberships)
    BY <1>1 DEF CenterTyped
  <2> HIDE DEF S, f
  <2> QED
    BY <1>1, <2>1, <2>2, JoinedAtMost
<1> HIDE DEF S
<1>3. Held' <= Held + Len(out) /\ Held' \in Nat
  <2>1. Len(out) \in Nat
    BY <1>1
  <2> QED
    BY <1>1, <1>2, <2>1, HeldNat DEF Held
<1> QED
  BY <1>1, <1>2, <1>3, TakenTyped DEF CenterTyped, TypeOK, Lists

LEMMA TakeAssignmentsTyped == ASSUME CenterTyped, IInv, Paging, TakeAssignments PROVE CenterTyped'
<1> DEFINE known == {i \in DOMAIN out : Resolved(out[i])}
           S == {<<at, sets[set], <<out[i].kind, out[i].id>>>> : i \in known}
<1>1. /\ stage = "assignments" /\ grants' = grants \cup S
      /\ stage' \in {"sets", "failed"} /\ complete' \in BOOLEAN
      /\ UNCHANGED <<organizations, rows, users, groups, memberships, todo, at, sets, set>>
      /\ Close /\ out \in Seq(Range(out))
  BY DEF TakeAssignments, directory, walk, Paging, CenterTyped, TypeOK
<1>2. /\ IsFiniteSet(grants') /\ Cardinality(grants') \in Nat
      /\ Cardinality(grants') <= Cardinality(grants) + Len(out)
  <2> DEFINE f == [i \in 1 .. Len(out) |-> <<at, sets[set], <<out[i].kind, out[i].id>>>>]
  <2>1. \A x \in S : \E i \in 1 .. Len(out) : x = f[i]
    BY <1>1
  <2>2. Len(out) \in Nat /\ IsFiniteSet(grants)
    BY <1>1 DEF CenterTyped
  <2> HIDE DEF S, f
  <2> QED
    BY <1>1, <2>1, <2>2, JoinedAtMost
<1> HIDE DEF S
<1>3. Held' <= Held + Len(out) /\ Held' \in Nat
  <2>1. Len(out) \in Nat
    BY <1>1
  <2> QED
    BY <1>1, <1>2, <2>1, HeldNat DEF Held
<1> QED
  BY <1>1, <1>2, <1>3, TakenTyped DEF CenterTyped, TypeOK, Lists

\* The other steps hold no more than before.
LEMMA TakeElseTyped ==
  ASSUME CenterTyped, IInv, Paging, TakeInstances \/ TakeAccounts \/ TakePermissions
  PROVE  CenterTyped'
<1>1. /\ out' = <<>> /\ tokens' = <<>> /\ read' = FALSE
      /\ UNCHANGED <<organizations, rows, users, groups, memberships, todo, at, set, grants>>
      /\ complete' \in BOOLEAN
      /\ stage' \in Lists \cup {"sets", "failed"}
      /\ (sets' = sets \/ (sets' = out /\ stage = "permissions"))
  BY DEF TakeInstances, TakeAccounts, TakePermissions, Close, directory, walk, access, Lists,
         CenterTyped, TypeOK
<1>2. sets' \in Seq(Range(sets')) /\ set' \in 0 .. Len(sets')
  <2>1. CASE sets' = sets
    BY <1>1, <2>1 DEF CenterTyped, TypeOK
  <2>2. CASE sets' = out /\ stage = "permissions"
    <3>1. set = 0 \/ at # "none"
      BY <2>2 DEF IInv, Walked
    <3>2. set = 0
      BY <2>2 DEF IInv, Walked
    <3>3. out \in Seq(Range(out)) /\ Len(out) \in Nat
      BY DEF Paging
    <3> QED
      BY <1>1, <2>2, <3>2, <3>3
  <2> QED
    BY <1>1, <2>1, <2>2
<1>3. out \in Seq(Range(out))
  BY DEF Paging
<1> QED
  BY <1>1, <1>2, <1>3, StillTyped DEF CenterTyped, TypeOK

LEMMA WalkTyped ==
  ASSUME CenterTyped, IInv, Paging,
         \/ IdentityProved \/ IdentityFails \/ GroupsDone
         \/ \E x \in todo : NextGroup(x) \/ NextAccount(x)
         \/ NextSet \/ SetsDone \/ Described \/ DescribeFails \/ DescribesAnother \/ CollectEnds
         \/ UNCHANGED vars
  PROVE  CenterTyped'
<1>1. /\ UNCHANGED <<organizations, read, out, tokens, rows, users, groups, memberships, grants>>
      /\ complete' \in BOOLEAN
  BY DEF IdentityProved, IdentityFails, Fail, GroupsDone, NextGroup, NextAccount, NextSet, SetsDone,
         Described, DescribeFails, DescribesAnother, CollectEnds, vars, pager, directory, access,
         CenterTyped, TypeOK
<1>2. /\ stage' \in Lists \cup {"caller", "sets", "describe", "done", "failed", "malformed"}
      /\ stage' \in {"instances", "failed"} \/ stage \notin {"instances", "failed"}
  BY DEF IdentityProved, IdentityFails, Fail, GroupsDone, NextGroup, NextAccount, NextSet, SetsDone,
         Described, DescribeFails, DescribesAnother, CollectEnds, vars, Lists, CenterTyped, TypeOK
<1>3. /\ todo' \subseteq groups \cup Configured /\ at' \in {"none"} \cup groups \cup Configured
  BY DEF IdentityProved, IdentityFails, Fail, GroupsDone, NextGroup, NextAccount, NextSet, SetsDone,
         Described, DescribeFails, DescribesAnother, CollectEnds, vars, walk, CenterTyped, TypeOK
<1>4. sets' \in Seq(Range(sets')) /\ set' \in 0 .. Len(sets')
  <2>1. CASE NextSet
    <3>1. set < Len(sets) /\ set' = set + 1 /\ sets' = sets
      BY <2>1 DEF NextSet
    <3>2. Len(sets) \in Nat /\ set \in 0 .. Len(sets)
      BY DEF CenterTyped, TypeOK
    <3> QED
      BY <3>1, <3>2 DEF CenterTyped
  <2>2. CASE SetsDone
    BY <2>2, EmptyIsSeq DEF SetsDone
  <2>3. CASE ~NextSet /\ ~SetsDone
    <3>1. sets' = sets /\ set' = set
      BY <2>3 DEF IdentityProved, IdentityFails, Fail, GroupsDone, NextGroup, NextAccount,
         Described, DescribeFails, DescribesAnother, CollectEnds, vars, walk
    <3> QED
      BY <3>1 DEF CenterTyped, TypeOK
  <2> QED
    BY <2>1, <2>2, <2>3
<1>5. out \in Seq(Range(out))
  BY DEF Paging
<1> QED
  BY <1>1, <1>2, <1>3, <1>4, <1>5, StillTyped DEF pager

LEMMA NextCenterTyped == ASSUME CenterTyped, IInv, Paging, [Next]_vars PROVE CenterTyped'
<1>1. CASE \/ \E values \in IF stage \in Lists THEN Pages[stage] ELSE {} :
                \/ \E token \in Tokens \cup {"none", Bad} : ListPage(values, token)
                \/ ListTooLong(values)
           \/ ListFails
  BY <1>1, ListTyped
<1>2. CASE TakeUsers \/ TakeGroups \/ TakeMembers \/ TakeAssignments
  BY <1>2, TakeUsersTyped, TakeGroupsTyped, TakeMembersTyped, TakeAssignmentsTyped
<1>3. CASE TakeInstances \/ TakeAccounts \/ TakePermissions
  BY <1>3, TakeElseTyped
<1>4. CASE \/ IdentityProved \/ IdentityFails \/ GroupsDone
           \/ \E x \in todo : NextGroup(x) \/ NextAccount(x)
           \/ NextSet \/ SetsDone \/ Described \/ DescribeFails \/ DescribesAnother \/ CollectEnds
           \/ UNCHANGED vars
  BY <1>4, WalkTyped
<1> QED
  BY <1>1, <1>2, <1>3, <1>4 DEF Next

-----------------------------------------------------------------------------
(***************************************************************************)
(* Both binaries.                                                          *)
(***************************************************************************)
\* A run of the provider is a discovery of one binary, and at rest for the other.
THEOREM EachDiscovers == AwsSpec => Spec /\ IamSpec
<1>1. AwsInit => Init /\ IamInit
  BY DEF AwsInit
<1>2. [AwsNext]_<<binary, vars, iamVars>> => [Next]_vars /\ [IamNext]_iamVars
  BY DEF AwsNext, RunsIam, RunsIdentityCenter
<1> QED
  BY <1>1, <1>2, PTL DEF AwsSpec, Spec, IamSpec

\* Whatever pages AWS hands out and however the lists repeat, each binary reads no page
\* and charges no row beyond its limits, and holds no more than it charged for.
THEOREM TypesCorrect == AwsSpec => []TypesOK
<1>1. AwsSpec => Spec /\ IamSpec
  BY EachDiscovers
<1>2. Spec => []TypeOK
  <2>1. CenterTyped => TypeOK
    BY DEF CenterTyped
  <2>2. JInv => Paging
    BY DEF JInv
  <2> QED
    BY <2>1, <2>2, InitInv, NextInv, InitJ, NextJ, InitCenterTyped, NextCenterTyped, PTL DEF Spec
<1>3. IamSpec => []IamTypeOK
  <2>1. IamTyped => IamTypeOK
    BY DEF IamTyped
  <2> QED
    BY <2>1, InitIam, NextIam, InitIamTyped, NextIamTyped, PTL DEF IamSpec
<1>4. TypeOK /\ IamTypeOK => TypesOK
  BY DEF TypesOK
<1> QED
  BY <1>1, <1>2, <1>3, <1>4, PTL

=============================================================================
