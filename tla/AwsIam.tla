------------------------------- MODULE AwsIam -------------------------------
(***************************************************************************)
(* One discovery of the IAM binary of the AWS provider: the caller is      *)
(* proved, GetAccountAuthorizationDetails is read page by page along its   *)
(* markers, and only when there are no more pages are users, roles, groups *)
(* and policies resolved against one another (Collected::finish).          *)
(*                                                                         *)
(* A call stands for all attempts the SDK makes at it; one that the        *)
(* transport does not let through, because its attempts are used up or the *)
(* answer does not say whether it is truncated, fails like any other.      *)
(***************************************************************************)
EXTENDS Naturals, Sequences, FiniteSets

CONSTANTS
  Outputs,      \* the rows a page may hold, as sequences
  Markers,      \* markers that are accepted
  MaxIamPages,  \* MAX_PAGES
  MaxIamRows    \* MAX_ROWS, of source rows and of graph records

Unfit == "bad"

Kinds == {"user", "role", "group", "policy"}

\* A row as far as it is told apart.  name: a group's name, a policy's ARN.  usable:
\* id, name and ARN fit the kind and the account.  attached: ARNs of managed policies,
\* each with whether the name beside it is the policy's.
Row ==
  [kind : Kinds, id : STRING, name : STRING, usable : BOOLEAN, groups : SUBSET STRING,
   attached : SUBSET (STRING \X BOOLEAN), inline : Seq(STRING)]

\* What a page may hold: only a user is in groups, and nothing is attached to a policy.
ASSUME AwsIamAssumption ==
  /\ Outputs \subseteq Seq(Row)
  /\ \A output \in Outputs : \A i \in DOMAIN output :
       /\ IsFiniteSet(output[i].attached) /\ IsFiniteSet(output[i].groups)
       /\ output[i].kind = "policy" => output[i].attached = {} /\ output[i].inline = <<>>
       /\ output[i].kind # "user" => output[i].groups = {}
  /\ {"first", "none", Unfit} \cap Markers = {}
  /\ MaxIamPages \in Nat \ {0} /\ MaxIamRows \in Nat

VARIABLES
  phase,      \* "caller", "pages", "finish", or how the discovery ended
  marker,     \* the page asked for, "first" to begin with
  markers,    \* markers
  collected,  \* the rows of Collected
  count,      \* and how many there are, repetitions included
  warned,     \* there are warnings
  inventory,  \* the snapshot
  told        \* history: the pages

iamVars == <<phase, marker, markers, collected, count, warned, inventory, told>>

Nothing == [complete |-> FALSE]

IamInit ==
  /\ phase = "caller"
  /\ marker = "first" /\ markers = {}
  /\ collected = {} /\ count = 0 /\ warned = FALSE
  /\ inventory = Nothing
  /\ told = <<>>

CallerProved ==
  /\ phase = "caller"
  /\ phase' = "pages"
  /\ UNCHANGED <<marker, markers, collected, count, warned, inventory, told>>

\* GetCallerIdentity fails, or names another account or another role.
CallerFails ==
  /\ phase = "caller"
  /\ phase' = "failed"
  /\ UNCHANGED <<marker, markers, collected, count, warned, inventory, told>>

-----------------------------------------------------------------------------
(***************************************************************************)
(* The pages.                                                              *)
(***************************************************************************)
\* Mutant of PageEnds: a marker that is not followed ends the list.
PageEndsQuietly(truncated, next) ==
  IF ~truncated \/ next \notin Markers \ markers THEN "whole"
  ELSE IF Len(told) + 1 = MaxIamPages THEN "cut" ELSE "more"

\* A page that ends the list must not hand out a marker, one that does not must hand
\* out a new one.
PageEnds(truncated, next) ==
  IF ~truncated /\ next = "none" THEN "whole"
  ELSE IF ~truncated \/ next \notin Markers \ markers \/ Len(told) + 1 = MaxIamPages THEN "cut"
  ELSE "more"

Room(output) == count + Len(output) <= MaxIamRows

Page(output, truncated, next) ==
  /\ phase = "pages" /\ Room(output)
  /\ LET end == PageEnds(truncated, next) IN
       /\ phase' = IF end = "more" THEN "pages" ELSE "finish"
       /\ marker' = IF end = "more" THEN next ELSE marker
       /\ markers' = IF truncated /\ next \in Markers THEN markers \cup {next} ELSE markers
       /\ warned' = (warned \/ end = "cut")
  /\ collected' = collected \cup {output[i] : i \in DOMAIN output}
  /\ count' = count + Len(output)
  /\ told' = Append(told, [asked |-> marker, truncated |-> truncated, next |-> next,
                           rows |-> {output[i] : i \in DOMAIN output}])
  /\ UNCHANGED inventory

\* Too many rows end the discovery, whatever was collected.
TooMany(output) ==
  /\ phase = "pages" /\ ~Room(output)
  /\ phase' = "failed"
  /\ UNCHANGED <<marker, markers, collected, count, warned, inventory, told>>

\* The first page must be read; a later one only shortens the inventory.
PageFails ==
  /\ phase = "pages"
  /\ phase' = IF told = <<>> THEN "failed" ELSE "finish"
  /\ warned' = (told # <<>>)
  /\ UNCHANGED <<marker, markers, collected, count, inventory, told>>

-----------------------------------------------------------------------------
(***************************************************************************)
(* Collected::finish.                                                      *)
(***************************************************************************)
OfKind(kind) == {r \in collected : r.kind = kind}

\* Rows that say the same once more are one; rows that differ take each other out.
Unique(kind) ==
  {r \in OfKind(kind) : r.id # Unfit /\ \A s \in OfKind(kind) : s.id = r.id => s = r}

Usable(kind) == {r \in Unique(kind) : r.usable}

\* Mutant of Named: of two groups of a name, or policies of an ARN, both stay.
NamedAny(kind) == Usable(kind)

\* Groups are found by name and policies by ARN: two of them are not told apart.
Named(kind) == {r \in Usable(kind) : \A s \in Usable(kind) : s.name = r.name => s = r}

Principals == Named("group") \cup Usable("user") \cup Usable("role")

Managed(r) == {p \in Named("policy") : <<p.name, TRUE>> \in r.attached}

InlineOf(r) == {r.inline[i] : i \in DOMAIN r.inline} \ {Unfit}

Subject(r) == <<r.kind, r.id>>

Attachments ==
  UNION {{<<Subject(r), "managed", p.id>> : p \in Managed(r)}
           \cup {<<Subject(r), "inline", n>> : n \in InlineOf(r)} : r \in Principals}

Memberships ==
  UNION {{<<u.id, g.id>> : g \in {x \in Named("group") : x.name \in u.groups}}
           : u \in Usable("user")}

\* No row, no name and no attachment was left out.
AllResolved ==
  /\ \A kind \in Kinds :
       OfKind(kind) = IF kind \in {"group", "policy"} THEN Named(kind) ELSE Usable(kind)
  /\ \A r \in Principals :
       /\ r.attached \subseteq {<<p.name, TRUE>> : p \in Named("policy")}
       /\ Len(r.inline) = Cardinality(InlineOf(r))
  /\ \A u \in Usable("user") : u.groups \subseteq {g.name : g \in Named("group")}

Inventory ==
  [ complete    |-> AllResolved /\ ~warned,
    accounts    |-> {Subject(r) : r \in Usable("user") \cup Usable("role")},
    groups      |-> {g.id : g \in Named("group")},
    policies    |-> {p.id : p \in Named("policy")},
    memberships |-> Memberships,
    grants      |-> Attachments ]

\* Every inline policy is a resource of its own.
Records(s) ==
  Cardinality(s.accounts) + Cardinality(s.groups) + Cardinality(s.policies)
    + Cardinality({g \in s.grants : g[2] = "inline"})
    + Cardinality(s.memberships) + Cardinality(s.grants)

\* Snapshot::validate (the SDK's): every reference has its record.
References(s) ==
  /\ \A m \in s.memberships : <<"user", m[1]>> \in s.accounts /\ m[2] \in s.groups
  /\ \A g \in s.grants :
       /\ g[1] \in s.accounts \cup {<<"group", id>> : id \in s.groups}
       /\ g[2] = "managed" => g[3] \in s.policies

\* Attachments are counted with what is there; the counts are not looked at without.
Finish ==
  /\ phase = "finish"
  /\ phase' = IF Principals # {} /\ Records(Inventory) > MaxIamRows THEN "failed"
              ELSE IF References(Inventory) THEN "done" ELSE "malformed"
  /\ inventory' = IF phase' = "done" THEN Inventory ELSE inventory
  /\ UNCHANGED <<marker, markers, collected, count, warned, told>>

IamNext ==
  \/ CallerProved \/ CallerFails \/ PageFails \/ Finish
  \/ \E output \in Outputs :
       \/ \E truncated \in BOOLEAN, next \in Markers \cup {"none", Unfit} :
            Page(output, truncated, next)
       \/ TooMany(output)

IamSpec == IamInit /\ [][IamNext]_iamVars

-----------------------------------------------------------------------------
(***************************************************************************)
(* Properties.                                                             *)
(***************************************************************************)
IamTypeOK ==
  /\ phase \in {"caller", "pages", "finish", "done", "failed", "malformed"}
  /\ marker \in Markers \cup {"first"} /\ markers \subseteq Markers
  /\ Cardinality(collected) <= count /\ count \in 0 .. MaxIamRows
  /\ warned \in BOOLEAN
  /\ Len(told) <= MaxIamPages

Told == UNION {told[p].rows : p \in DOMAIN told}

\* What one row says of an entity and no other row denies, on whichever page.
Undisputed(r) ==
  /\ r.id # Unfit /\ r.usable
  /\ \A s \in Told : s.kind = r.kind /\ s.id = r.id => s = r

\* And no other entity goes by its name.
Unshared(r) ==
  Undisputed(r) /\ \A s \in Told : s.kind = r.kind /\ s.name = r.name /\ Undisputed(s) => s = r

\* "Missing/repeated markers, contradictory terminal markers, conflicting IDs [...]
\* and unresolved references produce partial results" (docs/aws.md 84): no record,
\* grant or membership of the inventory, partial or not, is disputed by a row of
\* another page, nor does the name of a group or a policy in it stand for two; its
\* references are no reason for the SDK to refuse it; and one that calls itself
\* complete was read along new markers to a page that ends the list, with all its
\* rows, memberships and attachments.
InventoryIsSound ==
  /\ phase # "malformed"
  /\ phase = "done" =>
    /\ inventory.accounts \subseteq {Subject(r) : r \in {x \in Told : Undisputed(x)}}
    /\ \A id \in inventory.groups :
         \E r \in Told : r.kind = "group" /\ r.id = id /\ Unshared(r)
    /\ \A id \in inventory.policies :
         \E r \in Told : r.kind = "policy" /\ r.id = id /\ Unshared(r)
    /\ \A g \in inventory.grants :
         \E r \in Told : /\ Subject(r) = g[1] /\ Undisputed(r)
                         /\ g[2] = "managed" =>
                              \E a \in r.attached :
                                {p.id : p \in {x \in Told : x.kind = "policy" /\ Undisputed(x)
                                                              /\ x.name = a[1]}} = {g[3]}
    /\ \A m \in inventory.memberships :
         \E u \in Told : /\ Subject(u) = <<"user", m[1]>> /\ Undisputed(u)
                         /\ \E n \in u.groups :
                              {g.id : g \in {x \in Told : x.kind = "group" /\ Undisputed(x)
                                                            /\ x.name = n}} = {m[2]}
    /\ inventory.complete =>
         /\ \A p, q \in DOMAIN told :
              /\ told[p].truncated = (p < Len(told))
              /\ told[p].asked = told[q].asked => p = q
              /\ p < Len(told) => told[p + 1].asked = told[p].next
         /\ told[Len(told)].next = "none"
         /\ \A r \in Told :
              /\ CASE r.kind \in {"user", "role"} -> Subject(r) \in inventory.accounts
                   [] r.kind = "group"            -> r.id \in inventory.groups
                   [] r.kind = "policy"           -> r.id \in inventory.policies
              /\ Cardinality({g \in inventory.grants : g[1] = Subject(r)})
                   = Cardinality(r.attached) + Len(r.inline)
              /\ Cardinality({m \in inventory.memberships : <<"user", m[1]>> = Subject(r)})
                   = Cardinality(r.groups)

=============================================================================
