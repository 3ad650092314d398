------------------------------- MODULE Google -------------------------------
(***************************************************************************)
(* One Google Directory discovery: the factory with its token exchange,    *)
(* page with its retries, and collect, which walks the page tokens that    *)
(* the server hands out and keeps one record per user id.                  *)
(***************************************************************************)
EXTENDS Naturals, Sequences

CONSTANTS
  Ids,          \* user ids
  UserPages,    \* what `users' of a page may hold
  Tokens,       \* acceptable page tokens
  PageSize,     \* PAGE_SIZE
  MaxPages,     \* MAX_PAGES
  MaxRows       \* MAX_ROWS

\* What is no string, or no acceptable page token.
Bad == "bad"

\* The whole of record(): "good", "flags" (a status flag that is no boolean) or
\* "refused" (customer, id, email, or a reflection of the token).
User == [id : Ids \cup {Bad}, record : {"good", "flags", "refused"}]

ASSUME GoogleAssumption ==
  /\ UserPages \subseteq Seq(User)
  /\ \A users \in UserPages : \A i \in DOMAIN users :
       users[i].id = Bad => users[i].record = "refused"
  /\ PageSize \in Nat \ {0} /\ MaxPages \in Nat \ {0} /\ MaxRows \in Nat

VARIABLES
  stage,     \* "factory", "request", or how the discovery ended
  page,      \* in collect
  attempt,   \* in GoogleProvider::page
  token,     \* of the next page, "none" for the first
  tokens,    \* the tokens accepted so far
  ids,       \* the ids of all users so far
  records,   \* the users kept, by id
  rows,      \* in collect
  complete,  \* snapshot.complete
  shown,     \* history: the pages, as sent
  examined   \* history: the users looked at, in order

walk == <<page, attempt, token, tokens>>
found == <<ids, records, rows, complete, shown, examined>>
vars == <<stage, walk, found>>

Init ==
  /\ stage = "factory"
  /\ page = 0 /\ attempt = 0 /\ token = "none" /\ tokens = {}
  /\ ids = {} /\ records = [id \in {} |-> Bad] /\ rows = 0
  /\ complete = TRUE /\ shown = <<>> /\ examined = <<>>

-----------------------------------------------------------------------------
\* run's factory: a token as supplied or from one exchange without retries, and the
\* provider's constructor, which may refuse either.
Factory ==
  /\ stage = "factory"
  /\ stage' \in {"request", "failed"}
  /\ UNCHANGED <<walk, found>>

\* A quota or a 5xx, and a delay of at most five seconds.
Retry ==
  /\ stage = "request" /\ attempt < 2
  /\ attempt' = attempt + 1
  /\ UNCHANGED <<stage, page, token, tokens, found>>

\* The snapshot goes to the SDK's validator, which may refuse it for reasons of its
\* own: that is "malformed", whatever was read.
Finish == stage' \in {"done", "malformed"}

\* page fails, or `users' is not what it should be.
PageFails ==
  /\ stage = "request"
  /\ IF page = 0 THEN stage' = "failed" /\ UNCHANGED complete
     ELSE Finish /\ complete' = FALSE
  /\ UNCHANGED <<walk, ids, records, rows, shown, examined>>

\* Mutant of Known: only users that were kept count.
KnownRecord(known, kept, id) == id \in DOMAIN kept

Known(known, kept, id) == id \in known

\* Mutant of Doubtful: a record with unreadable flags is as good as any.
DoubtfulRefused(user) == user.record = "refused"

Doubtful(user) == user.record # "good"

\* One turn of the loop over the users of a page: from the state before it, the
\* state after it.
Turn(at, user) ==
  LET others == {id \in DOMAIN at.records : id # user.id}
  IN IF user.id # Bad /\ Known(at.ids, at.records, user.id)
     THEN [ids |-> at.ids, complete |-> FALSE,
           records |-> [id \in others |-> at.records[id]]]
     ELSE [ids      |-> at.ids \cup ({user.id} \ {Bad}),
           complete |-> at.complete /\ ~Doubtful(user),
           records  |-> IF user.record = "refused" THEN at.records
                        ELSE [id \in others \cup {user.id} |->
                                IF id = user.id THEN user.record ELSE at.records[id]]]

Walked(users) ==
  LET after[n \in 0 .. Len(users)] ==
        IF n = 0 THEN [ids |-> ids, records |-> records, complete |-> complete]
        ELSE Turn(after[n - 1], users[n])
  IN after[Len(users)]

Remaining == IF MaxRows > rows THEN MaxRows - rows ELSE 0

\* take(PAGE_SIZE.min(remaining))
Looked(users) ==
  SubSeq(users, 1, CHOOSE n \in 0 .. Len(users) :
                     /\ n <= PageSize /\ n <= Remaining
                     /\ n = Len(users) \/ n = PageSize \/ n = Remaining)

\* Mutant of Acceptable: a token may come back.
AcceptableAgain(next) == next # Bad

Acceptable(next) == next # Bad /\ next \notin tokens

\* Mutant of LastAllowed: pages are not counted.
LastAllowedRows(count) == rows + count >= MaxRows

LastAllowed(count) == page + 1 = MaxPages \/ rows + count >= MaxRows

\* Mutant of PageEnds: a limit that is reached cuts the last page too.
PageEndsAtLimit(users, next) ==
  IF Len(users) > PageSize \/ LastAllowed(Len(users)) THEN "cut"
  ELSE IF next = "none" THEN "whole"
  ELSE IF ~Acceptable(next) THEN "cut" ELSE "more"

\* How collect leaves a page: "whole", "cut" or "more".
PageEnds(users, next) ==
  IF Len(users) > PageSize \/ rows + Len(users) > MaxRows THEN "cut"
  ELSE IF next = "none" THEN "whole"
  ELSE IF ~Acceptable(next) THEN "cut"
  ELSE IF LastAllowed(Len(users)) THEN "cut"
  ELSE "more"

Page(users, next) ==
  /\ stage = "request"
  /\ LET walked == Walked(Looked(users))
         end == PageEnds(users, next)
     IN
       /\ ids' = walked.ids /\ records' = walked.records
       /\ rows' = rows + Len(users)
       /\ complete' = (walked.complete /\ end # "cut")
       /\ examined' = examined \o Looked(users)
       /\ shown' = Append(shown, [token |-> token, users |-> users, next |-> next])
       /\ IF end = "more"
          THEN /\ page' = page + 1 /\ attempt' = 0
               /\ token' = next /\ tokens' = tokens \cup {next}
               /\ UNCHANGED stage
          ELSE Finish /\ UNCHANGED walk

Next ==
  \/ Factory \/ Retry \/ PageFails
  \/ \E users \in UserPages, next \in Tokens \cup {"none", Bad} : Page(users, next)

Spec == Init /\ [][Next]_vars

-----------------------------------------------------------------------------
(***************************************************************************)
(* Properties.                                                             *)
(***************************************************************************)
TypeOK ==
  /\ stage \in {"factory", "request", "done", "failed", "malformed"}
  /\ page \in 0 .. MaxPages - 1 /\ attempt \in 0 .. 2
  /\ token \in Tokens \cup {"none"} /\ tokens \subseteq Tokens
  /\ ids \subseteq Ids
  /\ DOMAIN records \subseteq ids
  /\ \A id \in DOMAIN records : records[id] \in {"good", "flags"}
  /\ rows <= MaxRows \/ stage \in {"done", "malformed"}
  /\ complete \in BOOLEAN

Occurrences(id) == {i \in DOMAIN examined : examined[i].id = id}

\* Whichever pages follow and however the walk ends, the snapshot has exactly
\* the users with an acceptable record and an id that no other user of any page
\* has, refused ones included: "A repeated native ID invalidates the earlier claim
\* even if this record is malformed" (lib.rs 168).
RecordsAreExact ==
  \A id \in Ids :
    LET at == Occurrences(id) IN
      IF \E i \in at : at = {i} /\ examined[i].record # "refused"
      THEN id \in DOMAIN records /\ \A i \in at : records[id] = examined[i].record
      ELSE id \notin DOMAIN records

\* A complete snapshot has every user of every page, in good form, up to the page
\* that named no further one (collect, lib.rs 166-215).
CompleteIsWhole ==
  stage = "done" /\ complete =>
    /\ shown[Len(shown)].next = "none"
    /\ \A p \in DOMAIN shown : \A i \in DOMAIN shown[p].users :
         LET user == shown[p].users[i] IN
           user.id \in DOMAIN records /\ records[user.id] = "good"

\* A page is asked for by the token that the page before it named, and none is
\* asked for twice, however the server repeats itself.
NoPageTwice ==
  \A p, q \in DOMAIN shown :
    /\ p > 1 => shown[p].token = shown[p - 1].next
    /\ shown[p].token = shown[q].token => p = q

\* And a walk that met nothing wrong is not called incomplete: users in good form,
\* each once, within the limits of a page and of all rows, up to a page that names no
\* further one, which may be the last page allowed or hold the last row (collect,
\* lib.rs 192-214).
WholeIsComplete ==
  /\ stage = "done"
  /\ shown # <<>> /\ shown[Len(shown)].next = "none"
  /\ rows <= MaxRows /\ \A p \in DOMAIN shown : Len(shown[p].users) <= PageSize
  /\ \A i, j \in DOMAIN examined :
       examined[i].record = "good" /\ (examined[i].id = examined[j].id => i = j)
  => complete

=============================================================================
