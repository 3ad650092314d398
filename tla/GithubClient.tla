---------------------------- MODULE GithubClient ----------------------------
(***************************************************************************)
(* The requests of one GitHub discovery: get_media with its retries, list  *)
(* with its pages, retry_delay and next_page, under the budget all lists   *)
(* of the discovery share and the deadline of the session that runs it.    *)
(*                                                                         *)
(* Time is in seconds.  The jitter of a retry (at most 250 ms) is left     *)
(* out: it only ever makes a wait longer.                                  *)
(***************************************************************************)
EXTENDS Naturals, Sequences, SequencesExt

CONSTANTS
  NLists,       \* lists the discovery asks for, one after the other
  PageSize,     \* per_page=100
  MaxPages,     \* MAX_PAGES
  MaxRows,      \* MAX_ROWS
  MaxRequests,  \* MAX_REQUESTS
  Durations,    \* how long a request may take, up to request_timeout
  Headers,      \* the rate-limit headers a refusal may carry
  Deadline      \* 55, of tokio::time::timeout in session()

\* Retry-After and X-RateLimit-Remaining/Reset: absent, unreadable, or a wait.
Header == [is : {"absent", "unreadable", "wait"}, seconds : Nat]

ASSUME GithubClientAssumption ==
  /\ NLists \in Nat /\ PageSize \in Nat \ {0} /\ MaxPages \in Nat \ {0}
  /\ MaxRows \in Nat /\ MaxRequests \in Nat
  /\ Durations \subseteq Nat
  /\ Headers \subseteq [retryAfter : Header, reset : Header]
  /\ Deadline \in Nat

VARIABLES
  stage,     \* "ask", "asked", "sleeping", "done", or "dropped" at the deadline
  page,      \* in list
  attempt,   \* in get_media
  requests,  \* Budget.requests
  rows,      \* Budget.rows
  items,     \* List.items: <<page, index>>
  success,   \* List.success
  results,   \* the lists returned
  clock,     \* seconds since the session's deadline was set
  wake,      \* when the sleep before a retry ends
  served     \* history: the pages of this list, as the server sent them

vars == <<stage, page, attempt, requests, rows, items, success, results, clock,
          wake, served>>

MaxAttempt == 2      \* attempt in 0..=2

MaxDelay == 60

Refusals == {"transport", "timeout", "limit", "malformed", "unauthorized",
             "forbidden", "not_found", "http"}

Errors == Refusals \cup {"none", "rate_limit", "unavailable", "pagination"}

Links == {"absent", "next", "last", "invalid"}

Init ==
  /\ stage = IF NLists = 0 THEN "done" ELSE "ask"
  /\ page = 1 /\ attempt = 0
  /\ requests = 0 /\ rows = 0
  /\ items = <<>> /\ success = FALSE /\ results = <<>>
  /\ clock = 0 /\ wake = 0
  /\ served = <<>>

-----------------------------------------------------------------------------
\* list returns; the caller goes on with the next list of its plan.
Return(error, kept, ok, shown) ==
  /\ results' = Append(results, [items |-> kept, error |-> error,
                                 success |-> ok, served |-> shown])
  /\ served' = <<>>
  /\ stage' = IF Len(results') = NLists THEN "done" ELSE "ask"
  /\ items' = <<>> /\ success' = FALSE
  /\ page' = 1 /\ attempt' = 0

\* A list whose next request the budget does not allow.
OutOfRequests ==
  /\ stage = "ask" /\ requests >= MaxRequests
  /\ Return("limit", items, success, served)
  /\ UNCHANGED <<requests, rows, clock, wake>>

Ask ==
  /\ stage = "ask" /\ requests < MaxRequests
  /\ requests' = requests + 1
  /\ stage' = "asked"
  /\ UNCHANGED <<page, attempt, rows, items, success, results, clock, wake,
                 served>>

\* What is pending when the deadline passes is dropped, with all it has found.
Late(t) == t >= Deadline

Dropped(t) ==
  /\ Late(t)
  /\ stage' = "dropped" /\ clock' = Deadline
  /\ UNCHANGED <<page, attempt, requests, rows, items, success, results, wake,
                 served>>

Takes(d) == ~Late(clock + d) /\ clock' = clock + d

\* An answer get_media neither returns nor retries.
Refused(code, d) ==
  /\ stage = "asked" /\ Takes(d)
  /\ Return(code, items, success, served)
  /\ UNCHANGED <<requests, rows, wake>>

\* The wait retry_delay asks for, or 61 where it gives up.
Delay(h, limited) ==
  LET Longer(a, b) == IF a > b THEN a ELSE b
      default == IF limited THEN 60 ELSE 2 ^ attempt
      first   == IF h.retryAfter.is = "wait" THEN h.retryAfter.seconds ELSE default
      delay   == IF h.reset.is = "wait" THEN Longer(first, h.reset.seconds) ELSE first
  IN IF "unreadable" \in {h.retryAfter.is, h.reset.is} \/ delay > MaxDelay
     THEN MaxDelay + 1 ELSE delay

\* Mutant of Retries: one attempt too many.
RetriesOnceMore == attempt <= MaxAttempt

Retries == attempt < MaxAttempt

\* A 403 or 429 that means a rate limit, or a 5xx.
Limited(limited, h, d) ==
  /\ stage = "asked" /\ Takes(d)
  /\ \/ /\ Retries /\ Delay(h, limited) <= MaxDelay
        /\ stage' = "sleeping"
        /\ wake' = clock' + Delay(h, limited)
        /\ UNCHANGED <<page, attempt, items, success, results, served>>
     \/ /\ Retries /\ Delay(h, limited) > MaxDelay
        /\ Return("rate_limit", items, success, served)
        /\ UNCHANGED wake
     \/ /\ ~Retries
        /\ Return(IF limited THEN "rate_limit" ELSE "unavailable", items, success, served)
        /\ UNCHANGED wake
  /\ UNCHANGED <<requests, rows>>

\* The retry asks for the same page again.
Wake ==
  /\ stage = "sleeping" /\ ~Late(wake)
  /\ clock' = wake
  /\ attempt' = attempt + 1
  /\ stage' = "ask"
  /\ UNCHANGED <<page, requests, rows, items, success, results, wake, served>>

-----------------------------------------------------------------------------
Rows(n) == [i \in 1 .. n |-> <<page, i>>]

\* next_page: without a Link header a full page promises another.
More(length, link) == IF link = "absent" THEN length = PageSize ELSE link = "next"

\* Mutant of Room: the rows of earlier lists are forgotten.
RoomOfList == MaxRows - Len(items)

Room == MaxRows - rows

\* Mutant of PageEnds: the last page allowed is taken for the last there is.
PageEndsQuietly(kept, length, link) ==
  IF kept < length THEN "limit"
  ELSE IF link = "invalid" THEN "pagination"
  ELSE IF ~More(length, link) THEN "none"
  ELSE IF page = MaxPages THEN "none"
  ELSE "more"

\* How list leaves a page whose rows it has taken.
PageEnds(kept, length, link) ==
  IF kept < length THEN "limit"
  ELSE IF link = "invalid" THEN "pagination"
  ELSE IF ~More(length, link) THEN "none"
  ELSE IF page = MaxPages THEN "limit"
  ELSE "more"

Kept(length) == IF length <= Room THEN length ELSE Room

Page(length, link, d) ==
  /\ stage = "asked" /\ Takes(d)
  /\ LET kept == IF length > PageSize THEN 0 ELSE Kept(length)
         now  == items \o Rows(kept)
         shown == Append(served, [length |-> length, more |-> More(length, link)])
         end  == IF length > PageSize THEN "limit" ELSE PageEnds(kept, length, link)
     IN
       /\ rows' = rows + kept
       /\ \/ /\ end = "more"
             /\ items' = now /\ success' = TRUE
             /\ page' = page + 1 /\ attempt' = 0
             /\ stage' = "ask"
             /\ served' = shown
             /\ UNCHANGED results
          \/ end # "more" /\ Return(end, now, TRUE, shown)
  /\ UNCHANGED <<requests, wake>>

-----------------------------------------------------------------------------
DeadlinePasses ==
  \/ stage = "asked" /\ \E d \in Durations : Dropped(clock + d)
  \/ stage = "sleeping" /\ Dropped(wake)

Answer(d) ==
  \/ \E code \in Refusals : Refused(code, d)
  \/ \E limited \in BOOLEAN, h \in Headers : Limited(limited, h, d)
  \/ \E length \in 0 .. PageSize + 1, link \in Links : Page(length, link, d)

Next ==
  \/ OutOfRequests \/ Ask \/ Wake \/ DeadlinePasses
  \/ \E d \in Durations : Answer(d)

\* Requests and sleeps have timers: some step is always taken.
Spec == Init /\ [][Next]_vars /\ WF_vars(Next)

-----------------------------------------------------------------------------
(***************************************************************************)
(* Properties.                                                             *)
(***************************************************************************)
Served == Seq([length : 0 .. PageSize + 1, more : BOOLEAN])

Rowset == Seq((1 .. MaxPages) \X (1 .. PageSize))

TypeOK ==
  /\ stage \in {"ask", "asked", "sleeping", "done", "dropped"}
  /\ page \in 1 .. MaxPages
  /\ attempt \in 0 .. MaxAttempt
  /\ requests \in 0 .. MaxRequests
  /\ rows \in 0 .. MaxRows
  /\ items \in Rowset /\ success \in BOOLEAN
  /\ results \in Seq([items : Rowset, error : Errors, success : BOOLEAN,
                      served : Served])
  /\ clock \in 0 .. Deadline /\ wake \in 0 .. Deadline + MaxDelay
  /\ served \in Served

\* Every row of the pages shown, in order.
AllOf(shown) ==
  FlattenSeq([p \in DOMAIN shown |-> [i \in 1 .. shown[p].length |-> <<p, i>>]])

\* Whatever fails, is retried or runs out of budget in between, a list holds the
\* rows of its pages in order and without a gap or a repetition.  Only a list
\* without an error claims to hold them all, and then the server has said that
\* there are no more (list, client.rs 148-205).
ListsAreFaithful ==
  \A i \in DOMAIN results :
    LET r == results[i]
        last == Len(r.served)
    IN /\ IsPrefix(r.items, AllOf(r.served))
       /\ r.success = (r.served # <<>>)
       /\ \A p \in 1 .. last - 1 : r.served[p].more
       /\ r.error = "none" =>
            r.items = AllOf(r.served) /\ last > 0 /\ ~r.served[last].more
       /\ r.error \in Refusals \ {"limit"} => r.items = AllOf(r.served)

\* The lists of a discovery share one budget of rows, and every row charged to
\* it is kept: a full budget is full of records (client.rs 183-190).  "Two retries at
\* most for rate-limit 403/429 and 5xx GET responses" (docs/github.md 58): a page
\* costs at most three of the shared requests.
BudgetsAreKept ==
  LET pages == Len(served) + 1
                 + Len(FlattenSeq([i \in DOMAIN results |-> results[i].served]))
  IN
    /\ rows = Len(items) + Len(FlattenSeq([i \in DOMAIN results |-> results[i].items]))
    /\ requests <= (MaxAttempt + 1) * (pages + Len(results))

\* "Failed endpoints, malformed or conflicting records, invalid pagination, and
\* exhausted budgets preserve useful observations" (docs/github.md 35): a
\* discovery that has collected something returns it.  It does not when an
\* endpoint is rate-limited: the wait is 60 seconds where the response names
\* none, and the session gives the whole operation 55 (lib.rs 225), so the retry
\* is never made and what was collected is dropped with it.
PreservesObservations ==
  stage = "dropped" => \A i \in DOMAIN results : ~results[i].success

=============================================================================
