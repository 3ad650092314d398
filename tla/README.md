# A TLA+ development of permesh-providers

permesh-providers is a set of executables, one per identity system (GitHub,
GitLab, Cloudflare, Google Directory, Microsoft Entra, AWS IAM and AWS Identity
Center), that a host starts, asks one question over stdin and reads one answer
from over stdout. All of them are built on `crates/native-runtime`, which runs
the exchange; each `providers/<name>` crate reads its service over HTTP and
turns what it finds into a snapshot of accounts, groups, resources, memberships
and grants.

This directory holds TLA+ modules of that system, the TLC configurations that
check them, and proofs for TLAPS. Paths below are relative to `src/`.

## 1. The system

### The runtime (`crates/native-runtime/src`)

* **Session** (`lib.rs`, `response.rs`). One task. `serve_internal` calls
  `session`: read a handshake, reply, read a command, then describe or run the
  operation (`check` or `discover`) by calling the provider's factory with the
  credentials. `response::operation` sends one frame per record and a
  `complete` with their number. The operation is raced with the input, which is
  the host's way to cancel, under a deadline of 55 seconds. An error or a
  cancellation is reported as a last frame. State: the input and output halves,
  the accepted handshake, the operation's future.
  *Hard:* a send that is dropped half way by a timeout or by the input, a
  report over a channel that is broken, a provider that hangs. *Correct when*
  the output is always an exchange that the host can decode, credentials are
  used at most once and only for what was negotiated, exit code 0 means that
  the answer has arrived, a failure is told if it can be, and the process ends.
* **Input** (`io.rs` 8–58) cuts stdin into lines through a buffer of 8192 bytes
  under a limit per frame and one per session. *Correct when* the frames are
  the lines of the stream however it is delivered, and nothing is refused
  without a reason.
* **Output** (`io.rs` 59–127) encodes a frame, charges it to a frame limit and
  to a session budget, writes and flushes it within five seconds.
* **Request parser** (`request.rs`): one frame to one of six commands under
  three contracts, or a refusal. *Correct when* it accepts exactly the shapes
  of `docs`' table: fields of one contract are refused in another.
* **Network context** (`network.rs`) validates a proxy and trust context and
  builds an HTTP client from it. **Record conversion** (`records.rs`) maps SDK
  types to wire types.

### The providers (`providers/*/src`)

Each has a client (requests, pages, retries, budgets), a collection (which
observations agree, which are excluded) and an adapter (configuration,
messages). They share a shape: no retained state, sequential requests, a
service that changes while it is read, and a `complete` flag that must be false
when anything is missing.

* **GitHub**: `client.rs` retries rate limits and 5xx within a budget of
  requests and rows; `discovery.rs` walks organizations, members, admins,
  repositories, teams, team members, team repositories and collaborators;
  `records.rs` keeps or blocks records. *Hard:* contradictions found after
  claims were recorded; a list cut in the middle. *Correct when* `complete`
  loses nothing, no record is contradicted by anything that was read, and the
  result is always well formed.
* **GitLab**: listings whose repeated ids clear them, scopes checked again
  between requests, members read directly and effectively.
* **Cloudflare**: numbered pages whose optional totals must agree with each
  other and with the rows; a policy that cannot be stated as a grant takes away
  everything its subject has, and a group with such a policy takes it from its
  members, whose memberships in groups walked earlier are already recorded.
  *Correct when* exactly those accounts lose their access, whichever group comes
  first.
* **Google**: a token exchange (`auth.rs`), then one listing by page tokens;
  repeated ids are removed, the first page decides between failure and a
  partial result.
* **Entra**: server-chosen next links that must not loop, members resolved
  against earlier listings.
* **AWS IAM** reads one report page by page along markers and resolves users,
  roles, groups and policies against one another only at the end. **Identity
  Center** lists users, groups, members, accounts, permission sets and
  assignments with one pager. *Hard:* a listing that ends early, against which
  others are resolved. *Correct when* what is resolved was itself listed and not
  disputed.

The **executables** (`main.rs`) hand stdin and stdout to `serve_with_network`.
The **scripts** and the **catalog** package and describe releases.

### Interaction

The host and a provider process share two pipes and an exit code and nothing
else. The runtime calls the adapter (descriptions, error codes), the factory
(credentials to a provider object) and the provider (`check`, `discover`), all
in its one task; a provider's future is dropped where it stands at the deadline
or on a cancellation. A provider calls its client; the client's outcome decides
what the collection may claim.

## 2. Modules

| module | models | extends / instances |
| --- | --- | --- |
| `Request` | `request.rs`: `parse` as an operator `Parse`, and one frame being parsed | |
| `Limits` | `MAX_FRAME` and `MAX_TOTAL`, which bound both directions | |
| `FrameInput` | `io.rs`: `Input::frame`, byte by byte | extends `Limits` |
| `Intake` | a frame of `FrameInput` given to `parse` of `Request`, and a table of the legal frames | extends `FrameInput`, `Request` |
| `Exchange` | no code: what a process promises about stdout and its exit code | |
| `Session` | `lib.rs`, `response.rs`, `Output` of `io.rs`, the host, tokio's stdout | extends `Request`, `Limits`, instances `Exchange` |
| `GithubClient` | `client.rs` of GitHub under the session's deadline | |
| `GithubCollection` | `discovery.rs` and `records.rs` of GitHub | |
| `Gitlab` | `client.rs`, `discovery.rs` and `records.rs` of GitLab | |
| `Google` | `lib.rs`, `client.rs` of Google and the factory of `protocol/mod.rs` | |
| `Entra` | `client.rs`, `discovery.rs` and `records.rs` of Entra | |
| `Cloudflare` | `client.rs`, `records.rs` and `lib.rs` of Cloudflare | |
| `AwsIam` | `lib.rs` and `records.rs` of AWS | |
| `IdentityCenter` | `identity_center/` of AWS | |
| `Aws` | the two AWS binaries, one per behaviour | extends `IdentityCenter`, `AwsIam` |
| `RuntimeProofs` | theorems about `Session`, that it implements `Exchange`, and about `Intake` | extends `Session`, `Intake` |
| `GithubClientProofs`, `GithubCollectionProofs`, `GitlabProofs`, `GoogleProofs`, `EntraProofs`, `CloudflareProofs`, `AwsProofs` | theorems about the module of that name | extend it |
| `MCAws`, `MCSession`, `MCGithubClient`, `MCGithubCollection`, `MCGitlab`, `MCGoogle`, `MCEntra`, `MCCloudflare` | values of the constants for TLC | extend the module of that name |

### How state and actions correspond to the code

**Session.** `stage` is the await the task is at: `hello` and `command` are the
two `next()` calls, `greeting`, `describing` and `closing` are sends with
nothing else polled, `operating` is the `select!` in `session`; `ok` and
`failed` are the exit codes. `pending` and `sendStage` are the state of the
future of `send`; `total`, `contract` and `outId` are the fields of `Output`;
`buffered` is what `Input` holds after one read. `task` is where the operation's
future is. `Abort(f)` is the return of `Err(f)`, which drops everything that was
being awaited: in `closing` it is the failure of the report itself. Each
deadline is an action enabled whenever its wait is pending, so which comes first
is open. `select!` is `biased` to the input, so nothing of an operation moves
while a frame is buffered (`Polled`, `Operating`).

*External model.* tokio's stdout accepts a frame at once into its buffer (a
frame is at most `MAX_FRAME`, 1 MiB; tokio buffers 2 MiB) and writes it on a worker thread;
`flush` waits for that thread. `AcceptFrame`, `WorkerWrites`, `WorkerFails`,
`Flushed` and `WriteError` are that contract. A consequence that matters: a send
that is dropped after `AcceptFrame` is still written, before any later frame.
The provider is an environment that answers, fails or does neither.

**Request.** A wire frame is a record with, for each JSON field, the values that
`parse` tells apart; anything that does not decode is `Garbage`.

**FrameInput.** `buffer` is the unread part of the array, `partial` the local
`Vec`, `taken` is `Input.total`; the host writes byte by byte and `Fill(n)` is a
read of any size. **Intake** adds the call that follows: `Decode` takes a frame
that was returned and may say anything, since its bytes are not told apart.

**GithubClient.** One action per way a request ends: `Refused` (an error that is
returned), `Limited` (a rate limit or a 5xx: retried, or given up), `Page`. A
row is a pair of page and index, so that order, gaps and repetitions are
visible. `served` records what the server sent. Time is in seconds and only
advances in requests and sleeps; the jitter of at most 250 ms is left out, since
it only lengthens a wait.

**GithubCollection.** One action per row handled, one per list fetched (its
content and its error are any), `Step` for the ends of lists and `Finish` for
`finish`. Maps of the code are functions with the same keys, sets of blocked
keys are sets. Provenance, grant ids and the order of the result are left out.
`seen` is a history variable with every row handled.

**Gitlab.** `stage` is the loop that `collect` is in, `ids` what that loop still
has to request and `plan` the lists it still has to read; the maps of the code
are walked in the order of their ids, as `BTreeMap` does. `Page` is one answer of
`listing`, with `PageEnds` its early returns in their order; `Contain` is the loop
over `parents` and the check for an empty result; `Member` is one row given to
`Collection::member`. A username and a status are one value, since the code only
compares both; a kind that is known never conflicts, since `bot` can only make it
`Bot`. `MaxRows` and `MaxRecords` are the same constant of the code, `MAX_ROWS`,
which limits two things. A group that names another as its parent and is named
by it is accepted, as in the code; only a group below itself is not.

**Google.** `page` is the loop variable; `Walked` is the loop over the users of a
page, from the state before each user to the state after it. What `record` does
with a user is one of three verdicts. `Factory` is the closure that `run` gives
the runtime; it may fail with either kind of credentials, since the constructor
checks both. `Finish` is the end of `collect`: the SDK's validator, which is not
part of the repository, may refuse any snapshot ("malformed"), so that a discovery
can fail after pages were read. Accounts and identities refer to nothing, so what
the validator demands of other providers' references does not decide this; its
verdict is free.

**Entra.** One action per list that is taken over (`TakeAccounts`, `TakeGroups`,
`TakeMembers`), with `Page` for an answer of `listing`. Ids are compared in lower
case, as `validate` leaves them; whether `next_url` accepts a link is part of the
link.

**Cloudflare.** `Retry` is an answer that may be asked for again, `TakePage` and
`RefusePage` a page that `listing` accepts or turns down (`Accepted` is the
conjunction of its checks), `Take*` what `collect` does with a list that has
ended. An optional total is a set of at most one number, so that what several
pages state together is the union. A policy is understood or not as a whole
(`Understood`); identical policies of one subject are one, since policies are
kept as a set. `denied` and `blocked` are `group_blocked` and the set of the same
purpose; the groups are a map of the code and are walked in any order, of which
the code's, by id, is one. `Closed` is the SDK's validator, as in the other
modules.

**AwsIam.** `Page` is one page of `GetAccountAuthorizationDetails` with
`PageEnds` its early returns, `Finish` is `Collected::finish` with every join it
makes, the limit of records and the SDK's validator (`References`). **IdentityCenter.** `stage` is the list that the pager reads and `at`,
`set` what it is about; `examined` are the rows handed on, under the list, the
group or account and the permission set they were listed for, and `whole` the
lists read to a page that names no token; `tokens` are those of the pager, and
`out` the snapshot returned. In both a call stands for all
attempts of the AWS SDK: an attempt or a byte too many is one more way to fail.
Rows of the list of instances are not charged, as in the code. Maps of the code
are walked in any order. **Aws** puts both side by side: `binary` says which of
the two executables a behaviour is of, and the variables of the other rest.

In the other provider modules, `shown` (`told` in `AwsIam`) holds the pages of the list in progress and
`examined` the rows looked at: history variables the properties compare the
result with. A request that is not even sent and one that is refused have one
action, `Failed`, since the code does the same after both. A deadline of the
session (55 s), of GitLab and AWS (50 s) or of Entra (45 s) drops the discovery and
returns an error: it ends the behaviour where it stands, and `Session` models
what follows.

## 3. What the runs check

| run | bounds | shows |
| --- | --- | --- |
| `input` (`Intake`) | streams of 9 bytes, buffer 3, frame limit 4, total 7; in the streams of one byte, every combination of field values in the frame | `FramesAreLines`: frames are the lines of what was consumed, nothing lost, repeated or joined; `FailsForCause`: input is refused only for a limit or its end; `AcceptsExactlyTheTable`: `Parse` accepts exactly the shapes of a table stated independently, and yields their command |
| `session` (`MCSession`) | 3 host frames of 12, up to 2 records, budget 5 | `ImplementsExchange`, `FactoryAfterNegotiation`, `CleanExit`, `FailureIsReported`, `Termination` |
| `session_terminals` | same | a violation: see finding 1 |
| `github_client` (`MCGithubClient`) | 2 lists, 2 pages of 2 rows, 5 requests, 3 rows | `ListsAreFaithful`: what a list holds is what was served, and it ends without an error only at its end; `BudgetsAreKept`: both lists share one budget of rows, and a page costs at most three of the shared requests |
| `github_deadline` | same, immediate answers | a violation: see finding 2 |
| `github_collection` (`MCGithubCollection`) | 2 organization names, 1 account, 1 repository, 1 team, each described in 2 or 3 ways, 4 rows | `NeverMalformed`, `NothingLost`, `Uncontradicted` |
| `github_organizations` | 2 names, no interesting rows | a violation: see finding 3 |
| `gitlab` (`MCGitlab`) | 1 group, 1 project, 2 users in 3 forms, pages of 2 of 2 rows, 4 rows, 8 requests | `ListsAreWhole`, `NothingLost`, `Uncontradicted`, `ScopeIsKept` |
| `google` (`MCGoogle`) | 3 ids, 3 pages of up to 2 users (or 3, too many), 3 tokens, 3 rows | `RecordsAreExact`; `CompleteIsWhole` and `WholeIsComplete`: a snapshot calls itself complete exactly when the walk met nothing wrong; `NoPageTwice` |
| `entra` (`MCEntra`) | 2 ids of any type, lists of 2 pages, 2 links, 4 rows, 7 requests | `ListsAreWhole`, `OneKind`, `MembershipsAreExact`, `NothingLost` |
| `cloudflare` (`MCCloudflare`) | 2 members, 1 zone, 2 groups, lists of 2 pages of 2 rows, totals from 0 to 3, 6 rows, 8 requests | `ListsAreWhole`, `AccessIsExact`: exactly the accounts with a policy that is not understood, their own or a group's, lose what they have; `NothingLost` |
| `aws` (`MCAws`) | Identity Center: 2 configured accounts, lists of 2 pages along 2 tokens, 7 rows; IAM: 3 pages along 2 markers, 5 rows | `EvidenceIsExact`, `CompleteIsWhole` of Identity Center, `InventoryIsSound` of IAM |

*Why the bounds are enough.* A session uses at most two frames before its
operation and one during it: three host frames reach every branch of `session`,
and a fourth would stay unread. The budgets are so small that every frame of an
exchange, the report included, is one that does not fit in some behaviour. Two
records distinguish the first, a middle and the last send of an operation. Two
GitHub lists show a budget that is spent by one and missed by the next. In
the collection a contradiction needs two rows about one entity and a claim
before or after; four rows allow a claim, two contradicting rows and one more
that might undo the exclusion. Entities of one kind do not interact with others
of that kind, so one of each suffices, except organizations, of which the code
makes a sequence. In GitLab a user is listed by a group and its
project, directly and effectively, which is where rows about one user meet; four
rows allow a claim, a contradiction and a row after it. Three Google tokens and
three pages reach the page limit with a token that is still acceptable, and a
page that leads back; tokens are only compared, so they are symmetric. Three
Google users, all different, fill the budget of rows, and two pages of two
exceed it. Two Entra
ids are an account and a group, or one object in two collections. In Cloudflare
two groups are one that is understood and one that is not, walked in both
orders, and two members are one who is in both and one who is not; two pages
suffice for totals that disagree, since each page is compared with what all
earlier ones stated. Identity Center resolves a member or an assignment against
two lists, either of which may have been cut; two accounts are one whose sets
were read and one whose were not. An IAM user, a group, a policy, and a second
row for each are what one join needs. The request
budgets let a discovery finish with a retry, and are exhausted when there are
more.

*Fairness.* `Session` assumes weak fairness of `Runtime`, the steps of the task
itself: the executor polls a woken task, and every await of the task is under a
timer. Nothing is assumed of the host, of stdout's worker or of the provider,
which may all stop for ever; `Termination` holds nevertheless. The other
modules' properties are safety properties, and no fairness is used.

*Deadlock* is not checked where a process ends by design, in every module here.

### Findings

1. **Two terminal frames.** A terminal frame whose flush is overtaken by the
   write deadline, by the operation's deadline or by a cancellation is already
   with stdout's worker; `serve_internal` then sends a report. A host that
   resumes reading gets both. `scripts/smoke_provider.py` 38 and 95 state one
   terminal. `Exchange` therefore promises only that a report may follow an
   answer and is last.
2. **A rate limit loses what was collected.** Without `Retry-After` the GitHub
   client waits 60 seconds; the session allows 55 for the operation, so the
   retry is never made and the snapshot is dropped. `docs/github.md` 35 states
   that failed endpoints preserve useful observations.
3. **Organizations are not compared.** Two configured names that answer with one
   id leave the record of the second only, with `complete=true`
   (`discovery.rs` 32), where other entities with conflicting observations are
   excluded and reported.

## 4. What is proved

Every theorem is `Spec => []P` (or `Spec => P` for a temporal `P`), where a
run checks `P` (but for `SessionRunsOut`), for all values of the constants that satisfy the
assumption of the module it is about: any number of frames, rows, pages, ids and
budgets. Each rests on an inductive invariant, with one lemma per action or group
of actions.

The assumptions say what a constant is and no more: `Nat` for a budget, sequences
of rows for pages, `SUBSET` of a verdict's values. Three say more, and why is in
the code: a configuration is a finite list of groups and projects
(`GitlabAssumption`); a Google user without a valid id has no record, since
`record` needs the id (`GoogleAssumption`); a report of IAM lists no groups for
what is not a user and no attachments for a policy, since the AWS types have no
such fields (`AwsIamAssumption`).

### The session

`RuntimeProofs`, from `SessionAssumption`, `LimitsAssumption` and
`SupportsNetworkAssumption`:

* `TypeCorrect` (`TypeOK`). `TypeOK` is not inductive: that a handed
  frame is an output frame rests on `SendingFrame`, that a frame is pending
  whenever a send is under way. The invariant is `Typed`, their conjunction.
* `FactoryOnlyAfterNegotiation` (`FactoryAfterNegotiation`). By itself
  the property says nothing of the state just before the factory is called, so
  the invariant is `Negotiating`: `Greeting` (what is being sent, and what was
  written, before and after the reply to the handshake), `Greeted` (after it,
  the first frame is that reply and the pipe has taken it whole), `Agreed` (an
  operation under way is the negotiated one, with its network context and under
  the negotiated contract) and `CalledOnce`.
* `ExitIsClean` (`CleanExit`) and `FailuresAreReported` (`FailureIsReported`, an
  action property). The invariant `Delivering` follows a frame from `send` into
  the pipe: `Piped` (what the worker has written and what it still has),
  `Sending` (where the frame in hand is) and `Recorded` (how many records an
  answer has sent).
* `SessionImplementsExchange` (`ImplementsExchange`), the refinement. What is
  handed to stdout maps to the frames of `Exchange`. `Streaming` adds to the
  invariants above that all frames have one contract (`OneContract`), how many
  frames precede an answer (`Counted`), and that nothing was reported before the
  end (`Unreported`); `StepExchanges` then shows that every step is a written
  frame, an exit or a stutter.
* `SessionRunsOut`, which no run states: `Left` counts what is left of a session in
  steps. Every step of the runtime or the provider lowers it and none of the host
  or of stdout raises it, so that there are at most `6 * (3 * MaxRecords + 7)` of
  the former, however much the host writes. The invariant `Working` says that
  an operation sends no more records than its snapshot has, which has no more than
  `MaxRecords`. This is the half of `Termination` that needs no fairness.

### The input

`RuntimeProofs` again, from `FrameInputAssumption`, `LimitsAssumption` and
`SupportsNetworkAssumption`, for streams, buffers, limits and pieces of any size:

* `IntakeTypeCorrect` (`IntakeTypeOK`) and `FramesCutAtNewlines`
  (`FramesAreLines`). The invariant is `Cut`. It adds `Placed`: what was consumed is
  `taken` bytes of the stream, the buffer is the slice after them, and the frame in
  progress is the slice from the end of the last frame, without a newline; and
  `Returned`: as many lines end at `taken` or before it as frames were returned.
  `FramesAreLines` by itself is not inductive: it does not say that a newline in
  the frame in progress would have ended it. The lemmas are about slices of a
  sequence (`SliceOfSlice`, `SlicesMeet`, `SliceKept`) and about its newlines: the
  end of the k-th line exists and is unique (`EndIs`), and the first newline after
  the end of line k ends line k + 1 (`NextLine`).
* `InputFailsForCause` (`FailsForCause`). What the reader refuses is the first
  newline of its buffer, what the property speaks of is the rest of the stream,
  which the host may still extend. `GrownIs` relates the two: the frame so
  far and what the buffer adds to it are the rest up to its first newline, or a part
  of the rest that has none. `CountGrows` says that bytes written later never
  shorten it, so that a cause stays one.
* `ParseImplementsTheTable` (`AcceptsExactlyTheTable`). `parse` checks what a
  frame lacks, the table lists what a frame has. `LegalAccepted` and
  `AcceptedLegal` are the two directions, by contract and command, so the theorem
  does not rest on the run's enumeration.

### GitHub

`GithubClientProofs`. The properties speak of the rows of all pages and of all
lists, that is of flattened sequences, which the community modules define by a
recursive function. `FlattenSeqIs` shows that this function exists, by induction
up to the length of the sequence, and `FlattenAppend` that what is appended comes
last, which is all the proofs use of it.

* `TypeCorrect` (`TypeOK`). `TypeOK` is not inductive: that `attempt` stays
  within its limit when a retry starts rests on `Retries` having been checked
  before the sleep. The invariant `Typed` adds that.
* `ListsFaithful` (`ListsAreFaithful`) adds `Listing`: the list in progress holds
  every row of the pages it was shown, `page` is one more than their number, and
  each of them has promised another. `PageFaithful` is the step where rows are cut
  to the budget and a prefix remains.
* `BudgetsKept` (`BudgetsAreKept`) adds `Spent`: requests are at most three for
  each page and each list that is over, and for the page in progress one for each
  attempt that is over and the one pending. The property alone does not bound what
  the page in progress has already cost.

`GithubCollectionProofs`: `SnapshotsAreWellFormed` (`NeverMalformed`),
`RecordsAreUncontradicted` (`Uncontradicted`) and `CompleteLosesNothing`
(`NothingLost`), for rows of any content. One invariant for each kind of record
relates it to every row seen: `AccountsAgree`, `RepositoriesAgree` and
`TeamsAgree` say that what a row speaks of is recorded as the row says or is
blocked, that nothing is both, and that nothing is blocked while the snapshot
calls itself complete. `Walking` says that the repositories whose collaborators
are read are known, and `Grows` that what is known stays known, if only as
blocked; on these rests `ClaimsAgree`, the same for memberships and grants. That
`finish` drops the claims of blocked records then closes the snapshot
(`InvCloses`). `TypeCorrect` (`TypeOK`) needs `Handling`: the rows in hand are of
the list that was read, and the organization and the team in progress have keys.

### GitLab

`GitlabProofs`, for any configured scope, any pages and any budgets:

* `TypeCorrect` (`TypeOK`). The invariant `Typed` adds `Named` (what is still to
  be requested was configured or found, and the rows in hand are of the kind of
  the list), `Idle` (nothing is in hand where no list is read) and `Planned`.
* `ListsWhole` (`ListsAreWhole`). `Whole` says that while a list is read the rows
  of its pages are all in hand and each page has promised another, so that the
  check of a page against the rows in hand is one against all earlier pages
  (`NoRowTwice`).
* `ScopeKept` (`ScopeIsKept`). `Scoped` adds to the containment (`Contained`) that
  a group or a project is registered as a resource when it is observed, and that
  lists of members are planned for resources only. `ScopesCovered` says what a
  discovery that is still complete has observed at each stage.
* `RecordsUncontradicted` (`Uncontradicted`). `People` says of every row handled
  that can be read, and in a complete snapshot of every row, that its account is
  known, as the row has it or as blocked, and that nothing is blocked in a
  complete snapshot.
* `CompleteLosesNothing` (`NothingLost`). A grant is keyed by list, scope and
  account, so a second row of the same key would overwrite the level of the
  first. That there is none rests on three things: rows in hand are of different
  users (`Distinct`, from `NoRowTwice`), no list is planned twice (`PlanOnce`),
  and there is no grant of a list not read yet (`Unread`). `RowMet` then says of
  every row examined that it is in hand or recorded with its level.

### Google

`GoogleProofs`: `NoPageReadTwice` (`NoPageTwice`) adds to the pages read
that their tokens are among those accepted (`Chained`), that the token of the
page being asked for is the latest one named and none of theirs (`Asking`), and
that nothing is read before the factory has returned (`Fresh`).

`RecordsExact` (`RecordsAreExact`) and `CompleteWhole` (`CompleteIsWhole`) are
about the loop over the users of a page, `Walked`, a recursive function on 0 up to
their number. `Exact` says what the state of the loop is after `m` users: a record
for each user whose id came once and whose record is not refused, and for nobody
else; one turn of the loop keeps it (`Turn`), and so do all, by induction up to
`m`, a set of numbers in place of an operator. `Taken` carries it from page to
page. `WholeReported` (`WholeIsComplete`) is the converse of `CompleteWhole`:
`Reported` says that while pages are asked for only a flaw of a user has cost the
claim to be complete, and that a turn of the loop over flawless users costs
nothing (`TurnSpotless`). `TypeCorrect` (`TypeOK`) needs `Charged`: rows are counted after a page is
read and compared before the next is asked for.

### Entra and Cloudflare

`EntraProofs`: `KindsAreDisjoint` (`OneKind`) and `MembershipsExact`
(`MembershipsAreExact`) rest on `Current`, the correspondence between the list in
progress and the rows examined, and `MembersSoFar`. `CompleteLosesNothing`
(`NothingLost`) is `AllPlaced`, inductive by itself over them. `ListsWhole`
(`ListsAreWhole`) follows the links: `Chained`, `Asking`, `Once` and `Ended`.
`TypeCorrect` (`TypeOK`) needs `Charge`, what each page costs.

`CloudflareProofs`: `AccessExact` (`AccessIsExact`). The property speaks of the
end; the invariant `AccessSoFar` says at each moment of the walk that the
blocked are the accounts with a policy of their own, or of a group walked so far,
that is not understood, and that the memberships are those of the understood
groups walked so far, blocked members included, so that the order of the walk
does not matter. `InOrder` says which lists have been looked at.
`CompleteLosesNothing` (`NothingLost`) adds `Clean`, what `complete` means in the
middle; `TypeCorrect` (`TypeOK`) follows the budgets. `ListsWhole`
(`ListsAreWhole`) counts: `RowsAdded` says that a page adds as many rows as it
holds, since no page is larger than asked for (`Sized`) and none is a repetition
(`Once`), so that what `listing` compares with the totals is the number of rows
shown.

### AWS

`AwsProofs` is about both discoveries and the provider that has them. Of
`IdentityCenter`: `EvidenceExact` (`EvidenceIsExact`). `Walked` says where
the walks over groups and accounts are; `Entities`, `Members` and `Grants`
give the value of each of these sets for every stage. `CompleteWhole`
(`CompleteIsWhole`) adds `Paging` (each page of a list was asked for with the
token of the one before, no token twice, and only the last names none),
`DirectoryWhole` and `AccessWhole` (which lists are whole at which stage of a
discovery that still calls itself complete), `NothingLeftOut`, and `Places` and
`Unnamed`, the membership of tokens and of what is shown in their sets.

Of `AwsIam`: `InventorySound` (`InventoryIsSound`). The invariant is short, since
nothing is resolved before
the end: `Collected` (what was collected is what the pages said) and `Chained`
(the markers). The work is in the joins of `Collected::finish`: `UsableRows` and
`NamedRows` say that a row that is used is one no other page denies and that a
name found stands for one entity, `RecordsSound`, `GrantsSound` and
`MembershipsSound` follow; `ReferencesHold` says that what is joined is there;
for a complete inventory `AttachmentsSize` and `MembershipsSize` match what a row
names one to one with what the inventory says of it.

Of `Aws`: `EachDiscovers` (`AwsSpec => Spec /\ IamSpec`), so that these theorems
hold of every run of the provider; and `TypesCorrect` (`TypesOK`), whose bounds on
what is held are bounds on what was charged: `Held` for Identity Center, one row
for every user, group, membership and grant, and `IamTyped`.

### What is only model-checked

* `Termination` of `Session`, and the fairness it needs: liveness and `ENABLED` are
  out of the prover's reach. `SessionRunsOut` proves that a session cannot go on
  for ever; that it does not stop short of its end, the run shows.
* The three properties that fail (see the findings) are of course not theorems.

## 5. Not modelled

Packaging scripts and the catalog (no concurrency, no retained state), record
conversion (a total mapping), the adapters' contents: configuration messages and
constant tables (their verdicts are inputs of `Request` and `Session`), TLS and
HTTP construction in `network.rs` (only its verdict appears, as a value of
`Networks`), and `main.rs`.
The `check` operations make one or a few requests and keep nothing: the runtime's
view of them is `CheckReturns` of `Session`.

Deadlines inside a provider (50 seconds of GitLab and AWS, 45 of Entra, 120 of
Cloudflare) are not actions of their modules: they drop the discovery as the
session's deadline of 55 seconds does, and Cloudflare's never comes first.

GitLab's `Uncontradicted` leaves out two kinds of rows of an incomplete snapshot.
A row that is unusable (expired, or without an access level) and read before the
account was first recorded is compared with nothing, so the order of rows decides
whether it counts. A row whose username or status cannot be read
(`records.rs` 150) is turned down before anything is blocked: what other rows
said of that account, its memberships and grants included, stays in the snapshot,
marked incomplete. Here code and documentation disagree, since
`docs/gitlab.md` 88 states that malformed observations suppress that account's
paths; with the two conditions on the row removed `Uncontradicted` fails, in
MCGitlab with a row of a user and, in a later list, one without a username
(`NoName`). No run checks that stronger form.

Of the SDK's validator the modules have what concerns references between records
(`Closed`, `References`), and in `Google`, where there are none, a free verdict;
what it demands of a single field is not modelled.

## 6. Plan

All components with retained state or ordering of their own are modelled, and
every safety property a passing run checks is a theorem. What is left: lemmas that
two proof modules state each for itself (induction up to a number, appending to a
sequence) in a module of their own.
