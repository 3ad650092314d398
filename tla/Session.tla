------------------------------- MODULE Session -------------------------------
(***************************************************************************)
(* One run of a native provider: serve_internal, session and               *)
(* response::operation of the native runtime, between a host that writes   *)
(* frames to stdin whenever it likes, reads stdout when it likes or never, *)
(* and a provider that answers, fails or hangs.                            *)
(*                                                                         *)
(* The runtime is one task.  It waits for input, for the provider or for   *)
(* stdout, and every wait has a deadline; which of a deadline and the      *)
(* event it guards comes first is left open.                               *)
(*                                                                         *)
(* tokio's stdout takes a whole frame at once, hands it to a worker thread *)
(* and takes the next one when that thread is done (io is outside src/).   *)
(* So a send the session abandons is not taken back: its frame is still    *)
(* written, before any later one.                                          *)
(***************************************************************************)
EXTENDS Request, Limits, Sequences

CONSTANTS
  HostFrames,      \* the frames the host may write to stdin
  MaxHostFrames,   \* bound: frames the host writes in a session
  NetworkEnabled,  \* serve_with_network rather than serve
  SetupSpecs,      \* A::setup(): "valid" or "invalid", or either
  AuthSpecs,       \* A::browser_auth(): these or "none"
  ProviderCodes,   \* A::error_code's results
  Snapshots,       \* what discover() may return
  MaxRecords,      \* 100_000 in response::operation
  RecordSizes      \* encoded sizes a record frame may have

\* `sound' is provider = instance and Snapshot::validate, `records' the number
\* of observations in all six lists.
Snapshot == [sound : BOOLEAN, records : Nat]

ASSUME SessionAssumption ==
  /\ HostFrames \subseteq Frames
  /\ MaxHostFrames \in Nat
  /\ NetworkEnabled \in BOOLEAN
  /\ SetupSpecs \subseteq {"valid", "invalid"}
  /\ AuthSpecs \subseteq {"none", "valid", "invalid"}
  /\ ProviderCodes \subseteq STRING
  /\ Snapshots \subseteq Snapshot
  /\ MaxRecords \in Nat
  /\ RecordSizes \subseteq Nat \ {0}

VARIABLES
  \* the host and the pipes
  stdin,        \* frames the host has written and the process has not read
  written,      \* how many frames the host has written
  stdinClosed,  \* the host has closed its end of stdin
  stdoutClosed, \* the host has closed its end of stdout
  handed,       \* every frame stdout's worker has been given, in order
  delivered,    \* how many of them are wholly in the pipe
  writing,      \* the worker is writing the last of them
  writeFailed,  \* the worker's error, not yet reported to the session
  \* Input and Output
  buffered,     \* frames read into Input.buffer and not yet returned
  total,        \* Output.total
  contract,     \* Output.contract
  outId,        \* Output.id
  \* the session
  stage,        \* what session() or serve_internal is waiting for
  hello,        \* the accepted handshake
  pending,      \* the frame in send(), or Nothing
  sendStage,    \* "idle", "accept" (write_all) or "flush"
  failure,      \* the Failure on its way to serve_internal
  \* the provider
  calls,        \* how often the credential-consuming factory ran
  network,      \* the network context it was given
  task,         \* what the provider is doing in the session's operation
  snapshot,     \* what discover returned
  sent          \* records sent so far

hostVars   == <<stdin, written, stdinClosed, stdoutClosed>>
stdoutVars == <<handed, delivered, writing, writeFailed>>
outputVars == <<total, contract, outId>>
sendVars   == <<pending, sendStage>>
provVars   == <<calls, network, task, snapshot, sent>>
vars == <<hostVars, stdoutVars, buffered, outputVars, stage, hello, sendVars,
          failure, provVars>>

-----------------------------------------------------------------------------
(***************************************************************************)
(* Output frames.                                                          *)
(***************************************************************************)
Ids == {"handshake", "describe", "describe_auth", "check", "discover", "cancel"}

\* Events that end the exchange well.
Answers == {"setup", "auth", "health", "complete"}

Events == {"handshake", "record", "error", "cancelled"} \cup Answers

Codes == {"none", "protocol_error", "internal", "unavailable",
          "unsupported_method"} \cup ProviderCodes

\* "none" while session() runs.
Failures == Codes \cup {"cancelled"}

OutFrame ==
  [ contract : Contracts, id : Ids, event : Events,
    code     : Codes,                   \* of an error
    features : BOOLEAN,                 \* of a handshake
    count    : Nat ]                    \* of complete

Nothing == [event |-> "nothing"]

Event(e) == [ contract |-> contract, id |-> outId, event |-> e,
              code |-> "none", features |-> FALSE, count |-> 0 ]

Stages == {"hello", "greeting", "command", "describing", "operating",
           "closing", "ok", "failed"}

Tasks == {"none", "ready", "factory", "api", "emit", "dropped"}

Running == stage \notin {"ok", "failed"}

NoHello == [command |-> "none", features |-> FALSE, operation |-> "absent"]

NoSnapshot == [sound |-> FALSE, records |-> 0]

Init ==
  /\ stdin = <<>> /\ written = 0 /\ stdinClosed = FALSE /\ stdoutClosed = FALSE
  /\ handed = <<>> /\ delivered = 0 /\ writing = FALSE /\ writeFailed = FALSE
  /\ buffered = <<>>
  /\ total = 0 /\ contract = "negotiated_v1" /\ outId = "handshake"
  /\ stage = "hello" /\ hello = NoHello
  /\ pending = Nothing /\ sendStage = "idle"
  /\ failure = "none"
  /\ calls = 0 /\ network = "absent" /\ task = "none"
  /\ snapshot = NoSnapshot /\ sent = 0

-----------------------------------------------------------------------------
(***************************************************************************)
(* The host and stdout's worker thread.                                    *)
(***************************************************************************)
HostWrites(f) ==
  /\ Running /\ ~stdinClosed
  /\ written < MaxHostFrames
  /\ written' = written + 1
  /\ stdin' = Append(stdin, f)
  /\ UNCHANGED <<stdinClosed, stdoutClosed, stdoutVars, buffered, outputVars,
                 stage, hello, sendVars, failure, provVars>>

HostClosesStdin ==
  /\ Running /\ ~stdinClosed
  /\ stdinClosed' = TRUE
  /\ UNCHANGED <<stdin, written, stdoutClosed, stdoutVars, buffered, outputVars,
                 stage, hello, sendVars, failure, provVars>>

HostClosesStdout ==
  /\ Running /\ ~stdoutClosed
  /\ stdoutClosed' = TRUE
  /\ UNCHANGED <<stdin, written, stdinClosed, stdoutVars, buffered, outputVars,
                 stage, hello, sendVars, failure, provVars>>

\* The frame reaches the pipe: at once if the pipe has room, else when the host
\* has read enough, which may be never.
WorkerWrites ==
  /\ writing /\ ~stdoutClosed
  /\ writing' = FALSE
  /\ delivered' = delivered + 1
  /\ UNCHANGED <<hostVars, handed, writeFailed, buffered, outputVars, stage,
                 hello, sendVars, failure, provVars>>

WorkerFails ==
  /\ writing /\ stdoutClosed
  /\ writing' = FALSE
  /\ writeFailed' = TRUE
  /\ UNCHANGED <<hostVars, handed, delivered, buffered, outputVars, stage,
                 hello, sendVars, failure, provVars>>

-----------------------------------------------------------------------------
(***************************************************************************)
(* send: encode, charge the budgets, write, flush, all within a deadline.  *)
(***************************************************************************)
\* Mutant of Abort: a timeout ends the process without a word.
AbortMute(f) ==
  /\ stage' = IF stage = "closing" \/ f = "unavailable" THEN "failed" ELSE "closing"
  /\ failure' = IF stage = "closing" THEN failure ELSE f
  /\ pending' = Nothing
  /\ sendStage' = "idle"
  /\ task' = IF task = "none" THEN "none" ELSE "dropped"

\* The session, or the operation it races with its input, returns Err(f): what
\* was being sent and the provider's future are dropped.  A failure to report a
\* failure ends the process.
Abort(f) ==
  /\ stage' = IF stage = "closing" THEN "failed" ELSE "closing"
  /\ failure' = IF stage = "closing" THEN failure ELSE f
  /\ pending' = Nothing
  /\ sendStage' = "idle"
  /\ task' = IF task = "none" THEN "none" ELSE "dropped"

\* Mutant of Fits: no limit for the session.
FitsFrame(size) == size <= MaxFrame

Fits(size) == size <= MaxFrame /\ size <= MaxTotal - total

Begin(frame, size) ==
  \/ /\ Fits(size)
     /\ total' = total + size
     /\ pending' = frame
     /\ sendStage' = "accept"
     /\ UNCHANGED <<stage, failure, task>>
  \/ /\ ~Fits(size)
     /\ Abort("internal")
     /\ UNCHANGED total

\* A frame of fixed content; only records have a size worth telling apart.
ControlSize == 1

\* select! is biased: in an operation nothing moves while input is waiting.
Polled == stage = "operating" => buffered = <<>>

\* Mutant of WorkerIdle: the frame's bytes are not waited for.
WorkerSound == ~writeFailed

WorkerIdle == ~writing /\ ~writeFailed

AcceptFrame ==
  /\ sendStage = "accept" /\ Polled
  /\ WorkerIdle
  /\ handed' = Append(handed, pending)
  /\ writing' = TRUE
  /\ sendStage' = "flush"
  /\ UNCHANGED <<hostVars, delivered, writeFailed, buffered, outputVars, stage,
                 hello, pending, failure, provVars>>

\* What the caller of send does when it returns Ok.
Flushed ==
  /\ sendStage = "flush" /\ Polled
  /\ WorkerIdle
  /\ pending' = Nothing
  /\ sendStage' = "idle"
  /\ stage' = CASE stage = "greeting"                                -> "command"
                [] stage = "closing" /\ failure # "cancelled"         -> "failed"
                [] stage = "operating" /\ pending.event = "record"    -> stage
                [] OTHER                                              -> "ok"
  /\ sent' = IF pending.event = "record" THEN sent + 1 ELSE sent
  /\ UNCHANGED <<hostVars, stdoutVars, buffered, outputVars, hello, failure,
                 calls, network, task, snapshot>>

\* The worker's error comes back with the next poll.
WriteError ==
  /\ sendStage \in {"accept", "flush"} /\ Polled
  /\ ~writing /\ writeFailed
  /\ writeFailed' = FALSE
  /\ Abort("unavailable")
  /\ UNCHANGED <<hostVars, handed, delivered, writing, buffered, outputVars,
                 hello, calls, network, snapshot, sent>>

\* Five seconds without progress.
WriteTimeout ==
  /\ sendStage \in {"accept", "flush"} /\ Polled
  /\ writing
  /\ Abort("unavailable")
  /\ UNCHANGED <<hostVars, stdoutVars, buffered, outputVars, hello, calls,
                 network, snapshot, sent>>

-----------------------------------------------------------------------------
(***************************************************************************)
(* Input.                                                                  *)
(***************************************************************************)
Reading == stage \in {"hello", "command", "operating"}

\* One read may bring several frames.
ReadChunk ==
  /\ Reading /\ buffered = <<>>
  /\ \E n \in 1 .. Len(stdin) :
       /\ buffered' = SubSeq(stdin, 1, n)
       /\ stdin' = SubSeq(stdin, n + 1, Len(stdin))
  /\ UNCHANGED <<written, stdinClosed, stdoutClosed, stdoutVars, outputVars,
                 stage, hello, sendVars, failure, provVars>>

InputEnds ==
  /\ Reading /\ buffered = <<>>
  /\ stdin = <<>> /\ stdinClosed
  /\ Abort("protocol_error")
  /\ UNCHANGED <<hostVars, stdoutVars, buffered, outputVars, hello, calls,
                 network, snapshot, sent>>

\* Ten seconds in next().
InputTimeout ==
  /\ stage \in {"hello", "command"} /\ buffered = <<>>
  /\ Abort("unavailable")
  /\ UNCHANGED <<hostVars, stdoutVars, buffered, outputVars, hello, calls,
                 network, snapshot, sent>>

-----------------------------------------------------------------------------
(***************************************************************************)
(* session().                                                              *)
(***************************************************************************)
\* The first frame.  Output.contract follows it even when it is then refused.
Hello ==
  /\ stage = "hello" /\ buffered # <<>>
  /\ buffered' = Tail(buffered)
  /\ LET r == Parse(Head(buffered)) IN
       /\ contract' = IF r = Refused THEN contract ELSE r.contract
       /\ \/ /\ r.command = "handshake"
             /\ r.features => NetworkEnabled
             /\ hello' = r
             /\ stage' = "greeting"
             /\ UNCHANGED <<sendVars, failure, task>>
          \/ /\ ~(r.command = "handshake" /\ (r.features => NetworkEnabled))
             /\ Abort("protocol_error")
             /\ UNCHANGED hello
  /\ UNCHANGED <<hostVars, stdoutVars, total, outId, calls, network, snapshot,
                 sent>>

Greet ==
  /\ stage = "greeting" /\ sendStage = "idle"
  /\ Begin([Event("handshake") EXCEPT !.features = hello.features], ControlSize)
  /\ UNCHANGED <<hostVars, stdoutVars, buffered, contract, outId, hello, calls,
                 network, snapshot, sent>>

\* Of the second frame: decoded, and under the contract of the first.
Known(r) == r # Refused /\ r.contract = contract

\* The network context came exactly if the handshake negotiated it.
NetworkAgrees(r) == (r.network # "absent") = hello.features

\* Mutant of Negotiated: any operation will do.
NegotiatedAny(r) == r.network # "unloadable"

Negotiated(r) == hello.operation = r.command /\ r.network # "unloadable"

\* A description starts with the adapter's specification and its validation.
DescribeWith(id, spec) ==
  /\ outId' = id
  /\ \/ spec = "valid" /\ stage' = "describing" /\ UNCHANGED <<sendVars, failure, task>>
     \/ spec = "invalid" /\ Abort("internal")
     \/ spec = "none" /\ Abort("unsupported_method")
  /\ UNCHANGED network

\* Output.id is that of the invocation from the moment its network context
\* agrees with the handshake, before its operation is compared.
Operation(r) ==
  /\ outId' = r.command
  /\ \/ /\ Negotiated(r)
        /\ stage' = "operating"
        /\ task' = "ready"
        /\ network' = r.network
        /\ UNCHANGED <<sendVars, failure>>
     \/ /\ ~Negotiated(r)
        /\ Abort("protocol_error")
        /\ UNCHANGED network

\* The second frame.
Command ==
  /\ stage = "command" /\ buffered # <<>>
  /\ buffered' = Tail(buffered)
  /\ LET r == Parse(Head(buffered)) IN
       \/ /\ Known(r) /\ r.command = "describe"
          /\ \E spec \in SetupSpecs : DescribeWith("describe", spec)
       \/ /\ Known(r) /\ r.command = "describe_auth"
          /\ \E spec \in AuthSpecs : DescribeWith("describe_auth", spec)
       \/ /\ Known(r) /\ r.command = "cancel"
          /\ Abort("cancelled")
          /\ UNCHANGED <<outId, network>>
       \/ /\ Known(r) /\ r.command \in Operations /\ NetworkAgrees(r)
          /\ Operation(r)
       \/ /\ \/ ~Known(r)
             \/ r.command = "handshake"
             \/ r.command \in Operations /\ ~NetworkAgrees(r)
          /\ Abort("protocol_error")
          /\ UNCHANGED <<outId, network>>
  /\ UNCHANGED <<hostVars, stdoutVars, total, contract, hello, calls, snapshot,
                 sent>>

Describe ==
  /\ stage = "describing" /\ sendStage = "idle"
  /\ Begin(Event(IF outId = "describe" THEN "setup" ELSE "auth"), ControlSize)
  /\ UNCHANGED <<hostVars, stdoutVars, buffered, contract, outId, hello, calls,
                 network, snapshot, sent>>

-----------------------------------------------------------------------------
(***************************************************************************)
(* The operation, raced with the input under a deadline.                   *)
(***************************************************************************)
Operating == stage = "operating" /\ sendStage = "idle" /\ buffered = <<>>

CallFactory ==
  /\ Operating /\ task = "ready"
  /\ task' = "factory"
  /\ calls' = calls + 1
  /\ UNCHANGED <<hostVars, stdoutVars, buffered, outputVars, stage, hello,
                 sendVars, failure, network, snapshot, sent>>

FactoryReturns ==
  /\ Operating /\ task = "factory"
  /\ task' = "api"
  /\ UNCHANGED <<hostVars, stdoutVars, buffered, outputVars, stage, hello,
                 sendVars, failure, calls, network, snapshot, sent>>

\* The factory, check() or discover() returns an error.
ProviderFails ==
  /\ Operating /\ task \in {"factory", "api"}
  /\ \E code \in ProviderCodes : Abort(code)
  /\ UNCHANGED <<hostVars, stdoutVars, buffered, outputVars, hello, calls,
                 network, snapshot, sent>>

CheckReturns ==
  /\ Operating /\ task = "api" /\ outId = "check"
  /\ Begin(Event("health"), ControlSize)
  /\ UNCHANGED <<hostVars, stdoutVars, buffered, contract, outId, hello, calls,
                 network, snapshot, sent>>

DiscoverReturns(s) ==
  /\ Operating /\ task = "api" /\ outId = "discover"
  /\ \/ /\ s.sound /\ s.records <= MaxRecords
        /\ snapshot' = s
        /\ task' = "emit"
        /\ UNCHANGED <<stage, sendVars, failure>>
     \/ /\ ~(s.sound /\ s.records <= MaxRecords)
        /\ Abort("internal")
        /\ UNCHANGED snapshot
  /\ UNCHANGED <<hostVars, stdoutVars, buffered, outputVars, hello, calls,
                 network, sent>>

EmitRecord(size) ==
  /\ Operating /\ task = "emit" /\ sent < snapshot.records
  /\ Begin(Event("record"), size)
  /\ UNCHANGED <<hostVars, stdoutVars, buffered, contract, outId, hello, calls,
                 network, snapshot, sent>>

\* Mutant of EmitComplete: it does not wait for the records.
EmitCompleteEarly ==
  /\ Operating /\ task = "emit"
  /\ Begin([Event("complete") EXCEPT !.count = snapshot.records], ControlSize)
  /\ UNCHANGED <<hostVars, stdoutVars, buffered, contract, outId, hello, calls,
                 network, snapshot, sent>>

EmitComplete ==
  /\ Operating /\ task = "emit" /\ sent = snapshot.records
  /\ Begin([Event("complete") EXCEPT !.count = snapshot.records], ControlSize)
  /\ UNCHANGED <<hostVars, stdoutVars, buffered, contract, outId, hello, calls,
                 network, snapshot, sent>>

\* The input branch of select! wins: the operation is dropped wherever it is.
Interrupt ==
  /\ stage = "operating" /\ buffered # <<>>
  /\ buffered' = Tail(buffered)
  /\ LET r == Parse(Head(buffered)) IN
       Abort(IF Known(r) /\ r.command = "cancel" THEN "cancelled" ELSE "protocol_error")
  /\ UNCHANGED <<hostVars, stdoutVars, outputVars, hello, calls, network,
                 snapshot, sent>>

\* Mutant of Deadline: only the factory is timed.
DeadlineOfFactory ==
  /\ stage = "operating" /\ buffered = <<>> /\ task = "factory"
  /\ Abort("unavailable")
  /\ UNCHANGED <<hostVars, stdoutVars, buffered, outputVars, hello, calls,
                 network, snapshot, sent>>

\* Fifty-five seconds.
Deadline ==
  /\ stage = "operating" /\ buffered = <<>> /\ task # "ready"
  /\ Abort("unavailable")
  /\ UNCHANGED <<hostVars, stdoutVars, buffered, outputVars, hello, calls,
                 network, snapshot, sent>>

-----------------------------------------------------------------------------
\* serve_internal reports how session() failed.
Report ==
  /\ stage = "closing" /\ sendStage = "idle"
  /\ outId' = IF failure = "cancelled" THEN "cancel" ELSE outId
  /\ Begin(IF failure = "cancelled"
           THEN [Event("cancelled") EXCEPT !.id = "cancel"]
           ELSE [Event("error") EXCEPT !.code = failure],
           ControlSize)
  /\ UNCHANGED <<hostVars, stdoutVars, buffered, contract, hello, calls,
                 network, snapshot, sent>>

Host == (\E f \in HostFrames : HostWrites(f)) \/ HostClosesStdin \/ HostClosesStdout

Worker == WorkerWrites \/ WorkerFails

\* The factory, check() and discover(): they answer when and if they like.
Provider ==
  \/ FactoryReturns \/ ProviderFails \/ CheckReturns
  \/ \E s \in Snapshots : DiscoverReturns(s)

Send == AcceptFrame \/ Flushed \/ WriteError \/ WriteTimeout

Input == ReadChunk \/ InputEnds \/ InputTimeout

Emit == (\E size \in RecordSizes : EmitRecord(size)) \/ EmitComplete

Operate == CallFactory \/ Emit \/ Interrupt \/ Deadline

Runtime == Send \/ Input \/ Hello \/ Greet \/ Command \/ Describe \/ Operate \/ Report

Next == Host \/ Worker \/ Provider \/ Runtime

\* The executor polls the task whenever it is woken and every wait of the task
\* has a timer, so the task as a whole is never left alone for ever.  Nothing is
\* assumed of the host, of stdout or of the provider.
Spec == Init /\ [][Next]_vars /\ WF_vars(Runtime)

-----------------------------------------------------------------------------
(***************************************************************************)
(* Properties.                                                             *)
(***************************************************************************)
TypeOK ==
  /\ stdin \in Seq(HostFrames) /\ buffered \in Seq(HostFrames)
  /\ written \in Nat
  /\ stdinClosed \in BOOLEAN /\ stdoutClosed \in BOOLEAN
  /\ handed \in Seq(OutFrame)
  /\ delivered \in Nat
  /\ writing \in BOOLEAN /\ writeFailed \in BOOLEAN
  /\ total \in 0 .. MaxTotal
  /\ contract \in Contracts /\ outId \in Ids
  /\ stage \in Stages
  /\ hello \in Request \cup {NoHello}
  /\ pending \in OutFrame \cup {Nothing}
  /\ sendStage \in {"idle", "accept", "flush"}
  /\ failure \in Failures
  /\ calls \in Nat
  /\ network \in Networks \ {"invalid"}
  /\ task \in Tasks
  /\ snapshot \in Snapshot
  /\ sent \in Nat

Ex == INSTANCE Exchange WITH stream  <- handed,
                             outcome <- IF Running THEN "open" ELSE stage

\* Whatever host, stdout, provider and clock do, what the process has been told
\* to write is an exchange the host's decoder understands, and the exit code
\* agrees with it (serve_internal, session, response::operation).
ImplementsExchange == Ex!Spec

\* The credential-consuming factory runs at most once, and only for the
\* operation and the network context of a handshake whose reply the host's pipe
\* has wholly taken (session, lib.rs 144-227).
FactoryAfterNegotiation ==
  /\ calls <= 1
  /\ calls = 1 => /\ delivered >= 1 /\ handed[1].event = "handshake"
                  /\ contract = "negotiated_v1"
                  /\ hello.operation \in Operations
                  /\ outId \in {hello.operation, "cancel"}
                  /\ handed[1].features = (network # "absent")
                  /\ network \in {"absent", "valid"}

\* Exit code 0 means the host can read the whole exchange, and that it ends with
\* an answer or the confirmation of its cancellation (send flushes, io.rs
\* 119-125).
CleanExit ==
  stage = "ok" =>
    /\ delivered = Len(handed)
    /\ ~writing
    /\ handed[delivered].event \in Answers \cup {"cancelled"}
    /\ handed[delivered].event = "complete" =>
         /\ sent = snapshot.records
         /\ snapshot.sound
         /\ \A i \in 2 .. delivered - 1 : handed[i].event = "record"

\* A process that fails has told the host why, unless "a broken or blocked
\* output channel cannot deliver the static failure" (lib.rs 118) or the output
\* budget has no room for it (io.rs 115).
FailureIsReported ==
  [][stage' = "failed" =>
       \/ /\ handed # <<>> /\ delivered = Len(handed)
          /\ handed[delivered].event = "error"
       \/ stdoutClosed
       \/ writing
       \/ ~Fits(ControlSize)]_stage

\* However the host, stdout and the provider stall, the process ends: each wait
\* of the session is under one of its deadlines (lib.rs 48, 225; io.rs 119).
Termination == <>~Running

\* "description must contain handshake, one terminal and EOF" and "negotiation
\* requires handshake and cancellation terminal" (scripts/smoke_provider.py 38
\* and 95): the host reads at most one terminal event.  A terminal frame whose
\* flush is overtaken by the write deadline, the operation's deadline or the
\* host's own cancellation is followed by a second one.
OneTerminal ==
  \A i, j \in 1 .. delivered :
    {handed[i].event, handed[j].event} \cap {"handshake", "record"} = {} => i = j

=============================================================================
