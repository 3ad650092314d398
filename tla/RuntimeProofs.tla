---------------------------- MODULE RuntimeProofs ---------------------------
(***************************************************************************)
(* Theorems about the native runtime, for every instance of the constants: *)
(* about Session, its invariants and that it implements Exchange; and      *)
(* about Intake, that frames are lines and parse accepts what it should.   *)
(***************************************************************************)
EXTENDS Session, Intake, FiniteSetTheorems, SequenceTheorems, WellFoundedInduction, TLAPS

\* parse returns a request or refuses, never anything else (request.rs 75-170).
LEMMA ParseType ==
  ASSUME NEW w \in Frames
  PROVE  Parse(w) \in Request \cup {Refused}
<1>1. CASE w.method # "garbage" /\ EnvelopeOK(w) /\ CommandOK(w)
  <2>1. w \in WireRequest
    BY <1>1 DEF Frames, Garbage
  <2>2. ContractOf(w) \in Contracts /\ w.network \in Networks \ {"invalid"}
    BY <1>1, <2>1 DEF EnvelopeOK, Absent, WireRequest, Networks
  <2>3. w.method \in Methods
    BY <1>1, <2>1 DEF CommandOK, Methods, Operations
  <2>4. w.operation \in {"absent"} \cup Operations
    BY <2>1 DEF WireRequest
  <2> QED
    BY <1>1, <2>2, <2>3, <2>4 DEF Parse, Request
<1>2. CASE ~(w.method # "garbage" /\ EnvelopeOK(w) /\ CommandOK(w))
  BY <1>2 DEF Parse
<1> QED
  BY <1>1, <1>2

\* An abandoned step leaves the session with a reason to report.
LEMMA AbortType ==
  ASSUME TypeOK, NEW f \in Failures, Abort(f)
  PROVE  /\ stage' \in Stages /\ failure' \in Failures
         /\ pending' \in OutFrame \cup {Nothing}
         /\ sendStage' \in {"idle", "accept", "flush"}
         /\ task' \in Tasks
         /\ sendStage' # "idle" => pending' \in OutFrame
BY DEF TypeOK, Abort, Stages, Tasks

\* A frame is charged to the budget before it is sent, or not at all.
LEMMA BeginType ==
  ASSUME TypeOK, NEW frame \in OutFrame, NEW size \in Nat, Begin(frame, size)
  PROVE  /\ total' \in 0 .. MaxTotal
         /\ stage' \in Stages /\ failure' \in Failures
         /\ pending' \in OutFrame \cup {Nothing}
         /\ sendStage' \in {"idle", "accept", "flush"}
         /\ task' \in Tasks
         /\ sendStage' # "idle" => pending' \in OutFrame
<1>1. CASE Fits(size)
  <2>1. total' = total + size /\ total' \in 0 .. MaxTotal
    BY <1>1, LimitsAssumption DEF Begin, Fits, TypeOK
  <2> QED
    BY <1>1, <2>1 DEF Begin, TypeOK
<1>2. CASE ~Fits(size)
  <2>1. Abort("internal") /\ total' = total
    BY <1>2 DEF Begin
  <2>2. "internal" \in Failures
    BY DEF Failures, Codes
  <2> QED
    BY <2>1, <2>2, AbortType DEF TypeOK
<1> QED
  BY <1>1, <1>2

LEMMA EventType ==
  ASSUME TypeOK, NEW e \in Events
  PROVE  Event(e) \in OutFrame
BY DEF TypeOK, Event, OutFrame, Codes

LEMMA HelloFeatures ==
  ASSUME TypeOK
  PROVE  hello.features \in BOOLEAN
<1>1. CASE hello \in Request
  BY <1>1 DEF Request
<1>2. CASE hello = NoHello
  BY <1>2 DEF NoHello
<1> QED
  BY <1>1, <1>2 DEF TypeOK

LEMMA AppendFrame ==
  ASSUME NEW s \in Seq(OutFrame), NEW frame \in OutFrame
  PROVE  /\ Len(Append(s, frame)) = Len(s) + 1
         /\ s = <<>> => Append(s, frame) = <<frame>>
         /\ Len(s) >= 1 => Append(s, frame)[1] = s[1]
<1>1. Len(Append(s, frame)) = Len(s) + 1 /\ Len(s) \in Nat
  OBVIOUS
<1>2. ASSUME s = <<>> PROVE Append(s, frame) = <<frame>>
  BY <1>2
<1>3. ASSUME Len(s) >= 1 PROVE Append(s, frame)[1] = s[1]
  <2>1. 1 \in 1 .. Len(s)
    BY <1>1, <1>3
  <2> QED
    BY <2>1
<1> QED
  BY <1>1, <1>2, <1>3

-----------------------------------------------------------------------------
(***************************************************************************)
(* Type correctness.  TypeOK alone is not inductive: that only frames are  *)
(* handed to stdout rests on send having one while it is under way.        *)
(***************************************************************************)
SendingFrame == sendStage # "idle" => pending \in OutFrame

Typed == TypeOK /\ SendingFrame

LEMMA InitTyped == Init => Typed
<1> SUFFICES ASSUME Init PROVE Typed
  OBVIOUS
<1>1. /\ stdin \in Seq(HostFrames) /\ buffered \in Seq(HostFrames)
      /\ handed \in Seq(OutFrame)
  BY DEF Init
<1>2. total \in 0 .. MaxTotal
  BY LimitsAssumption DEF Init
<1>3. snapshot \in Snapshot /\ hello \in Request \cup {NoHello}
  BY DEF Init, NoSnapshot, Snapshot
<1>4. /\ contract \in Contracts /\ outId \in Ids /\ stage \in Stages
      /\ failure \in Failures /\ task \in Tasks /\ network \in Networks \ {"invalid"}
  BY DEF Init, Contracts, Ids, Stages, Failures, Codes, Tasks, Networks
<1> QED
  BY <1>1, <1>2, <1>3, <1>4 DEF Init, Typed, TypeOK, SendingFrame

\* What the session tells apart of a frame is typed.
LEMMA ParsedType ==
  ASSUME TypeOK, buffered # <<>>
  PROVE  /\ Parse(Head(buffered)) \in Request \cup {Refused}
         /\ Tail(buffered) \in Seq(HostFrames)
<1>1. Head(buffered) \in HostFrames /\ Tail(buffered) \in Seq(HostFrames)
  BY DEF TypeOK
<1>2. Head(buffered) \in Frames
  BY <1>1, SessionAssumption
<1> QED
  BY <1>1, <1>2, ParseType

\* The second frame, whatever it turns out to ask for.
LEMMA CommandTyped ==
  ASSUME TypeOK, SendingFrame, Command
  PROVE  TypeOK' /\ SendingFrame'
<1> USE DEF hostVars, stdoutVars, sendVars
<1> DEFINE r == Parse(Head(buffered))
           next == /\ stage' \in Stages /\ failure' \in Failures
                   /\ pending' \in OutFrame \cup {Nothing}
                   /\ sendStage' \in {"idle", "accept", "flush"}
                   /\ task' \in Tasks
                   /\ (sendStage' # "idle" => pending' \in OutFrame)
                   /\ outId' \in Ids
                   /\ network' \in Networks \ {"invalid"}
<1>1. r \in Request \cup {Refused} /\ buffered' \in Seq(HostFrames)
  BY ParsedType DEF Command
<1>2. {"protocol_error", "cancelled", "internal", "unsupported_method"} \subseteq Failures
  BY DEF Failures, Codes
<1>3. ASSUME NEW id \in {"describe", "describe_auth"},
             NEW spec \in {"valid", "invalid", "none"}, DescribeWith(id, spec)
      PROVE  next
  <2>1. id \in Ids /\ "describing" \in Stages
    BY DEF Ids, Stages
  <2> QED
    BY <1>2, <1>3, <2>1, AbortType DEF DescribeWith, TypeOK, SendingFrame
<1>4. ASSUME Known(r), r.command \in Operations, Operation(r)
      PROVE  next
  <2>1. r \in Request /\ r.command \in Ids /\ r.network \in Networks \ {"invalid"}
    BY <1>1, <1>4 DEF Known, Request, Operations, Ids
  <2>2. "operating" \in Stages /\ "ready" \in Tasks
    BY DEF Stages, Tasks
  <2> QED
    BY <1>2, <1>4, <2>1, <2>2, AbortType DEF Operation, TypeOK, SendingFrame
<1>5. ASSUME NEW f \in {"protocol_error", "cancelled"}, Abort(f),
             UNCHANGED <<outId, network>>
      PROVE  next
  BY <1>2, <1>5, AbortType DEF TypeOK
<1>6. next
  <2>1. SetupSpecs \subseteq {"valid", "invalid", "none"}
        /\ AuthSpecs \subseteq {"valid", "invalid", "none"}
    BY SessionAssumption
  <2> QED
    BY <1>3, <1>4, <1>5, <2>1 DEF Command
<1> QED
  BY <1>1, <1>6 DEF Command, TypeOK, SendingFrame

\* Each step of the session keeps the types, and with them the output budget.
LEMMA NextTyped == Typed /\ [Next]_vars => Typed'
<1> USE DEF hostVars, stdoutVars, outputVars, sendVars, provVars
<1> SUFFICES ASSUME TypeOK, SendingFrame, [Next]_vars
             PROVE  TypeOK' /\ SendingFrame'
  BY DEF Typed
<1>1. ASSUME NEW f \in HostFrames, HostWrites(f) PROVE TypeOK' /\ SendingFrame'
  BY <1>1 DEF HostWrites, TypeOK, SendingFrame
<1>2. CASE HostClosesStdin \/ HostClosesStdout
  BY <1>2 DEF HostClosesStdin, HostClosesStdout, TypeOK, SendingFrame
<1>3. CASE Worker
  <2>1. delivered' = delivered \/ delivered' = delivered + 1
    BY <1>3 DEF Worker, WorkerWrites, WorkerFails
  <2>2. delivered' \in Nat
    BY <2>1 DEF TypeOK
  <2>3. writing' = FALSE /\ (writeFailed' = TRUE \/ writeFailed' = writeFailed)
    BY <1>3 DEF Worker, WorkerWrites, WorkerFails
  <2> QED
    BY <1>3, <2>2, <2>3 DEF Worker, WorkerWrites, WorkerFails, TypeOK, SendingFrame
<1>4. CASE FactoryReturns \/ CallFactory
  BY <1>4 DEF FactoryReturns, CallFactory, Tasks, TypeOK, SendingFrame
<1>5. CASE ProviderFails
  <2>1. PICK code \in ProviderCodes : Abort(code)
    BY <1>5 DEF ProviderFails
  <2>2. code \in Failures
    BY DEF Failures, Codes
  <2> QED
    BY <1>5, <2>1, <2>2, AbortType DEF ProviderFails, TypeOK, SendingFrame
<1>6. CASE CheckReturns
  <2>1. Event("health") \in OutFrame
    BY EventType DEF Events, Answers
  <2> QED
    BY <1>6, <2>1, BeginType DEF CheckReturns, ControlSize, TypeOK, SendingFrame
<1>7. ASSUME NEW s \in Snapshots, DiscoverReturns(s) PROVE TypeOK' /\ SendingFrame'
  <2>1. s \in Snapshot /\ "internal" \in Failures
    BY SessionAssumption DEF Failures, Codes
  <2> QED
    BY <1>7, <2>1, AbortType DEF DiscoverReturns, Tasks, TypeOK, SendingFrame
<1>8. ASSUME NEW size \in RecordSizes, EmitRecord(size) PROVE TypeOK' /\ SendingFrame'
  <2>1. Event("record") \in OutFrame /\ size \in Nat
    BY EventType, SessionAssumption DEF Events
  <2> QED
    BY <1>8, <2>1, BeginType DEF EmitRecord, TypeOK, SendingFrame
<1>9. CASE EmitComplete
  <2>1. Event("complete") \in OutFrame /\ snapshot.records \in Nat
    BY EventType DEF Events, Answers, TypeOK, Snapshot
  <2>2. [Event("complete") EXCEPT !.count = snapshot.records] \in OutFrame
    BY <2>1 DEF OutFrame
  <2> QED
    BY <1>9, <2>2, BeginType DEF EmitComplete, ControlSize, TypeOK, SendingFrame
<1>10. CASE AcceptFrame
  <2>1. pending \in OutFrame
    BY <1>10 DEF AcceptFrame, SendingFrame
  <2>2. handed' \in Seq(OutFrame)
    BY <1>10, <2>1 DEF AcceptFrame, TypeOK
  <2> QED
    BY <1>10, <2>1, <2>2 DEF AcceptFrame, TypeOK, SendingFrame
<1>11. CASE Flushed
  BY <1>11 DEF Flushed, Stages, TypeOK, SendingFrame
<1>12. CASE WriteError \/ WriteTimeout
  <2>1. "unavailable" \in Failures
    BY DEF Failures, Codes
  <2> QED
    BY <1>12, <2>1, AbortType DEF WriteError, WriteTimeout, TypeOK, SendingFrame
<1>13. CASE ReadChunk
  <2>1. PICK n \in 1 .. Len(stdin) :
          /\ buffered' = SubSeq(stdin, 1, n)
          /\ stdin' = SubSeq(stdin, n + 1, Len(stdin))
    BY <1>13 DEF ReadChunk
  <2>2. buffered' \in Seq(HostFrames) /\ stdin' \in Seq(HostFrames)
    BY <2>1 DEF TypeOK
  <2> QED
    BY <1>13, <2>2 DEF ReadChunk, TypeOK, SendingFrame
<1>14. CASE InputEnds \/ InputTimeout \/ Deadline
  <2>1. {"protocol_error", "unavailable"} \subseteq Failures
    BY DEF Failures, Codes
  <2> QED
    BY <1>14, <2>1, AbortType DEF InputEnds, InputTimeout, Deadline, TypeOK, SendingFrame
<1>15. CASE Hello
  <2> DEFINE r == Parse(Head(buffered))
  <2>1. r \in Request \cup {Refused} /\ buffered' \in Seq(HostFrames)
    BY <1>15, ParsedType DEF Hello
  <2>2. contract' \in Contracts
    BY <1>15, <2>1 DEF Hello, TypeOK, Request
  <2>3. "protocol_error" \in Failures /\ "greeting" \in Stages
    BY DEF Failures, Codes, Stages
  <2>4. CASE r.command = "handshake" /\ (r.features => NetworkEnabled)
    <3>1. /\ hello' = r /\ stage' = "greeting"
          /\ UNCHANGED <<pending, sendStage, failure, task>>
      BY <1>15, <2>4 DEF Hello
    <3>2. r \in Request
      BY <2>1, <2>4 DEF Refused
    <3> QED
      BY <1>15, <2>1, <2>2, <2>3, <3>1, <3>2 DEF Hello, TypeOK, SendingFrame
  <2>5. CASE ~(r.command = "handshake" /\ (r.features => NetworkEnabled))
    <3>1. Abort("protocol_error") /\ UNCHANGED hello
      BY <1>15, <2>5 DEF Hello
    <3> QED
      BY <1>15, <2>1, <2>2, <2>3, <3>1, AbortType DEF Hello, TypeOK, SendingFrame
  <2> QED
    BY <2>4, <2>5
<1>16. CASE Greet
  <2>1. Event("handshake") \in OutFrame
    BY EventType DEF Events
  <2>2. hello.features \in BOOLEAN
    BY HelloFeatures
  <2>3. [Event("handshake") EXCEPT !.features = hello.features] \in OutFrame
    BY <2>1, <2>2 DEF OutFrame
  <2> QED
    BY <1>16, <2>3, BeginType DEF Greet, ControlSize, TypeOK, SendingFrame
<1>17. CASE Command
  BY <1>17, CommandTyped
<1>18. CASE Describe
  <2>1. Event(IF outId = "describe" THEN "setup" ELSE "auth") \in OutFrame
    BY EventType DEF Events, Answers
  <2> QED
    BY <1>18, <2>1, BeginType DEF Describe, ControlSize, TypeOK, SendingFrame
<1>19. CASE Interrupt
  <2>1. buffered' \in Seq(HostFrames) /\ {"cancelled", "protocol_error"} \subseteq Failures
    BY <1>19, ParsedType DEF Interrupt, Failures, Codes
  <2>2. PICK f \in {"cancelled", "protocol_error"} : Abort(f)
    BY <1>19 DEF Interrupt
  <2> QED
    BY <1>19, <2>1, <2>2, AbortType DEF Interrupt, TypeOK, SendingFrame
<1>20. CASE Report
  <2> DEFINE frame == IF failure = "cancelled"
                      THEN [Event("cancelled") EXCEPT !.id = "cancel"]
                      ELSE [Event("error") EXCEPT !.code = failure]
  <2>1. Event("cancelled") \in OutFrame /\ Event("error") \in OutFrame
    BY EventType DEF Events
  <2>2. "cancel" \in Ids /\ (failure # "cancelled" => failure \in Codes)
    BY DEF TypeOK, Ids, Failures
  <2>3. frame \in OutFrame
    BY <2>1, <2>2 DEF OutFrame
  <2>4. Begin(frame, ControlSize) /\ outId' \in Ids
    BY <1>20, <2>2 DEF Report, TypeOK
  <2> QED
    BY <1>20, <2>3, <2>4, BeginType DEF Report, ControlSize, TypeOK, SendingFrame
<1>21. CASE UNCHANGED vars
  BY <1>21 DEF vars, TypeOK, SendingFrame
<1> QED
  BY <1>1, <1>2, <1>3, <1>4, <1>5, <1>6, <1>7, <1>8, <1>9, <1>10, <1>11, <1>12,
     <1>13, <1>14, <1>15, <1>16, <1>17, <1>18, <1>19, <1>20, <1>21
  DEF Next, Host, Provider, Runtime, Send, Input, Operate, Emit

\* In every session all variables have their types, the output never exceeds its
\* budget, and only whole, well-formed frames are ever handed to stdout.
THEOREM TypeCorrect == Spec => []TypeOK
<1>1. Spec => []Typed
  BY InitTyped, NextTyped, PTL DEF Spec
<1>2. Typed => TypeOK
  BY DEF Typed
<1> QED
  BY <1>1, <1>2, PTL

-----------------------------------------------------------------------------
(***************************************************************************)
(* The factory.  What the session knows when it calls it was established   *)
(* three waits earlier: the invariant carries it from the first frame, by  *)
(* stage, to the call.                                                     *)
(***************************************************************************)
Handshake == [Event("handshake") EXCEPT !.features = hello.features]

\* Until the reply to the handshake is flushed, at most that frame was handed
\* over, and the worker is in one of three states with it.
Greeting ==
  /\ stage = "hello" => sendStage = "idle"
  /\ stage \in {"hello", "greeting"} /\ sendStage \in {"idle", "accept"} =>
       handed = <<>> /\ delivered = 0 /\ ~writing /\ ~writeFailed
  /\ stage = "greeting" /\ sendStage = "accept" => pending = Handshake
  /\ stage = "greeting" /\ sendStage = "flush" =>
       /\ handed = <<Handshake>>
       /\ \/ writing /\ ~writeFailed /\ delivered = 0
          \/ ~writing /\ writeFailed
          \/ ~writing /\ ~writeFailed /\ delivered = 1

Greeted ==
  stage \in {"command", "describing", "operating"} \/ task # "none" =>
    /\ Len(handed) >= 1 /\ delivered >= 1
    /\ handed[1].event = "handshake" /\ handed[1].features = hello.features

Agreed ==
  task # "none" =>
    /\ contract = "negotiated_v1"
    /\ hello.operation \in Operations
    /\ outId \in {hello.operation, "cancel"}
    /\ network \in {"absent", "valid"}
    /\ hello.features = (network # "absent")

CalledOnce ==
  /\ stage \in {"hello", "greeting", "command", "describing"} => task = "none"
  /\ calls \in {0, 1}
  /\ task \in {"none", "ready"} => calls = 0

Negotiating == Greeting /\ Greeted /\ Agreed /\ CalledOnce

\* Only the negotiated contract has operations (request.rs 152-166).
LEMMA OperationContract ==
  ASSUME NEW w \in Frames, Parse(w) # Refused, Parse(w).command \in Operations
  PROVE  Parse(w).contract = "negotiated_v1"
<1>1. w.method # "garbage" /\ EnvelopeOK(w) /\ CommandOK(w)
  BY DEF Parse
<1>2. Parse(w).command = w.method /\ Parse(w).contract = ContractOf(w)
  BY <1>1 DEF Parse
<1> QED
  BY <1>1, <1>2 DEF CommandOK, Operations

LEMMA InitNegotiating == Init => Negotiating
BY DEF Init, Negotiating, Greeting, Greeted, Agreed, CalledOnce

\* The second frame starts an operation only if the handshake agreed to it.
LEMMA CommandNegotiating ==
  ASSUME TypeOK, Negotiating, Command
  PROVE  Negotiating'
<1> USE DEF Negotiating, Greeting, Greeted, Agreed, CalledOnce, hostVars, stdoutVars,
            sendVars
<1> DEFINE r == Parse(Head(buffered))
<1>1. /\ stage = "command" /\ task = "none" /\ calls = 0
      /\ Len(handed) >= 1 /\ delivered >= 1
      /\ handed[1].event = "handshake" /\ handed[1].features = hello.features
      /\ UNCHANGED <<handed, delivered, writing, writeFailed, contract, hello, calls>>
  BY DEF Command
<1>2. ASSUME NEW f, Abort(f) PROVE Negotiating'
  BY <1>1, <1>2 DEF Abort
<1>3. ASSUME NEW id, NEW spec, DescribeWith(id, spec) PROVE Negotiating'
  BY <1>1, <1>2, <1>3 DEF DescribeWith
<1>4. ASSUME Known(r), r.command \in Operations, NetworkAgrees(r), Operation(r)
      PROVE  Negotiating'
  <2>1. CASE Negotiated(r)
    <3>1. Head(buffered) \in Frames
      BY SessionAssumption DEF Command, TypeOK
    <3>2. contract = "negotiated_v1"
      BY <1>4, <3>1, OperationContract DEF Known
    <3>3. r \in Request /\ r.network \in Networks \ {"invalid"}
      BY <1>4, ParsedType DEF Known, Command, Request
    <3>4. /\ stage' = "operating" /\ task' = "ready" /\ network' = r.network
          /\ outId' = hello.operation /\ hello.operation \in Operations
          /\ network' \in {"absent", "valid"}
          /\ hello.features = (network' # "absent")
      <4>1. /\ stage' = "operating" /\ task' = "ready" /\ network' = r.network
            /\ outId' = r.command /\ r.command = hello.operation
            /\ r.network # "unloadable"
        BY <1>4, <2>1 DEF Operation, Negotiated
      <4>2. hello.features \in BOOLEAN
        BY HelloFeatures
      <4> QED
        BY <1>4, <3>3, <4>1, <4>2 DEF NetworkAgrees, Networks
    <3> QED
      BY <1>1, <3>2, <3>4
  <2>2. CASE ~Negotiated(r)
    BY <1>2, <1>4, <2>2 DEF Operation
  <2> QED
    BY <2>1, <2>2
<1> QED
  BY <1>2, <1>3, <1>4 DEF Command

LEMMA NextNegotiating == Typed /\ Negotiating /\ [Next]_vars => Negotiating'
<1> USE DEF hostVars, stdoutVars, outputVars, sendVars, provVars
<1> SUFFICES ASSUME TypeOK, SendingFrame, Negotiating, [Next]_vars
             PROVE  Negotiating'
  BY DEF Typed
<1> USE DEF Negotiating, Greeting, Greeted, Agreed, CalledOnce, Handshake, Event
<1>1. ASSUME NEW f \in HostFrames, HostWrites(f) PROVE Negotiating'
  BY <1>1 DEF HostWrites
<1>2. CASE HostClosesStdin \/ HostClosesStdout
  BY <1>2 DEF HostClosesStdin, HostClosesStdout
<1>3. CASE Worker
  BY <1>3 DEF Worker, WorkerWrites, WorkerFails, TypeOK
<1>4. CASE FactoryReturns \/ CallFactory
  BY <1>4 DEF FactoryReturns, CallFactory, Operating
<1>5. CASE ProviderFails
  BY <1>5 DEF ProviderFails, Abort, Operating
<1>6. CASE CheckReturns
  BY <1>6 DEF CheckReturns, Begin, Abort, Operating
<1>7. ASSUME NEW s \in Snapshots, DiscoverReturns(s) PROVE Negotiating'
  BY <1>7 DEF DiscoverReturns, Abort, Operating
<1>8. ASSUME NEW size \in RecordSizes, EmitRecord(size) PROVE Negotiating'
  BY <1>8 DEF EmitRecord, Begin, Abort, Operating
<1>9. CASE EmitComplete
  BY <1>9 DEF EmitComplete, Begin, Abort, Operating
<1>10. CASE AcceptFrame
  <2>1. /\ handed \in Seq(OutFrame) /\ pending \in OutFrame
        /\ handed' = Append(handed, pending)
    BY <1>10 DEF AcceptFrame, TypeOK, SendingFrame
  <2>2. /\ Len(handed') = Len(handed) + 1
        /\ handed = <<>> => handed' = <<pending>>
        /\ Len(handed) >= 1 => handed'[1] = handed[1]
    BY <2>1, AppendFrame
  <2>3. Len(handed) \in Nat
    BY <2>1
  <2>4. CASE stage = "greeting"
    BY <1>10, <2>2, <2>4 DEF AcceptFrame, TypeOK
  <2>5. CASE stage # "greeting"
    BY <1>10, <2>2, <2>3, <2>5 DEF AcceptFrame
  <2> QED
    BY <2>4, <2>5
<1>11. CASE Flushed
  <2>1. /\ sendStage = "flush" /\ ~writing /\ ~writeFailed
        /\ sendStage' = "idle"
        /\ UNCHANGED <<handed, delivered, writing, writeFailed, hello, contract, outId,
                       calls, network, task>>
    BY <1>11 DEF Flushed, WorkerIdle
  <2>2. CASE stage = "greeting"
    <3>1. stage' = "command"
      BY <1>11, <2>2 DEF Flushed
    <3>2. handed = <<Handshake>> /\ delivered = 1
      BY <2>1, <2>2
    <3>3. Len(handed) = 1 /\ handed[1] = Handshake
      BY <3>2
    <3>4. handed[1].event = "handshake" /\ handed[1].features = hello.features
      BY <3>3
    <3> QED
      BY <2>1, <2>2, <3>1, <3>2, <3>3, <3>4
  <2>3. CASE stage # "greeting"
    <3>1. stage' = stage \/ stage' \in {"ok", "failed"}
      BY <1>11, <2>3 DEF Flushed
    <3> QED
      BY <2>1, <2>3, <3>1
  <2> QED
    BY <2>2, <2>3
<1>12. CASE WriteError \/ WriteTimeout
  BY <1>12 DEF WriteError, WriteTimeout, Abort
<1>13. CASE ReadChunk
  BY <1>13 DEF ReadChunk
<1>14. CASE InputEnds \/ InputTimeout \/ Deadline
  BY <1>14 DEF InputEnds, InputTimeout, Deadline, Abort
<1>15. CASE Hello
  BY <1>15 DEF Hello, Abort
<1>16. CASE Greet
  BY <1>16 DEF Greet, Begin, Abort
<1>17. CASE Command
  BY <1>17, CommandNegotiating
<1>18. CASE Describe
  BY <1>18 DEF Describe, Begin, Abort
<1>19. CASE Interrupt
  BY <1>19 DEF Interrupt, Abort
<1>20. CASE Report
  BY <1>20 DEF Report, Begin, Abort
<1>21. CASE UNCHANGED vars
  BY <1>21 DEF vars
<1> QED
  BY <1>1, <1>2, <1>3, <1>4, <1>5, <1>6, <1>7, <1>8, <1>9, <1>10, <1>11, <1>12,
     <1>13, <1>14, <1>15, <1>16, <1>17, <1>18, <1>19, <1>20, <1>21
  DEF Next, Host, Provider, Runtime, Send, Input, Operate, Emit

\* In every session, whatever the host sends and however stdout behaves, the
\* factory gets the credentials at most once, for what was negotiated, and only
\* after the host's pipe has taken the reply to the handshake.
THEOREM FactoryOnlyAfterNegotiation == Spec => []FactoryAfterNegotiation
<1>1. Spec => []Typed
  BY InitTyped, NextTyped, PTL DEF Spec
<1>2. Spec => []Negotiating
  BY <1>1, InitNegotiating, NextNegotiating, PTL DEF Spec
<1>3. Typed /\ Negotiating => FactoryAfterNegotiation
  BY DEF Typed, TypeOK, Negotiating, Greeted, Agreed, CalledOnce, FactoryAfterNegotiation
<1> QED
  BY <1>1, <1>2, <1>3, PTL

-----------------------------------------------------------------------------
(***************************************************************************)
(* The end of a session.  That what was flushed has reached the host, and  *)
(* what it was, is carried from the send to the exit code.                 *)
(***************************************************************************)
\* While the host reads, all that was handed over is in the pipe but for what the
\* worker is writing; a flush returns when it is done.
Piped ==
  /\ ~stdoutClosed => /\ ~writeFailed
                      /\ Len(handed) = IF writing THEN delivered + 1 ELSE delivered
  /\ sendStage = "flush" /\ ~writing /\ ~writeFailed => delivered = Len(handed)

\* What may be in send at each wait.
Sending ==
  /\ stage \in {"hello", "command", "ok", "failed"} => sendStage = "idle"
  /\ sendStage # "idle" =>
       /\ stage = "describing" => pending.event \in {"setup", "auth"}
       /\ stage = "operating" => pending.event \in {"record", "health", "complete"}
       /\ stage = "operating" /\ pending.event = "complete" =>
            sent = snapshot.records /\ snapshot.sound
       /\ stage = "closing" =>
            pending.event = IF failure = "cancelled" THEN "cancelled" ELSE "error"
  /\ sendStage = "flush" => Len(handed) >= 1 /\ handed[Len(handed)] = pending
  /\ task = "emit" => snapshot.sound

\* Between the reply to the handshake and what is being flushed there are records.
Recorded ==
  /\ stage = "command" => Len(handed) = 1
  /\ stage = "operating" =>
       \A i \in 2 .. IF sendStage = "flush" THEN Len(handed) - 1 ELSE Len(handed) :
         handed[i].event = "record"

Delivering == Piped /\ Sending /\ Recorded /\ CleanExit

LEMMA InitDelivering == Init => Delivering
BY DEF Init, Delivering, Piped, Sending, Recorded, CleanExit

\* A step that drops what was being sent, or leaves it alone.
LEMMA AbortDelivering ==
  ASSUME TypeOK, Delivering, NEW f, Abort(f), Running, UNCHANGED <<stdoutVars, stdoutClosed>>
  PROVE  Delivering'
<1> USE DEF stdoutVars
<1>1. stage' \in {"closing", "failed"} /\ sendStage' = "idle" /\ task' \in {"none", "dropped"}
  BY DEF Abort
<1> QED
  BY <1>1 DEF Delivering, Piped, Sending, Recorded, CleanExit

LEMMA BeginDelivering ==
  ASSUME TypeOK, Delivering, NEW frame \in OutFrame, NEW size, Begin(frame, size),
         stage \in {"greeting", "describing", "operating", "closing"}, sendStage = "idle",
         UNCHANGED <<stdoutVars, stdoutClosed, sent, snapshot>>,
         stage = "describing" => frame.event \in {"setup", "auth"},
         stage = "operating" => frame.event \in {"record", "health", "complete"},
         frame.event = "complete" => sent = snapshot.records /\ snapshot.sound,
         stage = "closing" => frame.event = IF failure = "cancelled" THEN "cancelled" ELSE "error"
  PROVE  Delivering'
<1>1. CASE Fits(size)
  <2>1. /\ pending' = frame /\ sendStage' = "accept" /\ UNCHANGED <<stage, failure, task>>
        /\ UNCHANGED <<handed, delivered, writing, writeFailed, stdoutClosed>>
    BY <1>1 DEF Begin, stdoutVars
  <2>2. Piped' /\ CleanExit'
    BY <2>1 DEF Delivering, Piped, CleanExit
  <2>3. Sending'
    BY <2>1 DEF Delivering, Sending
  <2>4. Recorded'
    BY <2>1 DEF Delivering, Recorded
  <2> QED
    BY <2>2, <2>3, <2>4 DEF Delivering
<1>2. CASE ~Fits(size)
  <2>1. Abort("internal") /\ Running
    BY <1>2 DEF Begin, Running
  <2> QED
    BY <2>1, AbortDelivering
<1> QED
  BY <1>1, <1>2

LEMMA AcceptDelivering ==
  ASSUME Typed, Delivering, AcceptFrame PROVE Delivering'
<1> DEFINE n == Len(handed)
<1>1. /\ handed \in Seq(OutFrame) /\ pending \in OutFrame /\ delivered \in Nat
      /\ handed' = Append(handed, pending) /\ writing' = TRUE /\ sendStage' = "flush"
      /\ ~writing /\ ~writeFailed /\ sendStage = "accept"
      /\ UNCHANGED <<stdoutClosed, delivered, writeFailed, stage, failure, pending, task, sent,
                     snapshot>>
  BY DEF AcceptFrame, Typed, TypeOK, SendingFrame, WorkerIdle, hostVars, provVars
<1>2. /\ n \in Nat /\ Len(handed') = n + 1 /\ handed'[n + 1] = pending
      /\ \A i \in 1 .. n : handed'[i] = handed[i]
  BY <1>1
<1> HIDE DEF n
<1>3. Piped'
  <2>1. ~stdoutClosed => n = delivered
    BY <1>1 DEF Delivering, Piped, n
  <2> QED
    BY <1>1, <1>2, <2>1 DEF Delivering, Piped
<1>4. Sending'
  BY <1>1, <1>2 DEF Delivering, Sending
<1>5. Recorded'
  <2>1. stage' # "command"
    BY <1>1 DEF Delivering, Sending
  <2>2. ASSUME stage = "operating", NEW i \in 2 .. n PROVE handed'[i].event = "record"
    BY <1>1, <1>2, <2>2 DEF Delivering, Recorded, n
  <2>3. 2 .. Len(handed') - 1 = 2 .. n
    BY <1>2
  <2> QED
    BY <1>1, <2>1, <2>2, <2>3 DEF Recorded
<1>6. CleanExit'
  BY <1>1 DEF Delivering, Sending, CleanExit
<1> QED
  BY <1>3, <1>4, <1>5, <1>6 DEF Delivering

LEMMA FlushDelivering ==
  ASSUME Typed, Negotiating, Delivering, Flushed PROVE Delivering'
<1>1. /\ sendStage = "flush" /\ ~writing /\ ~writeFailed /\ sendStage' = "idle"
      /\ stage \in Stages \ {"hello", "command", "ok", "failed"}
      /\ UNCHANGED <<stdoutClosed, handed, delivered, writing, writeFailed, failure, task,
                     snapshot>>
      /\ delivered = Len(handed) /\ handed[delivered] = pending /\ delivered >= 1
      /\ delivered \in Nat
  BY DEF Flushed, Typed, TypeOK, WorkerIdle, Delivering, Piped, Sending, hostVars, stdoutVars
<1>2. Piped'
  BY <1>1 DEF Delivering, Piped
<1>3. CASE stage = "greeting"
  <2>1. stage' = "command" /\ handed = <<Handshake>>
    BY <1>1, <1>3 DEF Flushed, Negotiating, Greeting
  <2>2. Len(handed') = 1
    BY <1>1, <2>1
  <2>3. Sending'
    BY <1>1, <2>1 DEF Sending, Delivering
  <2>4. Recorded' /\ CleanExit'
    BY <2>1, <2>2 DEF Recorded, CleanExit
  <2> QED
    BY <1>2, <2>3, <2>4 DEF Delivering
<1>4. CASE stage = "describing"
  <2>1. stage' = "ok" /\ pending.event \in {"setup", "auth"}
    BY <1>1, <1>4 DEF Flushed, Delivering, Sending
  <2> QED
    BY <1>1, <1>2, <2>1 DEF Delivering, Sending, Recorded, CleanExit, Answers
<1>5. CASE stage = "closing"
  <2>1. CASE failure = "cancelled"
    <3>1. stage' = "ok" /\ pending.event = "cancelled"
      BY <1>1, <1>5, <2>1 DEF Flushed, Delivering, Sending
    <3> QED
      BY <1>1, <1>2, <3>1 DEF Delivering, Sending, Recorded, CleanExit, Answers
  <2>2. CASE failure # "cancelled"
    <3>1. stage' = "failed"
      BY <1>5, <2>2 DEF Flushed
    <3> QED
      BY <1>1, <1>2, <3>1 DEF Delivering, Sending, Recorded, CleanExit
  <2> QED
    BY <2>1, <2>2
<1>6. CASE stage = "operating" /\ pending.event = "record"
  <2>1. stage' = "operating"
    BY <1>6 DEF Flushed
  <2>2. Sending'
    BY <1>1, <2>1 DEF Delivering, Sending
  <2>3. Recorded'
    <3>1. ASSUME NEW i \in 2 .. Len(handed) PROVE handed[i].event = "record"
      <4>1. CASE i = Len(handed)
        BY <1>1, <1>6, <4>1
      <4>2. CASE i # Len(handed)
        <5>1. i \in 2 .. Len(handed) - 1
          BY <1>1, <4>2
        <5> QED
          BY <1>1, <1>6, <5>1 DEF Delivering, Recorded
      <4> QED
        BY <4>1, <4>2
    <3> QED
      BY <1>1, <2>1, <3>1 DEF Recorded
  <2> QED
    BY <1>2, <2>1, <2>2, <2>3 DEF Delivering, CleanExit
<1>7. CASE stage = "operating" /\ pending.event # "record"
  <2>1. stage' = "ok" /\ sent' = sent /\ pending.event \in {"health", "complete"}
    BY <1>1, <1>7 DEF Flushed, Delivering, Sending
  <2>2. pending.event = "complete" => sent' = snapshot'.records /\ snapshot'.sound
    BY <1>1, <1>7, <2>1 DEF Delivering, Sending
  <2>3. \A i \in 2 .. delivered - 1 : handed[i].event = "record"
    BY <1>1, <1>7 DEF Delivering, Recorded
  <2>4. CleanExit'
    BY <1>1, <2>1, <2>2, <2>3 DEF CleanExit, Answers
  <2> QED
    BY <1>1, <1>2, <2>1, <2>4 DEF Delivering, Sending, Recorded
<1> QED
  BY <1>1, <1>3, <1>4, <1>5, <1>6, <1>7 DEF Stages

\* The second frame: an operation starts with nothing but the handshake written.
LEMMA CommandDelivering ==
  ASSUME TypeOK, Delivering, Command PROVE Delivering'
<1>1. /\ stage = "command" /\ sendStage = "idle" /\ Len(handed) = 1 /\ Running
      /\ UNCHANGED <<stdoutVars, stdoutClosed, handed, delivered, writing, writeFailed, sent,
                     snapshot>>
  BY DEF Command, Delivering, Sending, Recorded, Running, hostVars, stdoutVars
<1>2. ASSUME NEW f, Abort(f) PROVE Delivering'
  BY <1>1, <1>2, AbortDelivering
<1>3. ASSUME stage' \in {"describing", "operating"}, UNCHANGED <<sendVars, failure>>,
             task' \in {task, "ready"}
      PROVE  Delivering'
  <2>1. Piped' /\ CleanExit'
    BY <1>1, <1>3 DEF Delivering, Piped, CleanExit, sendVars
  <2>2. Sending'
    BY <1>1, <1>3 DEF Delivering, Sending, sendVars
  <2>3. Recorded'
    <3>1. stage' # "command" /\ sendStage' = "idle" /\ Len(handed') = 1
      BY <1>1, <1>3 DEF sendVars
    <3>2. 2 .. Len(handed') = {}
      BY <3>1
    <3> QED
      BY <3>1, <3>2 DEF Recorded
  <2> QED
    BY <2>1, <2>2, <2>3 DEF Delivering
<1> QED
  BY <1>2, <1>3 DEF Command, DescribeWith, Operation

LEMMA NextDelivering == Typed /\ Negotiating /\ Delivering /\ [Next]_vars => Delivering'
<1> USE DEF hostVars, stdoutVars, outputVars, sendVars, provVars
<1> SUFFICES ASSUME Typed, TypeOK, Negotiating, Delivering, [Next]_vars
             PROVE  Delivering'
  BY DEF Typed
<1> USE DEF Delivering
<1>1. CASE (\E f \in HostFrames : HostWrites(f)) \/ HostClosesStdin \/ UNCHANGED vars
  BY <1>1 DEF HostWrites, HostClosesStdin, vars, Piped, Sending, Recorded, CleanExit
<1>2. CASE HostClosesStdout
  BY <1>2 DEF HostClosesStdout, Piped, Sending, Recorded, CleanExit
<1>3. CASE Worker
  <2>1. /\ writing /\ writing' = FALSE
        /\ \/ ~stdoutClosed /\ delivered' = delivered + 1 /\ UNCHANGED writeFailed
           \/ stdoutClosed /\ delivered' = delivered /\ writeFailed' = TRUE
        /\ UNCHANGED <<stdoutClosed, handed, stage, sendStage, pending, failure, task, sent,
                       snapshot>>
    BY <1>3 DEF Worker, WorkerWrites, WorkerFails
  <2>2. stage # "ok"
    BY <2>1 DEF CleanExit
  <2>3. Piped' /\ CleanExit'
    BY <2>1, <2>2 DEF Piped, CleanExit
  <2> QED
    BY <2>1, <2>3 DEF Sending, Recorded
<1>4. CASE FactoryReturns \/ CallFactory \/ ReadChunk
  BY <1>4 DEF FactoryReturns, CallFactory, ReadChunk, Piped, Sending, Recorded, CleanExit
<1>5. CASE \/ ProviderFails \/ WriteTimeout \/ InputEnds \/ InputTimeout \/ Deadline
           \/ Interrupt
  <2>1. \E f : Abort(f)
    BY <1>5 DEF ProviderFails, WriteTimeout, InputEnds, InputTimeout, Deadline, Interrupt
  <2>2. Running
    BY <1>5 DEF ProviderFails, WriteTimeout, InputEnds, InputTimeout, Deadline, Interrupt,
                Operating, Reading, Running, Sending
  <2>3. UNCHANGED <<stdoutVars, stdoutClosed>>
    BY <1>5 DEF ProviderFails, WriteTimeout, InputEnds, InputTimeout, Deadline, Interrupt
  <2> QED
    BY <2>1, <2>2, <2>3, AbortDelivering
<1>6. CASE WriteError
  <2>1. stage # "ok" /\ stage # "failed" /\ stdoutClosed
    BY <1>6 DEF WriteError, Sending, Piped
  <2>2. /\ stage' \in {"closing", "failed"} /\ sendStage' = "idle"
        /\ task' \in {"none", "dropped"} /\ UNCHANGED <<stdoutClosed, handed, delivered>>
    BY <1>6 DEF WriteError, Abort
  <2> QED
    BY <2>1, <2>2 DEF Piped, Sending, Recorded, CleanExit
<1>7. CASE CheckReturns
  <2>1. Event("health") \in OutFrame /\ Event("health").event = "health"
    BY EventType DEF Events, Answers, Event
  <2> QED
    BY <1>7, <2>1, BeginDelivering DEF CheckReturns, Operating
<1>8. ASSUME NEW s \in Snapshots, DiscoverReturns(s) PROVE Delivering'
  <2>1. CASE s.sound /\ s.records <= MaxRecords
    <3>1. /\ snapshot' = s /\ stage = "operating" /\ sendStage = "idle"
          /\ UNCHANGED <<stdoutVars, stdoutClosed, stage, pending, sendStage, failure, sent>>
      BY <1>8, <2>1 DEF DiscoverReturns, Operating
    <3> QED
      BY <2>1, <3>1 DEF Piped, Sending, Recorded, CleanExit
  <2>2. CASE ~(s.sound /\ s.records <= MaxRecords)
    <3>1. Abort("internal") /\ Running /\ UNCHANGED <<stdoutVars, stdoutClosed>>
      BY <1>8, <2>2 DEF DiscoverReturns, Operating, Running
    <3> QED
      BY <3>1, AbortDelivering
  <2> QED
    BY <2>1, <2>2
<1>9. ASSUME NEW size \in RecordSizes, EmitRecord(size) PROVE Delivering'
  <2>1. Event("record") \in OutFrame /\ Event("record").event = "record"
    BY EventType DEF Events, Event
  <2> QED
    BY <1>9, <2>1, BeginDelivering DEF EmitRecord, Operating
<1>10. CASE EmitComplete
  <2> DEFINE frame == [Event("complete") EXCEPT !.count = snapshot.records]
  <2>1. frame \in OutFrame /\ frame.event = "complete"
    <3>1. Event("complete") \in OutFrame /\ snapshot.records \in Nat
      BY EventType DEF Events, Answers, TypeOK, Snapshot
    <3> QED
      BY <3>1 DEF OutFrame, Event
  <2>2. snapshot.sound /\ sent = snapshot.records
    BY <1>10 DEF EmitComplete, Sending
  <2> QED
    BY <1>10, <2>1, <2>2, BeginDelivering DEF EmitComplete, Operating
<1>11. CASE AcceptFrame
  BY <1>11, AcceptDelivering
<1>12. CASE Flushed
  BY <1>12, FlushDelivering
<1>13. CASE Hello
  <2>1. stage = "hello" /\ sendStage = "idle" /\ UNCHANGED <<stdoutVars, stdoutClosed, snapshot, sent>>
    BY <1>13 DEF Hello, Sending
  <2>2. \/ stage' = "greeting" /\ UNCHANGED <<sendVars, failure, task>>
        \/ Abort("protocol_error")
    BY <1>13 DEF Hello
  <2>3. CASE stage' = "greeting" /\ UNCHANGED <<sendVars, failure, task>>
    BY <2>1, <2>3 DEF Piped, Sending, Recorded, CleanExit
  <2> QED
    BY <2>1, <2>2, <2>3, AbortDelivering DEF Running
<1>14. CASE Greet
  <2> DEFINE frame == [Event("handshake") EXCEPT !.features = hello.features]
  <2>1. frame \in OutFrame /\ frame.event = "handshake"
    <3>1. Event("handshake") \in OutFrame /\ hello.features \in BOOLEAN
      BY EventType, HelloFeatures DEF Events
    <3> QED
      BY <3>1 DEF OutFrame, Event
  <2> QED
    BY <1>14, <2>1, BeginDelivering DEF Greet
<1>15. CASE Command
  BY <1>15, CommandDelivering
<1>16. CASE Describe
  <2> DEFINE frame == Event(IF outId = "describe" THEN "setup" ELSE "auth")
  <2>1. frame \in OutFrame /\ frame.event \in {"setup", "auth"}
    BY EventType DEF Events, Answers, Event
  <2> QED
    BY <1>16, <2>1, BeginDelivering DEF Describe
<1>17. CASE Report
  <2> DEFINE frame == IF failure = "cancelled"
                      THEN [Event("cancelled") EXCEPT !.id = "cancel"]
                      ELSE [Event("error") EXCEPT !.code = failure]
  <2>1. /\ frame \in OutFrame
        /\ frame.event = IF failure = "cancelled" THEN "cancelled" ELSE "error"
    <3>1. Event("cancelled") \in OutFrame /\ Event("error") \in OutFrame
      BY EventType DEF Events
    <3>2. "cancel" \in Ids /\ (failure # "cancelled" => failure \in Codes)
      BY DEF TypeOK, Ids, Failures
    <3> QED
      BY <3>1, <3>2 DEF OutFrame, Event
  <2>2. Begin(frame, ControlSize) /\ stage = "closing" /\ sendStage = "idle"
        /\ UNCHANGED <<stdoutVars, stdoutClosed, sent, snapshot>>
    BY <1>17 DEF Report
  <2> HIDE DEF frame
  <2>3. frame.event # "complete"
    BY <2>1
  <2> QED
    BY <2>1, <2>2, <2>3, BeginDelivering
<1> QED
  BY <1>1, <1>2, <1>3, <1>4, <1>5, <1>6, <1>7, <1>8, <1>9, <1>10, <1>11, <1>12,
     <1>13, <1>14, <1>15, <1>16, <1>17
  DEF Next, Host, Provider, Runtime, Send, Input, Operate, Emit

LEMMA SessionInvariant == Spec => [](Typed /\ Negotiating /\ Delivering)
<1>1. Init => Typed /\ Negotiating /\ Delivering
  BY InitTyped, InitNegotiating, InitDelivering
<1>2. Typed /\ Negotiating /\ Delivering /\ [Next]_vars
        => (Typed /\ Negotiating /\ Delivering)'
  BY NextTyped, NextNegotiating, NextDelivering
<1> QED
  BY <1>1, <1>2, PTL DEF Spec

\* Exit code 0 means that the host has the whole exchange, which ends with an answer
\* or the confirmation of its cancellation, and with all of its records before a
\* complete (response::operation; Output::send flushes, io.rs 119-125).
THEOREM ExitIsClean == Spec => []CleanExit
<1>1. Delivering => CleanExit
  BY DEF Delivering
<1> QED
  BY SessionInvariant, <1>1, PTL

\* A session fails with a report in the pipe, unless stdout is closed or blocked or
\* the output budget is spent (serve_internal, lib.rs 105-127).
THEOREM FailuresAreReported == Spec => FailureIsReported
<1> DEFINE Told == \/ handed # <<>> /\ delivered = Len(handed) /\ handed[delivered].event = "error"
                   \/ stdoutClosed
                   \/ writing
                   \/ ~Fits(ControlSize)
<1>1. Typed /\ Negotiating /\ Delivering /\ [Next]_vars => [stage' = "failed" => Told]_stage
  <2> USE DEF hostVars, stdoutVars, outputVars, sendVars, provVars
  <2> SUFFICES ASSUME TypeOK, Delivering, [Next]_vars, stage' = "failed", stage' # stage
               PROVE  Told
    BY DEF Typed
  <2>1. ASSUME NEW f, Abort(f) PROVE stage = "closing"
    BY <2>1 DEF Abort
  <2>2. CASE Flushed
    <3>1. /\ stage = "closing" /\ failure # "cancelled" /\ sendStage = "flush"
          /\ ~writing /\ ~writeFailed
      BY <2>2 DEF Flushed, WorkerIdle
    <3>2. delivered = Len(handed) /\ Len(handed) >= 1 /\ handed[delivered].event = "error"
      BY <3>1 DEF Delivering, Piped, Sending
    <3> QED
      BY <3>2
  <2>3. CASE WriteError
    BY <2>3 DEF WriteError, Delivering, Piped
  <2>4. CASE WriteTimeout
    BY <2>4 DEF WriteTimeout
  <2>5. CASE Report
    BY <2>5 DEF Report, Begin
  <2>6. CASE \/ Host \/ Worker \/ FactoryReturns \/ CallFactory \/ ReadChunk \/ AcceptFrame
             \/ UNCHANGED vars
    BY <2>6 DEF Host, HostWrites, HostClosesStdin, HostClosesStdout, Worker, WorkerWrites,
                WorkerFails, FactoryReturns, CallFactory, ReadChunk, AcceptFrame, vars
  <2>7. CASE Provider \/ Emit
    BY <2>1, <2>7 DEF Provider, FactoryReturns, ProviderFails, CheckReturns, DiscoverReturns,
                      Emit, EmitRecord, EmitComplete, Operating, Begin
  <2>8. CASE InputEnds \/ InputTimeout \/ Interrupt \/ Deadline \/ Hello
    BY <2>1, <2>8 DEF InputEnds, InputTimeout, Interrupt, Deadline, Hello, Reading
  <2>9. CASE Greet \/ Describe
    BY <2>1, <2>9 DEF Greet, Describe, Begin
  <2>10. CASE Command
    BY <2>1, <2>10 DEF Command, DescribeWith, Operation
  <2> HIDE DEF Told
  <2> QED
    BY <2>2, <2>3, <2>4, <2>5, <2>6, <2>7, <2>8, <2>9, <2>10
    DEF Next, Provider, Runtime, Send, Input, Operate
<1> QED
  BY SessionInvariant, <1>1, PTL DEF Spec, FailureIsReported

-----------------------------------------------------------------------------
(***************************************************************************)
(* Session implements Exchange: whatever the host, stdout, the provider    *)
(* and the clock do, what the process writes and how it exits is a         *)
(* behaviour of the promise made to the host.                              *)
(***************************************************************************)
\* All frames have the contract of the first, which only the first request can change.
OneContract ==
  /\ sendStage # "idle" => pending.contract = contract
  /\ Len(handed) >= 1 => handed[1].contract = contract

\* What was written before an answer: the handshake, and the records sent so far.
Counted ==
  /\ stage \in {"hello", "greeting", "command", "describing"} => sent = 0
  /\ stage = "describing" /\ sendStage # "flush" => Len(handed) = 1
  /\ stage = "operating" =>
       /\ Len(handed) = IF sendStage = "flush" THEN sent + 2 ELSE sent + 1
       /\ task # "emit" => sent = 0
  /\ stage = "operating" /\ sendStage # "idle" =>
       /\ pending.event = "record" => task = "emit"
       /\ pending.event = "health" => task # "emit"
       /\ pending.event = "complete" => pending.count = snapshot.records

\* A report is the last frame, and a cancellation is only of an exchange.
Unreported ==
  /\ stage \in {"ok", "failed"} \/ (stage = "closing" /\ sendStage = "flush")
       \/ (Len(handed) >= 1 => handed[Len(handed)].event \notin {"error", "cancelled"})
  /\ stage = "closing" /\ failure = "cancelled" => Len(handed) >= 1

Streaming == OneContract /\ Counted /\ Unreported

\* What is established above.
Exchanging == Typed /\ Negotiating /\ Delivering

LEMMA InitStreaming == Init => Streaming
BY DEF Init, Streaming, OneContract, Counted, Unreported

LEMMA AbortStreaming ==
  ASSUME Exchanging, Streaming, NEW f, Abort(f), Running, UNCHANGED <<handed, contract>>,
         stage = "closing" \/ (f = "cancelled" => Len(handed) >= 1)
  PROVE  Streaming'
<1>1. /\ sendStage' = "idle" /\ stage' \in {"closing", "failed"}
      /\ stage # "closing" => stage' = "closing" /\ failure' = f
      /\ stage = "closing" => stage' = "failed"
  BY DEF Abort
<1>2. OneContract' /\ Counted'
  BY <1>1 DEF Streaming, OneContract, Counted
<1>3. Unreported'
  <2>1. CASE stage = "closing"
    BY <1>1, <2>1 DEF Unreported
  <2>2. CASE stage # "closing"
    BY <1>1, <2>2 DEF Streaming, Unreported, Running
  <2> QED
    BY <2>1, <2>2
<1> QED
  BY <1>2, <1>3 DEF Streaming

LEMMA BeginStreaming ==
  ASSUME Exchanging, Streaming, NEW frame, NEW size, Begin(frame, size), Running,
         sendStage = "idle", UNCHANGED <<handed, contract, sent, snapshot>>,
         frame.contract = contract,
         stage = "operating" /\ frame.event = "record" => task = "emit",
         stage = "operating" /\ frame.event = "health" => task # "emit",
         frame.event = "complete" => frame.count = snapshot.records
  PROVE  Streaming'
<1>1. CASE Fits(size)
  <2>1. pending' = frame /\ sendStage' = "accept" /\ UNCHANGED <<stage, failure, task>>
    BY <1>1 DEF Begin
  <2>2. OneContract'
    BY <2>1 DEF Streaming, OneContract
  <2>3. Counted'
    BY <2>1 DEF Streaming, Counted
  <2>4. Unreported'
    BY <2>1 DEF Streaming, Unreported
  <2> QED
    BY <2>2, <2>3, <2>4 DEF Streaming
<1>2. CASE ~Fits(size)
  <2>1. Abort("internal")
    BY <1>2 DEF Begin
  <2> QED
    BY <2>1, AbortStreaming
<1> QED
  BY <1>1, <1>2

\* What the worker is given is an exchange extended by one frame.
LEMMA AcceptWrites ==
  ASSUME Exchanging, Streaming, AcceptFrame
  PROVE  Ex!Next /\ Streaming'
<1> DEFINE n == Len(handed)
<1>1. /\ handed \in Seq(OutFrame) /\ pending \in OutFrame
      /\ handed' = Append(handed, pending)
      /\ sendStage = "accept" /\ sendStage' = "flush"
      /\ UNCHANGED <<stage, contract, failure, pending, task, sent, snapshot>>
  BY DEF AcceptFrame, Exchanging, Typed, TypeOK, SendingFrame, outputVars, provVars
<1>2. /\ n \in Nat /\ Len(handed') = n + 1 /\ handed'[n + 1] = pending
      /\ \A i \in 1 .. n : handed'[i] = handed[i]
      /\ n = 0 <=> handed = <<>>
  BY <1>1
<1> HIDE DEF n
<1>3. stage \in {"greeting", "describing", "operating", "closing"} /\ Running /\ Running'
  BY <1>1 DEF Exchanging, Typed, TypeOK, Stages, Delivering, Sending, Running
<1>4. pending.contract = contract /\ (n > 0 => handed[1].contract = contract)
  BY <1>1, <1>2 DEF Streaming, OneContract, n
<1>5. /\ stage = "greeting" => n = 0 /\ pending.event = "handshake"
      /\ stage = "describing" => n = 1 /\ pending.event \in {"setup", "auth"}
      /\ stage = "operating" => /\ pending.event \in {"record", "health", "complete"}
                                /\ n = sent + 1 /\ (pending.event = "health" => n = 1)
                                /\ pending.event = "complete" => pending.count = n - 1
      /\ stage = "closing" =>
           pending.event = IF failure = "cancelled" THEN "cancelled" ELSE "error"
  <2>1. stage = "greeting" => n = 0 /\ pending = Handshake
    BY <1>1, <1>2 DEF Exchanging, Negotiating, Greeting
  <2>2. Handshake.event = "handshake"
    BY DEF Handshake, Event
  <2>3. stage = "describing" => n = 1 /\ pending.event \in {"setup", "auth"}
    BY <1>1 DEF Exchanging, Delivering, Sending, Streaming, Counted, n
  <2>4. stage = "operating" =>
          /\ pending.event \in {"record", "health", "complete"} /\ n = sent + 1
          /\ pending.event = "health" => sent = 0
          /\ pending.event = "complete" => pending.count = sent
    BY <1>1 DEF Exchanging, Delivering, Sending, Streaming, Counted, n
  <2>5. sent \in Nat
    BY DEF Exchanging, Typed, TypeOK
  <2>6. stage = "closing" =>
          pending.event = IF failure = "cancelled" THEN "cancelled" ELSE "error"
    BY <1>1 DEF Exchanging, Delivering, Sending
  <2> QED
    BY <2>1, <2>2, <2>3, <2>4, <2>5, <2>6
<1>6. stage \in {"describing", "operating"} =>
        n > 0 /\ handed[n].event \in {"handshake", "record"} /\ (n = 1 => handed[n].event = "handshake")
  <2> SUFFICES ASSUME stage \in {"describing", "operating"}
               PROVE  n > 0 /\ handed[n].event \in {"handshake", "record"}
                      /\ (n = 1 => handed[n].event = "handshake")
    OBVIOUS
  <2>1. n >= 1 /\ handed[1].event = "handshake"
    BY DEF Exchanging, Negotiating, Greeted, n
  <2>2. CASE n = 1
    BY <2>1, <2>2
  <2>3. CASE n # 1
    <3>1. stage = "operating" /\ n \in 2 .. n
      BY <1>2, <1>5, <2>1, <2>3
    <3>2. handed[n].event = "record"
      BY <1>1, <3>1 DEF Exchanging, Delivering, Recorded, n
    <3> QED
      BY <1>2, <2>1, <2>3, <3>2
  <2> QED
    BY <2>2, <2>3
<1>7. stage = "closing" =>
        /\ n > 0 => handed[n].event \notin {"error", "cancelled"}
        /\ pending.event = "cancelled" => n > 0
  BY <1>1, <1>2, <1>5 DEF Streaming, Unreported, n
<1>8. Ex!Extend(pending)
  <2>1. handed # <<>> => pending.contract = handed[1].contract
    BY <1>2, <1>4
  <2>2. (IF Running THEN "open" ELSE stage)' = (IF Running THEN "open" ELSE stage)
    BY <1>1, <1>3
  <2> QED
    BY <1>1, <1>3, <2>1, <2>2 DEF Ex!Extend
<1>9. Ex!Write(pending)
  <2>1. CASE stage = "greeting"
    BY <1>2, <1>5, <1>8, <2>1 DEF Ex!Write, Ex!Open
  <2>2. CASE stage = "describing"
    <3>1. Ex!LastIn({"handshake"})
      BY <1>2, <1>5, <1>6, <2>2 DEF Ex!LastIn, Ex!Last, n
    <3> QED
      BY <1>5, <1>8, <2>2, <3>1 DEF Ex!Write, Ex!Answer
  <2>3. CASE stage = "operating"
    <3>1. /\ Ex!LastIn({"handshake", "record"})
          /\ pending.event = "health" => Ex!LastIn({"handshake"})
      BY <1>2, <1>5, <1>6, <2>3 DEF Ex!LastIn, Ex!Last, n
    <3>2. pending.event = "complete" => pending.count = Len(handed) - 1
      BY <1>5, <2>3 DEF n
    <3> QED
      BY <1>5, <1>8, <2>3, <3>1, <3>2 DEF Ex!Write, Ex!Answer, Ex!Observe
  <2>4. CASE stage = "closing"
    <3>1. ~Ex!LastIn(Ex!Reports)
      BY <1>2, <1>7, <2>4 DEF Ex!LastIn, Ex!Last, Ex!Reports, n
    <3>2. pending.event \in Ex!Reports /\ (pending.event = "cancelled" => handed # <<>>)
      BY <1>2, <1>5, <1>7, <2>4 DEF Ex!Reports
    <3> QED
      BY <1>8, <3>1, <3>2 DEF Ex!Write, Ex!Report
  <2> QED
    BY <1>3, <2>1, <2>2, <2>3, <2>4
<1>10. Ex!Next
  <2>1. Len(handed') > Len(handed) /\ handed'[Len(handed')] = pending
    BY <1>2 DEF n
  <2> QED
    BY <1>9, <2>1 DEF Ex!Next
<1>11. OneContract'
  <2>1. handed'[1].contract = contract
    BY <1>2, <1>4
  <2> QED
    BY <1>1, <1>4, <2>1 DEF OneContract
<1>12. Counted'
  <2>1. stage # "command"
    BY <1>3
  <2> QED
    BY <1>1, <1>2, <1>5 DEF Streaming, Counted, Exchanging, Typed, TypeOK
<1>13. Unreported'
  <2>1. stage # "closing" => handed'[Len(handed')].event \notin {"error", "cancelled"}
    BY <1>2, <1>3, <1>5
  <2>2. Len(handed') >= 1
    BY <1>2
  <2> QED
    BY <1>1, <2>1, <2>2 DEF Unreported
<1> QED
  BY <1>10, <1>11, <1>12, <1>13 DEF Streaming

LEMMA FlushStreaming ==
  ASSUME Exchanging, Streaming, Flushed PROVE Streaming'
<1>1. /\ sendStage = "flush" /\ sendStage' = "idle"
      /\ stage \in Stages \ {"hello", "command", "ok", "failed"}
      /\ UNCHANGED <<handed, contract, failure, task, snapshot>>
      /\ handed[Len(handed)] = pending /\ sent \in Nat /\ Len(handed) \in Nat
  BY DEF Flushed, Exchanging, Typed, TypeOK, Delivering, Sending, stdoutVars, outputVars
<1>2. OneContract'
  BY <1>1 DEF Streaming, OneContract
<1>3. CASE stage = "greeting"
  <2>1. stage' = "command" /\ pending = Handshake /\ Len(handed) = 1
    <3>1. handed = <<Handshake>>
      BY <1>1, <1>3 DEF Exchanging, Negotiating, Greeting
    <3> QED
      BY <1>1, <1>3, <3>1 DEF Flushed
  <2>2. sent' = 0 /\ pending.event = "handshake"
    BY <1>3, <2>1 DEF Flushed, Handshake, Event, Streaming, Counted
  <2> QED
    BY <1>1, <1>2, <2>1, <2>2 DEF Streaming, Counted, Unreported
<1>4. CASE stage = "operating" /\ pending.event = "record"
  <2>1. stage' = "operating" /\ sent' = sent + 1
    BY <1>4 DEF Flushed
  <2>2. task = "emit"
    BY <1>1, <1>4 DEF Exchanging, Delivering, Sending, Streaming, Counted
  <2> QED
    BY <1>1, <1>2, <1>4, <2>1, <2>2 DEF Streaming, Counted, Unreported
<1>5. CASE stage \in {"describing", "closing"} \/ (stage = "operating" /\ pending.event # "record")
  <2>1. stage' \in {"ok", "failed"}
    BY <1>1, <1>5 DEF Flushed
  <2> QED
    BY <1>1, <1>2, <2>1 DEF Streaming, Counted, Unreported
<1> QED
  BY <1>1, <1>3, <1>4, <1>5 DEF Stages

\* The second frame.
LEMMA CommandStreaming ==
  ASSUME Exchanging, Streaming, Command PROVE Streaming'
<1>1. /\ stage = "command" /\ sendStage = "idle" /\ Len(handed) = 1 /\ Running /\ sent = 0
      /\ handed[1].event = "handshake" /\ task = "none"
      /\ UNCHANGED <<handed, contract, sent, snapshot>>
  BY DEF Command, Exchanging, Delivering, Sending, Recorded, Running, Negotiating, Greeted,
         CalledOnce, Streaming, Counted, stdoutVars
<1>2. ASSUME NEW f, Abort(f) PROVE Streaming'
  BY <1>1, <1>2, AbortStreaming
<1>3. ASSUME stage' \in {"describing", "operating"}, UNCHANGED <<sendVars, failure>>,
             task' \in {task, "ready"}
      PROVE  Streaming'
  <2>1. OneContract'
    BY <1>1, <1>3 DEF Streaming, OneContract, sendVars
  <2>2. Counted'
    BY <1>1, <1>3 DEF Counted, sendVars
  <2>3. Unreported'
    <3>1. handed'[Len(handed')].event = "handshake"
      BY <1>1
    <3> QED
      BY <1>1, <1>3, <3>1 DEF Unreported
  <2> QED
    BY <2>1, <2>2, <2>3 DEF Streaming
<1> QED
  BY <1>2, <1>3 DEF Command, DescribeWith, Operation

LEMMA NextStreaming == Exchanging /\ Streaming /\ [Next]_vars => Streaming'
<1> USE DEF hostVars, stdoutVars, outputVars, sendVars, provVars
<1> SUFFICES ASSUME Exchanging, Streaming, [Next]_vars PROVE Streaming'
  OBVIOUS
<1>1. CASE Host \/ Worker \/ ReadChunk \/ UNCHANGED vars
  <2>1. UNCHANGED <<handed, stage, sendStage, pending, contract, failure, task, sent, snapshot>>
    BY <1>1 DEF Host, HostWrites, HostClosesStdin, HostClosesStdout, Worker, WorkerWrites,
                WorkerFails, ReadChunk, vars
  <2> QED
    BY <2>1 DEF Streaming, OneContract, Counted, Unreported
<1>2. CASE FactoryReturns \/ CallFactory
  <2>1. /\ stage = "operating" /\ sendStage = "idle" /\ task # "emit"
        /\ UNCHANGED <<handed, stage, sendStage, pending, contract, failure, sent, snapshot>>
    BY <1>2 DEF FactoryReturns, CallFactory, Operating
  <2> QED
    BY <2>1 DEF Streaming, OneContract, Counted, Unreported
<1>3. CASE \/ ProviderFails \/ WriteError \/ WriteTimeout \/ InputEnds \/ InputTimeout
           \/ Deadline \/ Interrupt
  <2>1. PICK f : Abort(f)
    BY <1>3 DEF ProviderFails, WriteError, WriteTimeout, InputEnds, InputTimeout, Deadline,
                Interrupt
  <2>2. Running /\ UNCHANGED <<handed, contract>>
    BY <1>3 DEF ProviderFails, WriteError, WriteTimeout, InputEnds, InputTimeout, Deadline,
                Interrupt, Operating, Reading, Running, Exchanging, Delivering, Sending
  <2>3. stage = "operating" => Len(handed) >= 1
    BY DEF Exchanging, Negotiating, Greeted
  <2>4. \/ stage = "operating" \/ stage = "closing"
        \/ \E g \in {"unavailable", "protocol_error"} : Abort(g)
    BY <1>3 DEF ProviderFails, WriteError, WriteTimeout, InputEnds, InputTimeout, Deadline,
                Interrupt, Operating
  <2> QED
    BY <2>1, <2>2, <2>3, <2>4, AbortStreaming
<1>4. CASE CheckReturns
  <2>1. Event("health").event = "health" /\ Event("health").contract = contract
    BY DEF Event
  <2> QED
    BY <1>4, <2>1, BeginStreaming DEF CheckReturns, Operating, Running
<1>5. ASSUME NEW s \in Snapshots, DiscoverReturns(s) PROVE Streaming'
  <2>1. /\ stage = "operating" /\ sendStage = "idle" /\ task = "api" /\ Running
        /\ UNCHANGED <<handed, contract, sent>>
    BY <1>5 DEF DiscoverReturns, Operating, Running
  <2>2. \/ UNCHANGED <<stage, sendStage, pending, failure>> \/ Abort("internal")
    BY <1>5 DEF DiscoverReturns
  <2>3. CASE UNCHANGED <<stage, sendStage, pending, failure>>
    BY <2>1, <2>3 DEF Streaming, OneContract, Counted, Unreported
  <2> QED
    BY <2>1, <2>2, <2>3, AbortStreaming
<1>6. ASSUME NEW size \in RecordSizes, EmitRecord(size) PROVE Streaming'
  <2>1. Event("record").event = "record" /\ Event("record").contract = contract
    BY DEF Event
  <2> QED
    BY <1>6, <2>1, BeginStreaming DEF EmitRecord, Operating, Running
<1>7. CASE EmitComplete
  <2> DEFINE frame == [Event("complete") EXCEPT !.count = snapshot.records]
  <2>1. /\ frame.event = "complete" /\ frame.contract = contract
        /\ frame.count = snapshot.records
    BY DEF Event
  <2>2. Begin(frame, ControlSize)
    BY <1>7 DEF EmitComplete
  <2> HIDE DEF frame
  <2> QED
    BY <1>7, <2>1, <2>2, BeginStreaming DEF EmitComplete, Operating, Running
<1>8. CASE AcceptFrame
  BY <1>8, AcceptWrites
<1>9. CASE Flushed
  BY <1>9, FlushStreaming
<1>10. CASE Hello
  <2>1. /\ stage = "hello" /\ sendStage = "idle" /\ handed = <<>> /\ Running
        /\ UNCHANGED <<handed, snapshot, sent>>
    BY <1>10 DEF Hello, Exchanging, Delivering, Sending, Negotiating, Greeting, Running
  <2>2. sent = 0 /\ ~(Len(handed) >= 1)
    BY <2>1 DEF Streaming, Counted
  <2>3. \/ stage' = "greeting" /\ UNCHANGED sendVars
        \/ stage' = "closing" /\ sendStage' = "idle" /\ failure' = "protocol_error"
    BY <1>10, <2>1 DEF Hello, Abort
  <2> QED
    BY <2>1, <2>2, <2>3 DEF Streaming, OneContract, Counted, Unreported
<1>11. CASE Greet
  <2> DEFINE frame == [Event("handshake") EXCEPT !.features = hello.features]
  <2>1. frame.event = "handshake" /\ frame.contract = contract
    BY DEF Event
  <2>2. Begin(frame, ControlSize) /\ stage = "greeting" /\ sendStage = "idle"
    BY <1>11 DEF Greet
  <2> HIDE DEF frame
  <2> QED
    BY <1>11, <2>1, <2>2, BeginStreaming DEF Greet, Running
<1>12. CASE Command
  BY <1>12, CommandStreaming
<1>13. CASE Describe
  <2> DEFINE frame == Event(IF outId = "describe" THEN "setup" ELSE "auth")
  <2>1. frame.event \in {"setup", "auth"} /\ frame.contract = contract
    BY DEF Event
  <2>2. Begin(frame, ControlSize) /\ stage = "describing" /\ sendStage = "idle"
    BY <1>13 DEF Describe
  <2> HIDE DEF frame
  <2> QED
    BY <1>13, <2>1, <2>2, BeginStreaming DEF Describe, Running
<1>14. CASE Report
  <2> DEFINE frame == IF failure = "cancelled"
                      THEN [Event("cancelled") EXCEPT !.id = "cancel"]
                      ELSE [Event("error") EXCEPT !.code = failure]
  <2>1. frame.event \in {"cancelled", "error"} /\ frame.contract = contract
    BY DEF Event
  <2>2. Begin(frame, ControlSize) /\ stage = "closing" /\ sendStage = "idle"
    BY <1>14 DEF Report
  <2> HIDE DEF frame
  <2> QED
    BY <1>14, <2>1, <2>2, BeginStreaming DEF Report, Running
<1> QED
  BY <1>1, <1>2, <1>3, <1>4, <1>5, <1>6, <1>7, <1>8, <1>9, <1>10, <1>11, <1>12, <1>13, <1>14
  DEF Next, Provider, Runtime, Send, Input, Operate, Emit

-----------------------------------------------------------------------------
(***************************************************************************)
(* Each step of the session is one of the exchange, or none.               *)
(***************************************************************************)
LEMMA StepExchanges ==
  Exchanging /\ Exchanging' /\ Streaming /\ [Next]_vars
    => [Ex!Next]_<<handed, IF Running THEN "open" ELSE stage>>
<1> USE DEF hostVars, stdoutVars, outputVars, sendVars, provVars
<1> SUFFICES ASSUME Exchanging, Exchanging', Streaming, [Next]_vars, ~AcceptFrame
             PROVE  \/ Ex!Exit
                    \/ UNCHANGED <<handed, IF Running THEN "open" ELSE stage>>
  BY AcceptWrites DEF Ex!Next
<1>1. UNCHANGED handed
  BY DEF Next, Host, HostWrites, HostClosesStdin, HostClosesStdout, Worker, WorkerWrites,
         WorkerFails, Provider, FactoryReturns, ProviderFails, CheckReturns, DiscoverReturns,
         Runtime, Send, Flushed, WriteError, WriteTimeout, Input, ReadChunk, InputEnds,
         InputTimeout, Hello, Greet, Command, Describe, Operate, CallFactory, Emit, EmitRecord,
         EmitComplete, Interrupt, Deadline, Report, vars
<1>2. CASE Running'
  <2>1. Running
    BY <1>2 DEF Next, Host, HostWrites, HostClosesStdin, HostClosesStdout, Worker, WorkerWrites,
         WorkerFails, Provider, FactoryReturns, ProviderFails, CheckReturns, DiscoverReturns,
         Runtime, Send, Flushed, WriteError, WriteTimeout, Input, ReadChunk, InputEnds,
         InputTimeout, Hello, Greet, Command, Describe, Operate, CallFactory, Emit, EmitRecord,
         EmitComplete, Interrupt, Deadline, Report, vars, Running, Operating, Reading,
         Exchanging, Delivering, Sending
  <2> QED
    BY <1>1, <1>2, <2>1
<1>3. CASE Running /\ ~Running'
  <2>1. CASE stage' = "failed"
    BY <1>1, <1>3, <2>1 DEF Ex!Exit, Running
  <2>2. CASE stage' = "ok"
    <3>1. Flushed
      BY <1>3, <2>2 DEF Next, Host, HostWrites, HostClosesStdin, HostClosesStdout, Worker,
         WorkerWrites, WorkerFails, Provider, FactoryReturns, ProviderFails, CheckReturns,
         DiscoverReturns, Runtime, Send, WriteError, WriteTimeout, Input, ReadChunk, InputEnds,
         InputTimeout, Hello, Greet, Command, DescribeWith, Operation, Describe, Operate,
         CallFactory, Emit, EmitRecord, EmitComplete, Interrupt, Deadline, Report, vars, Running,
         Begin, Abort
    <3>2. /\ Len(handed) >= 1 /\ delivered' = Len(handed)
          /\ handed[Len(handed)].event \in Answers \cup {"cancelled"}
      BY <1>1, <2>2, <3>1 DEF Flushed, Exchanging, Delivering, Sending, CleanExit
    <3>3. Ex!LastIn(Ex!Answers \cup {"cancelled"})
      BY <3>2 DEF Ex!LastIn, Ex!Last, Ex!Answers, Answers
    <3> QED
      BY <1>1, <1>3, <2>2, <3>3 DEF Ex!Exit, Running
  <2> QED
    BY <1>3, <2>1, <2>2 DEF Running
<1>4. CASE ~Running /\ ~Running'
  <2>1. UNCHANGED stage
    BY <1>4 DEF Next, Host, HostWrites, HostClosesStdin, HostClosesStdout, Worker, WorkerWrites,
         WorkerFails, Provider, FactoryReturns, ProviderFails, CheckReturns, DiscoverReturns,
         Runtime, Send, Flushed, WriteError, WriteTimeout, Input, ReadChunk, InputEnds,
         InputTimeout, Hello, Greet, Command, Describe, Operate, CallFactory, Emit, EmitRecord,
         EmitComplete, Interrupt, Deadline, Report, vars, Running, Operating, Reading,
         Exchanging, Delivering, Sending
  <2> QED
    BY <1>1, <1>4, <2>1
<1> QED
  BY <1>2, <1>3, <1>4

\* What a process is told to write is an exchange that the host's decoder understands,
\* and its exit code agrees with it (serve_internal, session, response::operation).
THEOREM SessionImplementsExchange == Spec => ImplementsExchange
<1>1. Init => Ex!Init
  BY DEF Init, Ex!Init, Running
<1>2. Init => Exchanging /\ Streaming
  BY InitTyped, InitNegotiating, InitDelivering, InitStreaming DEF Exchanging
<1>3. Exchanging /\ Streaming /\ [Next]_vars => (Exchanging /\ Streaming)'
  BY NextTyped, NextNegotiating, NextDelivering, NextStreaming DEF Exchanging
<1>4. Exchanging /\ Exchanging' /\ Streaming /\ [Next]_vars
        => [Ex!Next]_<<handed, IF Running THEN "open" ELSE stage>>
  BY StepExchanges
<1> QED
  BY <1>1, <1>2, <1>3, <1>4, PTL DEF Spec, ImplementsExchange, Ex!Spec

-----------------------------------------------------------------------------
(***************************************************************************)
(* How long a session lasts.  Termination itself needs fairness; that the  *)
(* steps of a session run out does not: what is left of it, counted in     *)
(* steps of the task and the provider, shrinks with each of them.          *)
(***************************************************************************)
\* More steps than an operation of MaxRecords records takes.
Whole == 3 * MaxRecords + 7

AtStage ==
  CASE stage = "hello"                       -> 5 * Whole
    [] stage = "greeting"                    -> 4 * Whole
    [] stage = "command"                     -> 3 * Whole
    [] stage \in {"describing", "operating"} -> 2 * Whole
    [] stage = "closing"                     -> Whole
    [] OTHER                                 -> 0

ToRead == IF buffered = <<>> THEN 1 ELSE 0

ToSend == CASE sendStage = "idle"   -> 2
            [] sendStage = "accept" -> 1
            [] OTHER                -> 0

\* A record is one call of send: three steps.
ToDo == CASE task = "ready"   -> 3 * MaxRecords + 3
          [] task = "factory" -> 3 * MaxRecords + 2
          [] task = "api"     -> 3 * MaxRecords + 1
          [] task = "emit"    -> 3 * (snapshot.records - sent)
          [] OTHER            -> 0

Left == AtStage + ToRead + ToSend + ToDo

\* An operation sends nothing before it calls the provider, and no more records
\* than the snapshot has.
Working ==
  /\ stage = "operating" => task \in {"ready", "factory", "api", "emit"}
  /\ stage = "operating" /\ task \in {"ready", "factory"} => sendStage = "idle"
  /\ task = "emit" => /\ stage \in {"operating", "ok"}
                      /\ sent <= snapshot.records /\ snapshot.records <= MaxRecords
  /\ stage = "operating" /\ sendStage # "idle" /\ pending.event = "record" =>
       task = "emit" /\ sent < snapshot.records

LEMMA AbortWorking ==
  ASSUME NEW f, Abort(f)
  PROVE  Working'
BY DEF Abort, Working

LEMMA BeginWorking ==
  ASSUME Working, NEW frame, NEW size, Begin(frame, size), UNCHANGED <<snapshot, sent>>,
         stage = "operating" => task \in {"api", "emit"},
         stage = "operating" /\ frame.event = "record" => task = "emit" /\ sent < snapshot.records
  PROVE  Working'
<1>1. CASE Fits(size)
  BY <1>1 DEF Begin, Working
<1>2. CASE ~Fits(size)
  BY <1>2, AbortWorking DEF Begin
<1> QED
  BY <1>1, <1>2

LEMMA NextWorking == Exchanging /\ Streaming /\ Working /\ [Next]_vars => Working'
<1> USE DEF hostVars, stdoutVars, outputVars, sendVars, provVars
<1> SUFFICES ASSUME TypeOK, Sending, Counted, Working, [Next]_vars
             PROVE  Working'
  BY DEF Exchanging, Typed, Delivering, Streaming
<1>1. CASE Host \/ Worker \/ UNCHANGED vars
  BY <1>1 DEF Host, HostWrites, HostClosesStdin, HostClosesStdout, Worker, WorkerWrites,
              WorkerFails, vars, Working
<1>2. CASE AcceptFrame \/ ReadChunk \/ FactoryReturns \/ CallFactory
  BY <1>2 DEF AcceptFrame, ReadChunk, FactoryReturns, CallFactory, Operating, Working
<1>3. CASE Flushed
  <2>1. /\ sendStage = "flush" /\ sendStage' = "idle" /\ UNCHANGED <<task, snapshot>>
        /\ sent \in Nat /\ snapshot.records \in Nat
    BY <1>3 DEF Flushed, TypeOK, Snapshot
  <2>2. stage \in Stages \ {"hello", "command", "ok", "failed"}
    BY <2>1 DEF TypeOK, Sending
  <2>3. CASE stage = "operating" /\ pending.event = "record"
    <3>1. stage' = stage /\ sent' = sent + 1 /\ task = "emit" /\ sent < snapshot.records
      BY <1>3, <2>1, <2>3 DEF Flushed, Working
    <3>2. sent + 1 <= snapshot.records /\ snapshot.records <= MaxRecords
      BY <2>1, <3>1 DEF Working
    <3>3. task' = "emit" /\ sent' <= snapshot'.records /\ snapshot'.records <= MaxRecords
      BY <2>1, <3>1, <3>2
    <3> QED
      BY <2>1, <2>3, <3>1, <3>3 DEF Working
  <2>4. CASE ~(stage = "operating" /\ pending.event = "record")
    <3>1. stage' \in {"command", "failed", "ok"}
      BY <1>3, <2>4 DEF Flushed
    <3>2. CASE stage = "operating"
      <4>1. sent' = sent /\ stage' = "ok"
        BY <1>3, <2>4, <3>2 DEF Flushed
      <4> QED
        BY <2>1, <3>1, <4>1 DEF Working
    <3>3. CASE stage # "operating"
      BY <2>1, <2>2, <3>1, <3>3 DEF Working
    <3> QED
      BY <3>2, <3>3
  <2> QED
    BY <2>3, <2>4
<1>4. CASE \/ WriteError \/ WriteTimeout \/ InputEnds \/ InputTimeout \/ ProviderFails
           \/ Interrupt \/ Deadline
  <2>1. \E f : Abort(f)
    BY <1>4 DEF WriteError, WriteTimeout, InputEnds, InputTimeout, ProviderFails, Interrupt,
                Deadline
  <2> QED
    BY <2>1, AbortWorking
<1>5. CASE Hello
  <2>1. stage = "hello" /\ UNCHANGED <<snapshot, sent>>
    BY <1>5 DEF Hello
  <2>2. \/ stage' = "greeting" /\ UNCHANGED <<sendVars, task>>
        \/ Abort("protocol_error")
    BY <1>5 DEF Hello
  <2> QED
    BY <2>1, <2>2, AbortWorking DEF Working
<1>6. CASE Command
  <2>1. stage = "command" /\ sendStage = "idle" /\ UNCHANGED <<snapshot, sent>>
    BY <1>6 DEF Command, Sending
  <2>2. \/ stage' = "describing" /\ UNCHANGED <<sendVars, task>>
        \/ stage' = "operating" /\ task' = "ready" /\ UNCHANGED sendVars
        \/ \E f : Abort(f)
    BY <1>6 DEF Command, DescribeWith, Operation
  <2> QED
    BY <2>1, <2>2, AbortWorking DEF Working
<1>7. CASE Greet
  BY <1>7, BeginWorking DEF Greet
<1>8. CASE Describe
  BY <1>8, BeginWorking DEF Describe
<1>9. CASE Report
  BY <1>9, BeginWorking DEF Report
<1>10. CASE CheckReturns
  <2>1. Event("health").event = "health"
    BY DEF Event
  <2> QED
    BY <1>10, <2>1, BeginWorking DEF CheckReturns, Operating
<1>11. ASSUME NEW s \in Snapshots, DiscoverReturns(s) PROVE Working'
  <2>1. CASE s.sound /\ s.records <= MaxRecords
    <3>1. /\ stage' = "operating" /\ sendStage' = "idle" /\ snapshot' = s /\ sent' = 0
      BY <1>11, <2>1 DEF DiscoverReturns, Operating, Counted
    <3>2. s.records \in Nat /\ task' = "emit"
      BY <1>11, <2>1, SessionAssumption DEF DiscoverReturns, Snapshot
    <3> QED
      BY <2>1, <3>1, <3>2 DEF Working
  <2>2. CASE ~(s.sound /\ s.records <= MaxRecords)
    BY <1>11, <2>2, AbortWorking DEF DiscoverReturns
  <2> QED
    BY <2>1, <2>2
<1>12. ASSUME NEW size \in RecordSizes, EmitRecord(size) PROVE Working'
  BY <1>12, BeginWorking DEF EmitRecord, Operating
<1>13. CASE EmitComplete
  <2>1. [Event("complete") EXCEPT !.count = snapshot.records].event = "complete"
    BY DEF Event
  <2> QED
    BY <1>13, <2>1, BeginWorking DEF EmitComplete, Operating
<1> QED
  BY <1>1, <1>2, <1>3, <1>4, <1>5, <1>6, <1>7, <1>8, <1>9, <1>10, <1>11, <1>12, <1>13
  DEF Next, Provider, Runtime, Send, Input, Operate, Emit

Ranged ==
  /\ AtStage \in 0 .. 5 * Whole /\ ToRead \in 0 .. 1 /\ ToSend \in 0 .. 2
  /\ ToDo \in 0 .. Whole - 4
  /\ Left \in 0 .. 6 * Whole

LEMMA WholeIs == MaxRecords \in Nat /\ Whole \in Nat /\ Whole = 3 * MaxRecords + 7
BY SessionAssumption DEF Whole

LEMMA LeftIs == TypeOK /\ Working => Ranged
<1> SUFFICES ASSUME TypeOK, Working PROVE Ranged
  OBVIOUS
<1>1. MaxRecords \in Nat /\ Whole \in Nat /\ Whole = 3 * MaxRecords + 7
  BY WholeIs
<1>2. AtStage \in 0 .. 5 * Whole
  <2>1. AtStage \in {0, Whole, 2 * Whole, 3 * Whole, 4 * Whole, 5 * Whole}
    BY DEF AtStage
  <2> QED
    BY <1>1, <2>1
<1>3. ToRead \in 0 .. 1 /\ ToSend \in 0 .. 2
  BY DEF ToRead, ToSend
<1>4. ToDo \in 0 .. 3 * MaxRecords + 3
  <2>1. CASE task = "emit"
    <3>1. /\ sent \in Nat /\ snapshot.records \in Nat
          /\ sent <= snapshot.records /\ snapshot.records <= MaxRecords
      BY <2>1 DEF TypeOK, Snapshot, Working
    <3>2. ToDo = 3 * (snapshot.records - sent)
      BY <2>1 DEF ToDo
    <3> QED
      BY <1>1, <3>1, <3>2
  <2>2. CASE task # "emit"
    BY <1>1, <2>2 DEF ToDo
  <2> QED
    BY <2>1, <2>2
<1> QED
  BY <1>1, <1>2, <1>3, <1>4 DEF Left, Ranged

LEMMA Outweighs ==
  ASSUME NEW w \in Nat,
         NEW a \in Nat, NEW b \in Nat, NEW c \in Nat, NEW d \in Nat,
         NEW e \in Nat, NEW f \in 0 .. 1, NEW g \in 0 .. 2, NEW h \in 0 .. w - 4,
         e + w <= a
  PROVE  e + f + g + h < a + b + c + d
OBVIOUS

LEMMA Lighter ==
  ASSUME NEW a \in Nat, NEW b \in Nat, NEW c \in Nat, NEW d \in Nat, NEW e \in Nat, e < d
  PROVE  a + b + c + e < a + b + c + d
OBVIOUS

\* A wait that is over outweighs whatever the next one brings.
LEMMA NextStage ==
  ASSUME Ranged, Ranged', AtStage' + Whole <= AtStage
  PROVE  Left' < Left
<1>1. Whole' = Whole /\ Whole \in Nat
  BY WholeIs DEF Whole
<1>2. /\ AtStage \in Nat /\ ToRead \in Nat /\ ToSend \in Nat /\ ToDo \in Nat
      /\ AtStage' \in Nat /\ ToRead' \in 0 .. 1 /\ ToSend' \in 0 .. 2 /\ ToDo' \in 0 .. Whole - 4
  BY <1>1 DEF Ranged
<1>3. AtStage' + ToRead' + ToSend' + ToDo' < AtStage + ToRead + ToSend + ToDo
  BY <1>1, <1>2, Outweighs
<1> QED
  BY <1>3 DEF Left

LEMMA AbortLeft ==
  ASSUME TypeOK, Ranged, Ranged', Running, NEW f, Abort(f)
  PROVE  Left' < Left
<1>1. Whole \in Nat
  BY WholeIs
<1>2. AtStage' + Whole <= AtStage
  <2>1. CASE stage = "closing"
    <3>1. AtStage = Whole /\ AtStage' = 0
      BY <2>1 DEF AtStage, Abort
    <3> QED
      BY <1>1, <3>1
  <2>2. CASE stage # "closing"
    <3>1. AtStage' = Whole
      BY <2>2 DEF AtStage, Abort, Whole
    <3>2. AtStage \in {2 * Whole, 3 * Whole, 4 * Whole, 5 * Whole}
      BY <2>2 DEF AtStage, TypeOK, Stages, Running
    <3> QED
      BY <1>1, <3>1, <3>2
  <2> QED
    BY <2>1, <2>2
<1> QED
  BY <1>2, NextStage

LEMMA BeginLeft ==
  ASSUME TypeOK, Ranged, Ranged', NEW frame, NEW size, Begin(frame, size),
         Running, sendStage = "idle", UNCHANGED <<buffered, snapshot, sent>>
  PROVE  Left' < Left
<1>1. CASE Fits(size)
  <2>1. sendStage' = "accept" /\ UNCHANGED <<stage, task>>
    BY <1>1 DEF Begin
  <2>2. ToSend = 2 /\ ToSend' = 1
    BY <2>1 DEF ToSend
  <2>3. UNCHANGED <<AtStage, ToRead, ToDo>>
    BY <2>1 DEF AtStage, ToRead, ToDo, Whole
  <2> QED
    BY <2>2, <2>3, WholeIs DEF Left, Ranged
<1>2. CASE ~Fits(size)
  BY <1>2, AbortLeft DEF Begin
<1> QED
  BY <1>1, <1>2

LEMMA StepsLeft ==
  ASSUME Exchanging, Working, Ranged, Ranged', Provider \/ Runtime
  PROVE  Left' < Left
<1> USE DEF hostVars, stdoutVars, outputVars, sendVars, provVars
<1>1. TypeOK /\ Sending /\ Whole \in Nat
  BY WholeIs DEF Exchanging, Typed, Delivering
<1>2. /\ AtStage \in Nat /\ ToRead \in Nat /\ ToSend \in Nat /\ ToDo \in Nat
  BY <1>1 DEF Ranged
<1>3. CASE AcceptFrame
  <2>1. ToSend = 1 /\ ToSend' = 0
    BY <1>3 DEF AcceptFrame, ToSend
  <2>2. UNCHANGED <<AtStage, ToRead, ToDo>>
    BY <1>3 DEF AcceptFrame, AtStage, ToRead, ToDo, Whole
  <2> QED
    BY <1>2, <2>1, <2>2 DEF Left
<1>4. CASE ReadChunk
  <2>1. ToRead = 1 /\ ToRead' = 0
    <3>1. PICK n \in 1 .. Len(stdin) : buffered' = SubSeq(stdin, 1, n)
      BY <1>4 DEF ReadChunk
    <3>2. Len(SubSeq(stdin, 1, n)) = n /\ n >= 1
      BY <1>1, <3>1 DEF TypeOK
    <3>3. buffered' # <<>>
      BY <3>1, <3>2
    <3> QED
      BY <1>4, <3>3 DEF ReadChunk, ToRead
  <2>2. UNCHANGED <<AtStage, ToSend, ToDo>>
    BY <1>4 DEF ReadChunk, AtStage, ToSend, ToDo, Whole
  <2> QED
    BY <1>2, <2>1, <2>2 DEF Left
<1>5. CASE CallFactory \/ FactoryReturns
  <2>1. ToDo' = ToDo - 1
    BY <1>5, SessionAssumption DEF CallFactory, FactoryReturns, ToDo
  <2>2. UNCHANGED <<AtStage, ToRead, ToSend>>
    BY <1>5 DEF CallFactory, FactoryReturns, AtStage, ToRead, ToSend, Whole
  <2> QED
    BY <1>2, <2>1, <2>2 DEF Left
<1>6. CASE Flushed
  <2>1. sendStage = "flush" /\ sendStage' = "idle" /\ UNCHANGED <<buffered, task, snapshot>>
    BY <1>6 DEF Flushed
  <2>2. stage \in Stages \ {"hello", "command", "ok", "failed"}
    BY <1>1, <2>1 DEF TypeOK, Sending
  <2>3. CASE stage = "operating" /\ pending.event = "record"
    <3>1. stage' = stage /\ sent' = sent + 1 /\ task = "emit"
      BY <1>6, <2>1, <2>3 DEF Flushed, Working
    <3>2. ToSend = 0 /\ ToSend' = 2
      BY <2>1 DEF ToSend
    <3>3. UNCHANGED <<AtStage, ToRead>>
      BY <2>1, <3>1 DEF AtStage, ToRead, Whole
    <3>4. ToDo' = ToDo - 3
      <4>1. sent \in Nat /\ snapshot.records \in Nat
        BY <1>1 DEF TypeOK, Snapshot
      <4>2. ToDo = 3 * (snapshot.records - sent) /\ ToDo' = 3 * (snapshot.records - (sent + 1))
        BY <2>1, <3>1 DEF ToDo
      <4> QED
        BY <4>1, <4>2
    <3> QED
      BY <1>2, <3>2, <3>3, <3>4 DEF Left
  <2>4. CASE ~(stage = "operating" /\ pending.event = "record")
    <3>1. stage' = IF stage = "greeting" THEN "command"
                   ELSE IF stage = "closing" /\ failure # "cancelled" THEN "failed" ELSE "ok"
      BY <1>6, <2>4 DEF Flushed
    <3>2. AtStage' + Whole <= AtStage
      <4>1. /\ stage = "greeting" => AtStage = 4 * Whole /\ AtStage' = 3 * Whole
            /\ stage # "greeting" => AtStage \in {Whole, 2 * Whole} /\ AtStage' = 0
        BY <2>2, <3>1 DEF AtStage, Stages, Whole
      <4> QED
        BY <1>1, <4>1
    <3> QED
      BY <1>1, <3>2, NextStage
  <2> QED
    BY <2>3, <2>4
<1>7. CASE \/ WriteError \/ WriteTimeout \/ InputEnds \/ InputTimeout \/ ProviderFails
           \/ Interrupt \/ Deadline
  <2>1. \E f : Abort(f)
    BY <1>7 DEF WriteError, WriteTimeout, InputEnds, InputTimeout, ProviderFails, Interrupt,
                Deadline
  <2>2. Running
    BY <1>1, <1>7 DEF WriteError, WriteTimeout, InputEnds, InputTimeout, ProviderFails, Interrupt,
                      Deadline, Operating, Reading, Running, Sending
  <2> QED
    BY <1>1, <2>1, <2>2, AbortLeft
<1>8. CASE Hello
  <2>1. stage = "hello" /\ Running
    BY <1>8 DEF Hello, Running
  <2>2. CASE stage' = "greeting"
    <3>1. AtStage' + Whole <= AtStage
      <4>1. AtStage = 5 * Whole /\ AtStage' = 4 * Whole
        BY <2>1, <2>2 DEF AtStage, Whole
      <4> QED
        BY <1>1, <4>1
    <3> QED
      BY <1>1, <3>1, NextStage
  <2>3. CASE Abort("protocol_error")
    BY <1>1, <2>1, <2>3, AbortLeft
  <2> QED
    BY <1>8, <2>2, <2>3 DEF Hello
<1>9. CASE Command
  <2>1. stage = "command" /\ Running
    BY <1>9 DEF Command, Running
  <2>2. stage' \in {"describing", "operating"} \/ \E f : Abort(f)
    BY <1>9 DEF Command, DescribeWith, Operation
  <2>3. CASE stage' \in {"describing", "operating"}
    <3>1. AtStage' + Whole <= AtStage
      <4>1. AtStage = 3 * Whole /\ AtStage' = 2 * Whole
        BY <2>1, <2>3 DEF AtStage, Whole
      <4> QED
        BY <1>1, <4>1
    <3> QED
      BY <1>1, <3>1, NextStage
  <2> QED
    BY <1>1, <2>1, <2>2, <2>3, AbortLeft
<1>10. ASSUME NEW s \in Snapshots, DiscoverReturns(s) PROVE Left' < Left
  <2>1. Running /\ task = "api" /\ UNCHANGED <<buffered, sent>>
    BY <1>10 DEF DiscoverReturns, Operating, Running
  <2>2. CASE s.sound /\ s.records <= MaxRecords
    <3>1. snapshot' = s /\ task' = "emit" /\ UNCHANGED <<stage, sendStage>>
      BY <1>10, <2>2 DEF DiscoverReturns
    <3>2. ToDo' < ToDo
      <4>1. s.records \in Nat /\ sent \in Nat /\ MaxRecords \in Nat
        BY <1>1, SessionAssumption DEF TypeOK, Snapshot
      <4>2. ToDo = 3 * MaxRecords + 1 /\ ToDo' = 3 * (s.records - sent)
        BY <2>1, <3>1 DEF ToDo
      <4> QED
        BY <2>2, <4>1, <4>2
    <3>3. UNCHANGED <<AtStage, ToRead, ToSend>>
      BY <2>1, <3>1 DEF AtStage, ToRead, ToSend, Whole
    <3>4. ToDo' \in Nat
      <4>1. Whole' = Whole
        BY DEF Whole
      <4> QED
        BY <1>1, <4>1 DEF Ranged
    <3> QED
      <4>1. AtStage + ToRead + ToSend + ToDo' < AtStage + ToRead + ToSend + ToDo
        BY <1>2, <3>2, <3>4, Lighter
      <4> QED
        BY <3>3, <4>1 DEF Left
  <2>3. CASE ~(s.sound /\ s.records <= MaxRecords)
    BY <1>1, <1>10, <2>1, <2>3, AbortLeft DEF DiscoverReturns
  <2> QED
    BY <2>2, <2>3
<1>11. CASE Greet
  BY <1>1, <1>11, BeginLeft DEF Greet, Running
<1>12. CASE Describe
  BY <1>1, <1>12, BeginLeft DEF Describe, Running
<1>13. CASE CheckReturns
  BY <1>1, <1>13, BeginLeft DEF CheckReturns, Operating, Running
<1>14. ASSUME NEW size \in RecordSizes, EmitRecord(size) PROVE Left' < Left
  BY <1>1, <1>14, BeginLeft DEF EmitRecord, Operating, Running
<1>15. CASE EmitComplete
  BY <1>1, <1>15, BeginLeft DEF EmitComplete, Operating, Running
<1>16. CASE Report
  BY <1>1, <1>16, BeginLeft DEF Report, Running
<1> QED
  BY <1>3, <1>4, <1>5, <1>6, <1>7, <1>8, <1>9, <1>10, <1>11, <1>12, <1>13, <1>14, <1>15, <1>16
  DEF Provider, Runtime, Send, Input, Operate, Emit

\* The host and stdout's worker cannot prolong a session.
LEMMA OthersLeft ==
  ASSUME Host \/ Worker
  PROVE  Left' = Left
<1>1. UNCHANGED <<buffered, stage, sendStage, task, snapshot, sent>>
  BY DEF Host, HostWrites, HostClosesStdin, HostClosesStdout, Worker, WorkerWrites,
         WorkerFails, sendVars, provVars
<1> QED
  BY <1>1 DEF Left, AtStage, ToRead, ToSend, ToDo, Whole

\* However many frames the host writes, a session takes at most 6 * Whole steps of
\* the task and the provider: nothing is read, sent or called again without end
\* (session, lib.rs 129-246; response::operation).
THEOREM SessionRunsOut ==
  Spec => /\ [](Left \in 0 .. 6 * Whole)
          /\ [][/\ Provider \/ Runtime => Left' < Left
                /\ Host \/ Worker => Left' = Left]_vars
<1>1. Init => Exchanging /\ Streaming /\ Working
  BY InitTyped, InitNegotiating, InitDelivering, InitStreaming DEF Exchanging, Init, Working
<1>2. Exchanging /\ Streaming /\ Working /\ [Next]_vars => (Exchanging /\ Streaming /\ Working)'
  BY NextTyped, NextNegotiating, NextDelivering, NextStreaming, NextWorking DEF Exchanging
<1>3. Exchanging /\ Working => Ranged
  BY LeftIs DEF Exchanging, Typed
<1>4. Exchanging /\ Working /\ Ranged /\ Ranged' /\ [Next]_vars
        => [/\ Provider \/ Runtime => Left' < Left
            /\ Host \/ Worker => Left' = Left]_vars
  BY StepsLeft, OthersLeft
<1>5. Ranged => Left \in 0 .. 6 * Whole
  BY DEF Ranged
<1> QED
  BY <1>1, <1>2, <1>3, <1>4, <1>5, PTL DEF Spec

-----------------------------------------------------------------------------
(***************************************************************************)
(* The lines of a stream.                                                  *)
(***************************************************************************)

\* A set of numbers that is not empty has a least one.
LEMMA Least ==
  ASSUME NEW T \in SUBSET Nat, T # {}
  PROVE  \E x \in T : \A y \in T : x <= y
<1> DEFINE R == {e \in Nat \X Nat : e[1] < e[2]}
<1>1. IsWellFoundedOn(R, Nat)
  BY NatLessThanWellFounded DEF OpToRel
<1>2. PICK x \in T : \A y \in T : <<y, x>> \notin R
  BY <1>1, WFMin
<1>3. ASSUME NEW y \in T PROVE x <= y
  <2>1. x \in Nat /\ y \in Nat
    OBVIOUS
  <2>2. ~(y < x)
    BY <1>2, <2>1
  <2> QED
    BY <2>1, <2>2
<1> QED
  BY <1>2, <1>3

\* Bytes a + 1 to b of s.
LEMMA Slice ==
  ASSUME NEW s \in Seq(Bytes), NEW a \in 0 .. Len(s), NEW b \in a .. Len(s)
  PROVE  /\ SubSeq(s, a + 1, b) \in Seq(Bytes)
         /\ Len(SubSeq(s, a + 1, b)) = b - a
         /\ \A i \in 1 .. b - a : SubSeq(s, a + 1, b)[i] = s[a + i]
<1>1. Len(s) \in Nat /\ a + 1 \in Int /\ b \in Int
  OBVIOUS
<1>2. \A i \in a + 1 .. b : s[i] \in Bytes
  BY <1>1
<1>3. /\ SubSeq(s, a + 1, b) \in Seq(Bytes)
      /\ Len(SubSeq(s, a + 1, b)) = IF a + 1 <= b THEN b - (a + 1) + 1 ELSE 0
      /\ \A i \in 1 .. b - (a + 1) + 1 : SubSeq(s, a + 1, b)[i] = s[a + 1 + i - 1]
  BY <1>1, <1>2, SubSeqProperties
<1>4. Len(SubSeq(s, a + 1, b)) = b - a
  <2>1. a + 1 <= b => b - (a + 1) + 1 = b - a
    BY <1>1
  <2>2. ~(a + 1 <= b) => b - a = 0
    BY <1>1
  <2> QED
    BY <1>3, <2>1, <2>2
<1>5. ASSUME NEW i \in 1 .. b - a PROVE SubSeq(s, a + 1, b)[i] = s[a + i]
  <2>1. i \in 1 .. b - (a + 1) + 1
    BY <1>1
  <2>2. a + 1 + i - 1 = a + i
    BY <1>1
  <2> QED
    BY <1>3, <2>1, <2>2
<1> QED
  BY <1>3, <1>4, <1>5

\* A piece of a slice is a slice.
LEMMA SliceOfSlice ==
  ASSUME NEW s \in Seq(Bytes), NEW a \in 0 .. Len(s), NEW b \in a .. Len(s),
         NEW c \in 0 .. b - a, NEW d \in c .. b - a
  PROVE  SubSeq(SubSeq(s, a + 1, b), c + 1, d) = SubSeq(s, a + c + 1, a + d)
<1> DEFINE t == SubSeq(s, a + 1, b)
<1>1. /\ a + c \in 0 .. Len(s) /\ a + d \in a + c .. Len(s)
      /\ Len(s) \in Nat
  OBVIOUS
<1>2. /\ t \in Seq(Bytes) /\ Len(t) = b - a
      /\ \A i \in 1 .. b - a : t[i] = s[a + i]
  BY Slice
<1>3. c \in 0 .. Len(t) /\ d \in c .. Len(t)
  BY <1>2
<1> HIDE DEF t
<1>4. /\ SubSeq(t, c + 1, d) \in Seq(Bytes)
      /\ Len(SubSeq(t, c + 1, d)) = d - c
      /\ \A i \in 1 .. d - c : SubSeq(t, c + 1, d)[i] = t[c + i]
  BY <1>2, <1>3, Slice
<1>5. /\ SubSeq(s, a + c + 1, a + d) \in Seq(Bytes)
      /\ Len(SubSeq(s, a + c + 1, a + d)) = a + d - (a + c)
      /\ \A i \in 1 .. a + d - (a + c) : SubSeq(s, a + c + 1, a + d)[i] = s[a + c + i]
  <2>1. \A e \in 0 .. Len(s) : \A f \in e .. Len(s) :
          /\ SubSeq(s, e + 1, f) \in Seq(Bytes) /\ Len(SubSeq(s, e + 1, f)) = f - e
          /\ \A i \in 1 .. f - e : SubSeq(s, e + 1, f)[i] = s[e + i]
    BY Slice
  <2> DEFINE e == a + c
             f == a + d
  <2>2. e \in 0 .. Len(s) /\ f \in e .. Len(s)
    BY <1>1
  <2> HIDE DEF e, f
  <2>3. /\ SubSeq(s, e + 1, f) \in Seq(Bytes) /\ Len(SubSeq(s, e + 1, f)) = f - e
        /\ \A i \in 1 .. f - e : SubSeq(s, e + 1, f)[i] = s[e + i]
    BY <2>1, <2>2
  <2> QED
    BY <2>3 DEF e, f
<1>6. a + d - (a + c) = d - c
  OBVIOUS
<1>7. ASSUME NEW i \in 1 .. d - c
      PROVE  SubSeq(t, c + 1, d)[i] = SubSeq(s, a + c + 1, a + d)[i]
  <2>1. c + i \in 1 .. b - a /\ a + (c + i) = a + c + i
    OBVIOUS
  <2>2. t[c + i] = s[a + c + i]
    BY <1>2, <2>1
  <2> QED
    BY <1>4, <1>5, <1>6, <2>2
<1>8. SubSeq(t, c + 1, d) = SubSeq(s, a + c + 1, a + d)
  BY <1>4, <1>5, <1>6, <1>7, SeqEqual
<1> QED
  BY <1>8 DEF t

\* Slices that meet make one.
LEMMA SlicesMeet ==
  ASSUME NEW s \in Seq(Bytes), NEW a \in 0 .. Len(s), NEW b \in a .. Len(s),
         NEW c \in b .. Len(s)
  PROVE  SubSeq(s, a + 1, b) \o SubSeq(s, b + 1, c) = SubSeq(s, a + 1, c)
<1>1. /\ a + 1 \in 1 .. Len(s) + 1
      /\ b \in a + 1 - 1 .. Len(s) /\ c \in b .. Len(s)
  OBVIOUS
<1> QED
  BY <1>1, ConcatAdjacentSubSeq

\* What is written later leaves every slice of what was written before.
LEMMA SliceKept ==
  ASSUME NEW s \in Seq(Bytes), NEW b \in Bytes,
         NEW i \in 0 .. Len(s), NEW j \in i .. Len(s)
  PROVE  SubSeq(Append(s, b), i + 1, j) = SubSeq(s, i + 1, j)
<1> DEFINE t == Append(s, b)
<1>1. /\ t \in Seq(Bytes) /\ Len(t) = Len(s) + 1 /\ Len(s) \in Nat
      /\ \A k \in 1 .. Len(s) : t[k] = s[k]
  BY AppendProperties
<1> HIDE DEF t
<1>2. i \in 0 .. Len(t) /\ j \in i .. Len(t)
  BY <1>1
<1>3. /\ SubSeq(t, i + 1, j) \in Seq(Bytes) /\ Len(SubSeq(t, i + 1, j)) = j - i
      /\ \A k \in 1 .. j - i : SubSeq(t, i + 1, j)[k] = t[i + k]
  BY <1>1, <1>2, Slice
<1>4. /\ SubSeq(s, i + 1, j) \in Seq(Bytes) /\ Len(SubSeq(s, i + 1, j)) = j - i
      /\ \A k \in 1 .. j - i : SubSeq(s, i + 1, j)[k] = s[i + k]
  BY Slice
<1>5. ASSUME NEW k \in 1 .. j - i
      PROVE  SubSeq(t, i + 1, j)[k] = SubSeq(s, i + 1, j)[k]
  <2>1. i + k \in 1 .. Len(s)
    BY <1>1
  <2> QED
    BY <1>1, <1>3, <1>4, <2>1
<1>6. SubSeq(t, i + 1, j) = SubSeq(s, i + 1, j)
  BY <1>3, <1>4, <1>5, SeqEqual
<1> QED
  BY <1>6 DEF t

\* The rest of the stream grows at its end only.
LEMMA RestGrows ==
  ASSUME NEW s \in Seq(Bytes), NEW b \in Bytes, NEW i \in 0 .. Len(s)
  PROVE  SubSeq(Append(s, b), i + 1, Len(Append(s, b)))
           = Append(SubSeq(s, i + 1, Len(s)), b)
<1> DEFINE t == Append(s, b)
           r == SubSeq(s, i + 1, Len(s))
<1>1. /\ t \in Seq(Bytes) /\ Len(t) = Len(s) + 1 /\ Len(s) \in Nat
      /\ \A k \in 1 .. Len(s) : t[k] = s[k]
      /\ t[Len(s) + 1] = b
  BY AppendProperties
<1>2. /\ r \in Seq(Bytes) /\ Len(r) = Len(s) - i
      /\ \A k \in 1 .. Len(s) - i : r[k] = s[i + k]
  BY <1>1, Slice
<1> HIDE DEF r
<1>3. /\ Append(r, b) \in Seq(Bytes) /\ Len(Append(r, b)) = Len(r) + 1
      /\ \A k \in 1 .. Len(r) : Append(r, b)[k] = r[k]
      /\ Append(r, b)[Len(r) + 1] = b
  BY <1>2, AppendProperties
<1> HIDE DEF t
<1>4. i \in 0 .. Len(t) /\ Len(t) \in i .. Len(t)
  BY <1>1
<1>5. /\ SubSeq(t, i + 1, Len(t)) \in Seq(Bytes)
      /\ Len(SubSeq(t, i + 1, Len(t))) = Len(t) - i
      /\ \A k \in 1 .. Len(t) - i : SubSeq(t, i + 1, Len(t))[k] = t[i + k]
  BY <1>1, <1>4, Slice
<1>6. Len(t) - i = Len(r) + 1
  BY <1>1, <1>2
<1>7. ASSUME NEW k \in 1 .. Len(r) + 1
      PROVE  SubSeq(t, i + 1, Len(t))[k] = Append(r, b)[k]
  <2>1. CASE k = Len(r) + 1
    <3>1. i + k = Len(s) + 1
      BY <1>1, <1>2, <2>1
    <3> QED
      BY <1>1, <1>3, <1>5, <1>6, <2>1, <3>1
  <2>2. CASE k # Len(r) + 1
    <3>1. k \in 1 .. Len(r) /\ i + k \in 1 .. Len(s)
      BY <1>1, <1>2, <2>2
    <3> QED
      BY <1>1, <1>2, <1>3, <1>5, <1>6, <3>1
  <2> QED
    BY <2>1, <2>2
<1>8. SubSeq(t, i + 1, Len(t)) = Append(r, b)
  BY <1>3, <1>5, <1>6, <1>7, SeqEqual
<1> QED
  BY <1>8 DEF t, r

LEMMA NewLinesType ==
  ASSUME NEW s \in Seq(Bytes)
  PROVE  /\ NewLines(s) \subseteq 1 .. Len(s) /\ NewLines(s) \in SUBSET Nat
         /\ IsFiniteSet(NewLines(s))
         /\ \A p : /\ IsFiniteSet({q \in NewLines(s) : q <= p})
                   /\ Ended(s, p) \in Nat
                   /\ Ended(s, p) <= Cardinality(NewLines(s))
<1>1. Len(s) \in Nat /\ NewLines(s) \subseteq 1 .. Len(s) /\ NewLines(s) \in SUBSET Nat
  BY DEF NewLines
<1>2. IsFiniteSet(NewLines(s))
  <2>1. IsFiniteSet(1 .. Len(s))
    BY <1>1, FS_Interval
  <2> QED
    BY <1>1, <2>1, FS_Subset
<1>3. ASSUME NEW p
      PROVE  /\ IsFiniteSet({q \in NewLines(s) : q <= p})
             /\ Ended(s, p) \in Nat /\ Ended(s, p) <= Cardinality(NewLines(s))
  <2>1. {q \in NewLines(s) : q <= p} \in SUBSET NewLines(s)
    OBVIOUS
  <2> QED
    BY <1>2, <2>1, FS_Subset, FS_CardinalityType DEF Ended
<1> QED
  BY <1>1, <1>2, <1>3, Zenon

\* More lines have ended by a later newline.
LEMMA EndedLess ==
  ASSUME NEW s \in Seq(Bytes), NEW p \in NewLines(s), NEW q \in NewLines(s), p < q
  PROVE  Ended(s, p) < Ended(s, q)
<1> DEFINE P == {r \in NewLines(s) : r <= p}
           Q == {r \in NewLines(s) : r <= q}
<1>1. NewLines(s) \in SUBSET Nat
  BY NewLinesType
<1>2. P \in SUBSET Q /\ q \in Q /\ q \notin P
  BY <1>1
<1>3. IsFiniteSet(P) /\ IsFiniteSet(Q)
  BY NewLinesType
<1>4. Cardinality(P) \in Nat /\ Cardinality(Q) \in Nat
  BY <1>3, FS_CardinalityType
<1> HIDE DEF P, Q
<1>5. Cardinality(P) <= Cardinality(Q) /\ Cardinality(P) # Cardinality(Q)
  BY <1>2, <1>3, FS_Subset
<1>6. Cardinality(P) < Cardinality(Q)
  BY <1>4, <1>5
<1> QED
  BY <1>6 DEF P, Q, Ended

\* So the newline by which k lines have ended is the k-th.
LEMMA EndIs ==
  ASSUME NEW s \in Seq(Bytes), NEW p \in NewLines(s), NEW k, Ended(s, p) = k, k # 0
  PROVE  End(s, k) = p
<1>1. /\ \E r \in NewLines(s) : Ended(s, r) = k
      /\ End(s, k) = CHOOSE r \in NewLines(s) : Ended(s, r) = k
  BY DEF End
<1>2. End(s, k) \in NewLines(s) /\ Ended(s, End(s, k)) = k
  BY <1>1
<1>3. NewLines(s) \in SUBSET Nat /\ Ended(s, p) \in Nat
  BY NewLinesType
<1>4. ASSUME p < End(s, k) PROVE FALSE
  BY <1>2, <1>3, <1>4, EndedLess
<1>5. ASSUME End(s, k) < p PROVE FALSE
  <2>1. k < k
    BY <1>2, <1>5, EndedLess
  <2> QED
    BY <1>3, <2>1
<1> QED
  BY <1>2, <1>3, <1>4, <1>5

\* The first newline after p ends one line more.
LEMMA NextLine ==
  ASSUME NEW s \in Seq(Bytes), NEW e \in Nat, NEW p \in NewLines(s), e < p,
         \A q \in NewLines(s) : q <= e \/ p <= q
  PROVE  Ended(s, p) = Ended(s, e) + 1
<1> DEFINE E == {q \in NewLines(s) : q <= e}
           P == {q \in NewLines(s) : q <= p}
<1>1. NewLines(s) \in SUBSET Nat /\ IsFiniteSet(E)
  BY NewLinesType
<1>2. P = E \cup {p} /\ p \notin E
  BY <1>1
<1> HIDE DEF E, P
<1>3. Cardinality(P) = Cardinality(E) + 1
  BY <1>1, <1>2, FS_AddElement
<1> QED
  BY <1>3 DEF E, P, Ended

\* No line has ended before the first byte.
LEMMA NoneEnded ==
  ASSUME NEW s \in Seq(Bytes)
  PROVE  Ended(s, 0) = 0 /\ End(s, 0) = 0
<1>1. NewLines(s) \subseteq 1 .. Len(s) /\ Len(s) \in Nat
  BY NewLinesType
<1>2. {q \in NewLines(s) : q <= 0} = {}
  BY <1>1
<1> QED
  BY <1>2, FS_EmptySet DEF Ended, End

\* Count stops at the first newline or goes to the end.
LEMMA CountIs ==
  ASSUME NEW s \in Seq(Bytes)
  PROVE  /\ Count(s) \in 0 .. Len(s)
         /\ s # <<>> => Count(s) > 0
         /\ \A i \in NewLines(s) : Count(s) <= i
         /\ Count(s) \in NewLines(s) \/ Count(s) = Len(s)
<1>1. /\ NewLines(s) \subseteq 1 .. Len(s) /\ Len(s) \in Nat
      /\ NewLines(s) \in SUBSET Nat
      /\ s # <<>> => Len(s) > 0
  BY NewLinesType
<1>2. CASE NewLines(s) = {}
  BY <1>1, <1>2 DEF Count
<1>3. CASE NewLines(s) # {}
  <2>1. \E i \in NewLines(s) : \A j \in NewLines(s) : i <= j
    BY <1>1, <1>3, Least
  <2>2. Count(s) = CHOOSE i \in NewLines(s) : \A j \in NewLines(s) : i <= j
    BY <1>3 DEF Count
  <2>3. Count(s) \in NewLines(s) /\ \A j \in NewLines(s) : Count(s) <= j
    BY <2>1, <2>2
  <2> QED
    BY <1>1, <2>3
<1> QED
  BY <1>2, <1>3

\* A byte more is at most a newline more, behind all others.
LEMMA NewLinesGrow ==
  ASSUME NEW s \in Seq(Bytes), NEW b \in Bytes
  PROVE  /\ Append(s, b) \in Seq(Bytes) /\ Len(Append(s, b)) = Len(s) + 1
         /\ NewLines(s) \subseteq NewLines(Append(s, b))
         /\ \A q \in NewLines(Append(s, b)) : q \in NewLines(s) \/ q = Len(s) + 1
<1> DEFINE t == Append(s, b)
<1>1. /\ t \in Seq(Bytes) /\ Len(t) = Len(s) + 1 /\ Len(s) \in Nat
      /\ \A k \in 1 .. Len(s) : t[k] = s[k]
  BY AppendProperties
<1> HIDE DEF t
<1>2. DOMAIN s = 1 .. Len(s) /\ DOMAIN t = 1 .. Len(s) + 1
  BY <1>1
<1>3. NewLines(s) \subseteq NewLines(t)
  BY <1>1, <1>2 DEF NewLines
<1>4. \A q \in NewLines(t) : q \in NewLines(s) \/ q = Len(s) + 1
  BY <1>1, <1>2 DEF NewLines
<1>5. t \in Seq(Bytes) /\ Len(t) = Len(s) + 1
  BY <1>1
<1> QED
  BY <1>3, <1>4, <1>5 DEF t

LEMMA EndedKept ==
  ASSUME NEW s \in Seq(Bytes), NEW b \in Bytes, NEW p \in 0 .. Len(s)
  PROVE  Ended(Append(s, b), p) = Ended(s, p)
<1>1. \A q \in NewLines(Append(s, b)) : q <= p => q \in NewLines(s)
  <2>1. Len(s) \in Nat
    OBVIOUS
  <2> QED
    BY <2>1, NewLinesGrow
<1>2. NewLines(s) \subseteq NewLines(Append(s, b))
  BY NewLinesGrow
<1>3. {q \in NewLines(Append(s, b)) : q <= p} = {q \in NewLines(s) : q <= p}
  BY <1>1, <1>2
<1> QED
  BY <1>3 DEF Ended

\* Line k of s ends by t.
Complete(s, k, t) ==
  /\ End(s, k) \in NewLines(s) /\ End(s, k) <= t
  /\ Ended(s, End(s, k)) = k

LEMMA CompleteKept ==
  ASSUME NEW s \in Seq(Bytes), NEW b \in Bytes, NEW k \in Nat \ {0}, NEW t \in 0 .. Len(s),
         Complete(s, k, t)
  PROVE  Complete(Append(s, b), k, t) /\ End(Append(s, b), k) = End(s, k)
<1>1. /\ End(s, k) \in NewLines(s) /\ End(s, k) <= t /\ Ended(s, End(s, k)) = k
      /\ NewLines(s) \subseteq 1 .. Len(s) /\ Len(s) \in Nat
  BY NewLinesType DEF Complete
<1>2. End(s, k) \in 0 .. Len(s)
  BY <1>1
<1>3. Ended(Append(s, b), End(s, k)) = k
  BY <1>1, <1>2, EndedKept
<1>4. Append(s, b) \in Seq(Bytes) /\ End(s, k) \in NewLines(Append(s, b)) /\ k # 0
  BY <1>1, NewLinesGrow
<1>5. End(Append(s, b), k) = End(s, k)
  BY <1>3, <1>4, EndIs
<1> QED
  BY <1>1, <1>3, <1>4, <1>5 DEF Complete

\* What is charged to a frame does not shrink as more of the stream is written.
LEMMA CountGrows ==
  ASSUME NEW s \in Seq(Bytes), NEW b \in Bytes
  PROVE  Count(s) <= Count(Append(s, b)) /\ Count(s) \in Nat /\ Count(Append(s, b)) \in Nat
<1> DEFINE t == Append(s, b)
<1>1. /\ t \in Seq(Bytes) /\ Len(t) = Len(s) + 1 /\ Len(s) \in Nat
      /\ \A q \in NewLines(t) : q \in NewLines(s) \/ q = Len(s) + 1
  BY NewLinesGrow
<1> HIDE DEF t
<1>2. Count(s) \in 0 .. Len(s) /\ \A i \in NewLines(s) : Count(s) <= i
  BY CountIs
<1>3. Count(t) \in 0 .. Len(t) /\ (Count(t) \in NewLines(t) \/ Count(t) = Len(t))
  BY <1>1, CountIs
<1>4. Count(s) <= Count(t) /\ Count(s) \in Nat /\ Count(t) \in Nat
  BY <1>1, <1>2, <1>3
<1> QED
  BY <1>4 DEF t

-----------------------------------------------------------------------------
(***************************************************************************)
(* Input::frame.  A byte of the stream is before the end of the last frame *)
(* returned, in the frame in progress, in the buffer, or not yet read, in  *)
(* that order; so the frames are the lines, whatever the pieces were.      *)
(***************************************************************************)
Begun == End(stream, Len(frames))

Returned ==
  \A k \in 1 .. Len(frames) :
    /\ Complete(stream, k, taken)
    /\ frames[k] = Line(stream, k) /\ Len(frames[k]) <= MaxFrame

Placed ==
  /\ taken + Len(buffer) = read
  /\ buffer = SubSeq(stream, taken + 1, read)
  /\ Begun \in 0 .. taken /\ Ended(stream, Begun) = Len(frames)
  /\ partial = SubSeq(stream, Begun + 1, taken)
  /\ NewLines(partial) = {} /\ Len(partial) <= MaxFrame

Cut == InputTypeOK /\ Placed /\ Returned

LEMMA InitCut == InputInit => Cut
<1> SUFFICES ASSUME InputInit PROVE Cut
  OBVIOUS
<1>1. stream = <<>> /\ buffer = <<>> /\ partial = <<>> /\ frames = <<>>
  BY DEF InputInit
<1>2. <<>> \in Seq(Bytes) /\ <<>> \in Seq(Seq(Bytes)) /\ Len(<<>>) = 0
  OBVIOUS
<1>3. InputTypeOK
  <2>1. 0 \in 0 .. MaxTotal /\ 0 <= BufferSize /\ 0 \in 0 .. 0
    BY LimitsAssumption, FrameInputAssumption
  <2>2. read \in 0 .. Len(stream) /\ taken \in 0 .. MaxTotal /\ Len(buffer) <= BufferSize
    BY <1>1, <1>2, <2>1 DEF InputInit
  <2> QED
    BY <1>1, <1>2, <2>2 DEF InputInit, InputTypeOK
<1>4. Begun = 0 /\ Ended(stream, 0) = 0
  BY <1>1, <1>2, NoneEnded DEF Begun
<1>5. SubSeq(<<>>, 0 + 1, 0) = <<>> /\ NewLines(<<>>) = {}
  BY DEF NewLines
<1>6. Placed
  BY <1>1, <1>2, <1>4, <1>5, LimitsAssumption DEF InputInit, Placed
<1>7. Returned
  BY <1>1, <1>2 DEF Returned
<1> QED
  BY <1>3, <1>6, <1>7 DEF Cut

\* What places the reader in its stream.
LEMMA Places ==
  ASSUME Cut
  PROVE  /\ stream \in Seq(Bytes) /\ Len(stream) \in Nat
         /\ buffer \in Seq(Bytes) /\ Len(buffer) \in Nat
         /\ partial \in Seq(Bytes) /\ Len(partial) \in Nat
         /\ frames \in Seq(Seq(Bytes)) /\ Len(frames) \in Nat
         /\ read \in 0 .. Len(stream) /\ taken \in 0 .. read /\ taken = read - Len(buffer)
         /\ Begun \in 0 .. taken
         /\ buffer = SubSeq(stream, taken + 1, read)
         /\ partial = SubSeq(stream, Begun + 1, taken)
<1>1. /\ stream \in Seq(Bytes) /\ Len(stream) \in Nat
      /\ buffer \in Seq(Bytes) /\ Len(buffer) \in Nat
      /\ partial \in Seq(Bytes) /\ Len(partial) \in Nat
      /\ frames \in Seq(Seq(Bytes)) /\ Len(frames) \in Nat
      /\ read \in 0 .. Len(stream)
  BY DEF Cut, InputTypeOK
<1>2. taken \in Nat
  BY LimitsAssumption DEF Cut, InputTypeOK
<1>3. taken \in 0 .. read /\ taken = read - Len(buffer)
  BY <1>1, <1>2 DEF Cut, Placed
<1> QED
  BY <1>1, <1>3 DEF Cut, Placed

LEMMA ArrivesCut ==
  ASSUME Cut, NEW b \in Bytes, ByteArrives(b)
  PROVE  Cut'
<1> DEFINE t == Append(stream, b)
<1>1. stream' = t /\ UNCHANGED <<closed, read, buffer, taken, partial, frames, state>>
  BY DEF ByteArrives
<1>2. /\ stream \in Seq(Bytes) /\ Len(stream) \in Nat
      /\ read \in 0 .. Len(stream) /\ taken \in 0 .. read /\ Begun \in 0 .. taken
      /\ Len(frames) \in Nat
      /\ buffer = SubSeq(stream, taken + 1, read)
      /\ partial = SubSeq(stream, Begun + 1, taken)
  BY Places
<1>3. t \in Seq(Bytes) /\ Len(t) = Len(stream) + 1
  BY <1>2, NewLinesGrow
<1>4. InputTypeOK'
  <2>1. read' \in 0 .. Len(stream')
    BY <1>1, <1>2, <1>3
  <2> QED
    BY <1>1, <1>3, <2>1 DEF Cut, InputTypeOK
<1>5. taken \in 0 .. Len(stream) /\ read \in taken .. Len(stream)
      /\ Begun \in 0 .. Len(stream) /\ taken \in Begun .. Len(stream)
  BY <1>2
<1>6. ASSUME NEW k \in 1 .. Len(frames)
      PROVE  Complete(t, k, taken) /\ End(t, k) = End(stream, k)
  <2>1. Complete(stream, k, taken) /\ k \in Nat \ {0}
    BY <1>2 DEF Cut, Returned
  <2> QED
    BY <1>2, <1>5, <2>1, CompleteKept
<1>7. End(t, 0) = End(stream, 0)
  BY DEF End
<1>8. ASSUME NEW k \in 1 .. Len(frames)
      PROVE  Line(t, k) = Line(stream, k)
  <2>1. End(t, k) = End(stream, k) /\ End(t, k - 1) = End(stream, k - 1)
    <3>1. k - 1 = 0 \/ k - 1 \in 1 .. Len(frames)
      BY <1>2
    <3> QED
      BY <1>6, <1>7, <3>1
  <2>2. End(stream, k) \in 0 .. Len(stream) /\ End(stream, k - 1) \in 0 .. Len(stream)
    <3>1. End(stream, k) \in NewLines(stream)
      BY DEF Cut, Returned, Complete
    <3>2. k - 1 = 0 \/ End(stream, k - 1) \in NewLines(stream)
      BY <1>2 DEF Cut, Returned, Complete
    <3>3. End(stream, 0) = 0 /\ NewLines(stream) \subseteq 1 .. Len(stream)
      BY <1>2, NoneEnded, NewLinesType
    <3> QED
      BY <1>2, <3>1, <3>2, <3>3
  <2>3. CASE End(stream, k - 1) <= End(stream, k)
    <3>1. End(stream, k) \in End(stream, k - 1) .. Len(stream)
      BY <1>2, <2>2, <2>3
    <3> HIDE DEF t
    <3>2. SubSeq(t, End(stream, k - 1) + 1, End(stream, k))
            = SubSeq(stream, End(stream, k - 1) + 1, End(stream, k))
      BY <1>2, <2>2, <3>1, SliceKept DEF t
    <3> QED
      BY <2>1, <3>2 DEF Line
  <2>4. CASE ~(End(stream, k - 1) <= End(stream, k))
    <3>1. End(stream, k) < End(stream, k - 1) + 1
          /\ End(stream, k - 1) + 1 \in Int /\ End(stream, k) \in Int
      BY <2>2, <2>4
    <3>2. /\ SubSeq(t, End(stream, k - 1) + 1, End(stream, k)) = <<>>
          /\ SubSeq(stream, End(stream, k - 1) + 1, End(stream, k)) = <<>>
      BY <3>1, SubSeqEmpty
    <3> QED
      BY <2>1, <3>2 DEF Line
  <2> QED
    BY <2>3, <2>4
<1>9. Returned'
  <2>1. ASSUME NEW k \in 1 .. Len(frames)
        PROVE  /\ Complete(t, k, taken)
               /\ frames[k] = Line(t, k) /\ Len(frames[k]) <= MaxFrame
    BY <1>6, <1>8 DEF Cut, Returned
  <2> QED
    BY <1>1, <2>1 DEF Returned
<1>10. Begun' = Begun
  <2>1. Len(frames) = 0 \/ Len(frames) \in 1 .. Len(frames)
    BY <1>2
  <2>2. End(t, Len(frames)) = End(stream, Len(frames))
    BY <1>6, <1>7, <2>1
  <2> QED
    BY <1>1, <2>2 DEF Begun
<1>11. Placed'
  <2>1. SubSeq(t, taken + 1, read) = SubSeq(stream, taken + 1, read)
    BY <1>2, <1>5, SliceKept
  <2>2. SubSeq(t, Begun + 1, taken) = SubSeq(stream, Begun + 1, taken)
    BY <1>2, <1>5, SliceKept
  <2>3. Ended(t, Begun) = Ended(stream, Begun)
    BY <1>2, <1>5, EndedKept
  <2> QED
    BY <1>1, <1>10, <2>1, <2>2, <2>3 DEF Cut, Placed
<1> QED
  BY <1>4, <1>9, <1>11 DEF Cut

LEMMA FillCut ==
  ASSUME Cut, NEW n \in 1 .. BufferSize, Fill(n)
  PROVE  Cut'
<1>1. /\ buffer = <<>> /\ n <= Len(stream) - read
      /\ buffer' = SubSeq(stream, read + 1, read + n) /\ read' = read + n
      /\ UNCHANGED <<stream, closed, taken, partial, frames, state>>
  BY DEF Fill
<1>2. /\ stream \in Seq(Bytes) /\ Len(stream) \in Nat
      /\ read \in 0 .. Len(stream) /\ taken = read - Len(buffer)
  BY Places
<1>3. taken = read
  <2>1. Len(<<>>) = 0
    OBVIOUS
  <2> QED
    BY <1>1, <1>2, <2>1
<1>4. n \in Nat /\ n <= BufferSize /\ read + n \in read .. Len(stream) /\ read + n - read = n
  BY <1>1, <1>2, FrameInputAssumption
<1>5. buffer' \in Seq(Bytes) /\ Len(buffer') = n
  BY <1>1, <1>2, <1>4, Slice
<1>6. InputTypeOK'
  <2>1. read' \in 0 .. Len(stream)
    BY <1>1, <1>2, <1>4
  <2>2. Len(buffer') <= BufferSize
    BY <1>4, <1>5
  <2> QED
    BY <1>1, <1>5, <2>1, <2>2 DEF Cut, InputTypeOK
<1>7. Begun' = Begun
  BY <1>1 DEF Begun
<1>8. Placed'
  BY <1>1, <1>2, <1>3, <1>4, <1>5, <1>7 DEF Cut, Placed
<1>9. Returned'
  BY <1>1 DEF Cut, Returned
<1> QED
  BY <1>6, <1>8, <1>9 DEF Cut

\* Up to the count, the frame in progress and the buffer are a slice of the stream,
\* with a newline at its end or nowhere.
Grown == partial \o SubSeq(buffer, 1, Count(buffer))

LEMMA GrownIs ==
  ASSUME Cut, buffer # <<>>
  PROVE  /\ Count(buffer) \in 1 .. Len(buffer)
         /\ taken + Count(buffer) \in taken .. read
         /\ Grown \in Seq(Bytes) /\ Len(Grown) = Len(partial) + Count(buffer)
         /\ Grown = SubSeq(stream, Begun + 1, taken + Count(buffer))
         /\ SubSeq(buffer, Count(buffer) + 1, Len(buffer))
              = SubSeq(stream, taken + Count(buffer) + 1, read)
         /\ Grown[Len(Grown)] = stream[taken + Count(buffer)]
         /\ \A q \in NewLines(stream) : q <= Begun \/ q >= taken + Count(buffer)
<1> DEFINE count == Count(buffer)
           grown == Grown
<1>1. /\ stream \in Seq(Bytes) /\ Len(stream) \in Nat
      /\ buffer \in Seq(Bytes) /\ Len(buffer) \in Nat
      /\ partial \in Seq(Bytes)
      /\ read \in 0 .. Len(stream) /\ taken \in 0 .. read /\ taken = read - Len(buffer)
      /\ Begun \in 0 .. taken
  BY Places
<1>slices. /\ buffer = SubSeq(stream, taken + 1, read)
           /\ partial = SubSeq(stream, Begun + 1, taken)
  BY Places
<1>2. /\ count \in 1 .. Len(buffer)
      /\ \A i \in NewLines(buffer) : count <= i
  BY <1>1, CountIs
<1> HIDE DEF count
<1>3. taken + count \in taken .. read /\ Len(buffer) = read - taken
  BY <1>1, <1>2
<1>4. /\ taken \in 0 .. Len(stream) /\ read \in taken .. Len(stream)
      /\ Begun \in 0 .. Len(stream) /\ taken \in Begun .. Len(stream)
      /\ taken + count \in taken .. Len(stream) /\ taken + count \in Begun .. Len(stream)
      /\ taken + count \in 0 .. Len(stream)
      /\ 0 \in 0 .. read - taken /\ count \in 0 .. read - taken
      /\ read - taken \in count .. read - taken
      /\ taken + (read - taken) = read
  BY <1>1, <1>2, <1>3
<1>5. SubSeq(buffer, 1, count) = SubSeq(stream, taken + 1, taken + count)
  <2>1. SubSeq(SubSeq(stream, taken + 1, read), 0 + 1, count)
          = SubSeq(stream, taken + 0 + 1, taken + count)
    BY <1>1, <1>4, SliceOfSlice
  <2>2. 0 + 1 = 1 /\ taken + 0 + 1 = taken + 1
    BY <1>1
  <2> QED
    BY <1>slices, <2>1, <2>2
<1>6. SubSeq(buffer, count + 1, Len(buffer)) = SubSeq(stream, taken + count + 1, read)
  <2>1. SubSeq(SubSeq(stream, taken + 1, read), count + 1, read - taken)
          = SubSeq(stream, taken + count + 1, taken + (read - taken))
    BY <1>1, <1>4, SliceOfSlice
  <2> QED
    BY <1>slices, <1>3, <1>4, <2>1
<1>7. grown = SubSeq(stream, Begun + 1, taken + count)
  <2>1. SubSeq(stream, Begun + 1, taken) \o SubSeq(stream, taken + 1, taken + count)
          = SubSeq(stream, Begun + 1, taken + count)
    BY <1>1, <1>4, SlicesMeet
  <2> QED
    BY <1>slices, <1>5, <2>1 DEF Grown, count
<1> HIDE DEF grown
<1>8. /\ grown \in Seq(Bytes) /\ Len(grown) = (taken + count) - Begun
      /\ \A i \in 1 .. (taken + count) - Begun : grown[i] = stream[Begun + i]
  <2> DEFINE z == taken + count
  <2>1. z \in Begun .. Len(stream) /\ grown = SubSeq(stream, Begun + 1, z)
    BY <1>4, <1>7
  <2> HIDE DEF z
  <2>2. /\ grown \in Seq(Bytes) /\ Len(grown) = z - Begun
        /\ \A i \in 1 .. z - Begun : grown[i] = stream[Begun + i]
    BY <1>1, <1>4, <2>1, Slice
  <2> QED
    BY <2>2 DEF z
<1>9. Len(partial) = taken - Begun
      /\ \A i \in 1 .. taken - Begun : partial[i] = stream[Begun + i]
  BY <1>1, <1>slices, <1>4, Slice
<1>10. Len(grown) = Len(partial) + count
  BY <1>1, <1>2, <1>8, <1>9
<1>11. grown[Len(grown)] = stream[taken + count]
  <2>1. /\ (taken + count) - Begun \in 1 .. (taken + count) - Begun
        /\ Begun + ((taken + count) - Begun) = taken + count
    BY <1>1, <1>2
  <2> QED
    BY <1>8, <2>1
<1>12. ASSUME NEW q \in NewLines(stream), q > Begun, q < taken + count PROVE FALSE
  <2>1. q \in 1 .. Len(stream) /\ stream[q] = NewLine
    BY <1>1, NewLinesType DEF NewLines
  <2>2. CASE q <= taken
    <3>1. q - Begun \in 1 .. taken - Begun /\ Begun + (q - Begun) = q
      BY <1>1, <1>12, <2>1, <2>2
    <3>2. partial[q - Begun] = NewLine /\ q - Begun \in DOMAIN partial
      BY <1>1, <1>9, <2>1, <3>1
    <3>3. NewLines(partial) # {}
      BY <3>2 DEF NewLines
    <3> QED
      BY <3>3 DEF Cut, Placed
  <2>3. CASE q > taken
    <3>1. q - taken \in 1 .. read - taken /\ taken + (q - taken) = q /\ q - taken < count
      BY <1>1, <1>2, <1>3, <1>12, <2>1, <2>3
    <3>2. \A i \in 1 .. read - taken : SubSeq(stream, taken + 1, read)[i] = stream[taken + i]
      BY <1>1, <1>4, Slice
    <3>3. buffer[q - taken] = NewLine
      BY <1>slices, <2>1, <3>1, <3>2
    <3>4. DOMAIN buffer = 1 .. read - taken
      BY <1>1, <1>3
    <3>5. q - taken \in NewLines(buffer)
      BY <3>1, <3>3, <3>4 DEF NewLines
    <3>6. count <= q - taken
      BY <1>2, <3>5
    <3> QED
      BY <1>1, <1>2, <2>1, <3>1, <3>6
  <2> QED
    BY <1>1, <2>1, <2>2, <2>3
<1>13. \A q \in NewLines(stream) : q <= Begun \/ q >= taken + count
  <2>1. NewLines(stream) \in SUBSET Nat
    BY <1>1, NewLinesType
  <2> QED
    BY <1>1, <1>2, <1>12, <2>1
<1> QED
  BY <1>2, <1>3, <1>6, <1>7, <1>8, <1>10, <1>11, <1>13 DEF count, grown

\* A piece taken ends a line, and then it is the next one, or it goes on with it.
LEMMA TakeCut ==
  ASSUME Cut, Take
  PROVE  Cut'
<1> DEFINE stop == taken + Count(buffer)
<1>1. /\ stream \in Seq(Bytes) /\ Len(stream) \in Nat
      /\ buffer \in Seq(Bytes) /\ Len(buffer) \in Nat
      /\ partial \in Seq(Bytes) /\ Len(partial) \in Nat
      /\ frames \in Seq(Seq(Bytes)) /\ Len(frames) \in Nat
      /\ read \in 0 .. Len(stream) /\ taken \in 0 .. read /\ taken = read - Len(buffer)
      /\ Begun \in 0 .. taken
  BY Places
<1>2. buffer # <<>> /\ Within(Count(buffer))
  BY DEF Take
<1>3. /\ buffer' = SubSeq(buffer, Count(buffer) + 1, Len(buffer))
      /\ taken' = stop
      /\ frames' = IF Grown[Len(Grown)] = NewLine THEN Append(frames, Grown) ELSE frames
      /\ partial' = IF Grown[Len(Grown)] = NewLine THEN <<>> ELSE Grown
      /\ UNCHANGED <<stream, closed, read, state>>
  BY DEF Take, Grown
<1>4. /\ Count(buffer) \in 1 .. Len(buffer) /\ stop \in taken .. read
      /\ Grown \in Seq(Bytes) /\ Len(Grown) = Len(partial) + Count(buffer)
  BY <1>2, GrownIs
<1>last. /\ Grown[Len(Grown)] = stream[stop]
         /\ \A q \in NewLines(stream) : q <= Begun \/ q >= stop
  BY <1>2, GrownIs
<1>slices. /\ Grown = SubSeq(stream, Begun + 1, stop)
           /\ SubSeq(buffer, Count(buffer) + 1, Len(buffer)) = SubSeq(stream, stop + 1, read)
  BY <1>2, GrownIs
<1>5. stop <= MaxTotal /\ Len(Grown) <= MaxFrame
  <2>1. MaxFrame \in Nat /\ MaxTotal \in Nat
    BY LimitsAssumption
  <2> QED
    BY <1>1, <1>2, <1>4, <2>1 DEF Within
<1>6. stop > taken /\ stop \in 1 .. Len(stream)
  BY <1>1, <1>4
<1> HIDE DEF stop
<1>7. buffer' \in Seq(Bytes) /\ Len(buffer') = read - stop /\ Len(buffer') <= Len(buffer)
  <2>1. stop \in 0 .. Len(stream) /\ read \in stop .. Len(stream)
    BY <1>1, <1>4
  <2>2. buffer' = SubSeq(stream, stop + 1, read)
    BY <1>3, <1>slices
  <2>3. buffer' \in Seq(Bytes) /\ Len(buffer') = read - stop
    BY <1>1, <2>1, <2>2, Slice
  <2> QED
    BY <1>1, <1>6, <2>3
<1>8. InputTypeOK'
  <2>1. partial' \in Seq(Bytes)
    BY <1>3, <1>4
  <2>2. frames' \in Seq(Seq(Bytes))
    BY <1>1, <1>3, <1>4
  <2>3. taken' \in 0 .. MaxTotal
    BY <1>1, <1>3, <1>5, <1>6, LimitsAssumption
  <2>4. Len(buffer') <= BufferSize
    BY <1>1, <1>7, FrameInputAssumption DEF Cut, InputTypeOK
  <2> QED
    BY <1>3, <1>7, <2>1, <2>2, <2>3, <2>4 DEF Cut, InputTypeOK
<1>9. ASSUME NEW k \in 1 .. Len(frames)
      PROVE  /\ Complete(stream, k, stop)
             /\ frames[k] = Line(stream, k) /\ Len(frames[k]) <= MaxFrame
  <2>1. /\ Complete(stream, k, taken)
        /\ frames[k] = Line(stream, k) /\ Len(frames[k]) <= MaxFrame
    BY DEF Cut, Returned
  <2>2. NewLines(stream) \in SUBSET Nat
    BY <1>1, NewLinesType
  <2>3. Complete(stream, k, stop)
    BY <1>1, <1>6, <2>1, <2>2 DEF Complete
  <2> QED
    BY <2>1, <2>3
<1>10. CASE Grown[Len(Grown)] = NewLine
  <2> DEFINE n == Len(frames) + 1
  <2>1. /\ frames' = Append(frames, Grown) /\ partial' = <<>>
        /\ Len(frames') = n /\ frames'[n] = Grown
        /\ \A k \in 1 .. Len(frames) : frames'[k] = frames[k]
    <3>1. frames' = Append(frames, Grown) /\ partial' = <<>>
      BY <1>3, <1>10
    <3> QED
      BY <1>1, <1>4, <3>1, AppendProperties
  <2>2. stop \in NewLines(stream)
    <3>1. stream[stop] = NewLine
      BY <1>last, <1>10
    <3>2. stop \in DOMAIN stream
      BY <1>1, <1>6
    <3> QED
      BY <3>1, <3>2 DEF NewLines
  <2>3. Begun \in Nat /\ Begun < stop
        /\ \A q \in NewLines(stream) : q <= Begun \/ stop <= q
    BY <1>1, <1>last, <1>6
  <2>4. Ended(stream, stop) = Ended(stream, Begun) + 1
    BY <1>1, <2>2, <2>3, NextLine
  <2>5. Ended(stream, stop) = n /\ n # 0 /\ n \in Nat
    BY <1>1, <2>4 DEF Cut, Placed
  <2>6. End(stream, n) = stop
    BY <1>1, <2>2, <2>5, EndIs
  <2>7. Grown = Line(stream, n)
    <3>1. n - 1 = Len(frames)
      BY <1>1
    <3> QED
      BY <1>slices, <2>6, <3>1 DEF Line, Begun
  <2>8. Complete(stream, n, stop)
    BY <1>6, <2>2, <2>5, <2>6 DEF Complete
  <2>9. Begun' = stop
    BY <1>3, <2>1, <2>6 DEF Begun
  <2>10. /\ SubSeq(stream, stop + 1, stop) = <<>> /\ NewLines(<<>>) = {}
         /\ Len(<<>>) = 0 /\ 0 <= MaxFrame
    <3>1. SubSeq(stream, stop + 1, stop) = <<>>
      BY <1>6, SubSeqEmpty
    <3>2. NewLines(<<>>) = {} /\ Len(<<>>) = 0
      BY DEF NewLines
    <3> QED
      BY <3>1, <3>2, LimitsAssumption
  <2>11. Placed'
    <3>1. taken' + Len(buffer') = read'
      BY <1>1, <1>3, <1>6, <1>7
    <3>2. Begun' \in 0 .. taken'
      BY <1>3, <1>6, <2>9
    <3>3. buffer' = SubSeq(stream', taken' + 1, read')
      BY <1>3, <1>slices
    <3>4. partial' = SubSeq(stream', Begun' + 1, taken')
      BY <1>3, <2>1, <2>9, <2>10
    <3>5. Ended(stream', Begun') = Len(frames')
      BY <1>3, <2>1, <2>5, <2>9
    <3>6. NewLines(partial') = {} /\ Len(partial') <= MaxFrame
      BY <2>1, <2>10
    <3> QED
      BY <3>1, <3>2, <3>3, <3>4, <3>5, <3>6 DEF Placed
  <2>12. ASSUME NEW k \in 1 .. n
         PROVE  /\ Complete(stream, k, stop)
                /\ frames'[k] = Line(stream, k) /\ Len(frames'[k]) <= MaxFrame
    <3>1. CASE k = n
      BY <1>5, <2>1, <2>7, <2>8, <3>1
    <3>2. CASE k # n
      <4>1. k \in 1 .. Len(frames)
        BY <1>1, <3>2
      <4> QED
        BY <1>9, <2>1, <4>1
    <3> QED
      BY <3>1, <3>2
  <2>13. Returned'
    BY <1>3, <2>1, <2>12 DEF Returned
  <2> QED
    BY <1>8, <2>11, <2>13 DEF Cut
<1>11. CASE Grown[Len(Grown)] # NewLine
  <2>1. frames' = frames /\ partial' = Grown
    BY <1>3, <1>11
  <2>2. Begun' = Begun
    BY <1>3, <2>1 DEF Begun
  <2>3. ASSUME NEW i \in NewLines(Grown) PROVE FALSE
    <3>1. stop \in Begun .. Len(stream) /\ Begun \in 0 .. Len(stream)
      BY <1>1, <1>6
    <3>2. Len(Grown) = stop - Begun /\ \A j \in 1 .. stop - Begun : Grown[j] = stream[Begun + j]
      BY <1>1, <1>slices, <3>1, Slice
    <3>3. i \in 1 .. stop - Begun /\ Grown[i] = NewLine
      BY <1>4, <3>2, NewLinesType DEF NewLines
    <3>4. Begun + i \in 1 .. Len(stream) /\ stream[Begun + i] = NewLine
      BY <1>1, <1>6, <3>1, <3>2, <3>3
    <3>5. Begun + i \in NewLines(stream)
      BY <1>1, <3>4 DEF NewLines
    <3>6. Begun + i >= stop
      BY <1>1, <1>last, <1>6, <3>3, <3>4, <3>5
    <3>7. i = Len(Grown)
      BY <1>1, <1>6, <3>1, <3>2, <3>3, <3>6
    <3> QED
      BY <1>11, <3>3, <3>7
  <2>4. Placed'
    <3>1. taken' + Len(buffer') = read'
      BY <1>1, <1>3, <1>6, <1>7
    <3>2. Begun' \in 0 .. taken'
      BY <1>1, <1>3, <1>6, <2>2
    <3>3. buffer' = SubSeq(stream', taken' + 1, read')
      BY <1>3, <1>slices
    <3>4. partial' = SubSeq(stream', Begun' + 1, taken')
      BY <1>3, <1>slices, <2>1, <2>2
    <3>5. Ended(stream', Begun') = Len(frames')
      BY <1>3, <2>1, <2>2 DEF Cut, Placed
    <3>6. NewLines(partial') = {} /\ Len(partial') <= MaxFrame
      BY <1>5, <2>1, <2>3
    <3> QED
      BY <3>1, <3>2, <3>3, <3>4, <3>5, <3>6 DEF Placed
  <2>5. Returned'
    BY <1>3, <1>9, <2>1 DEF Returned
  <2> QED
    BY <1>8, <2>4, <2>5 DEF Cut
<1> QED
  BY <1>10, <1>11

LEMMA NextCut == Cut /\ [InputNext]_inputVars => Cut'
<1> SUFFICES ASSUME Cut, [InputNext]_inputVars PROVE Cut'
  OBVIOUS
<1>1. ASSUME UNCHANGED <<stream, read, buffer, taken, partial, frames>>,
             closed' \in BOOLEAN, state' \in {"open", "failed"}
      PROVE  Cut'
  BY <1>1 DEF Cut, InputTypeOK, Placed, Returned, Begun
<1>2. ASSUME NEW b \in Bytes, ByteArrives(b) PROVE Cut'
  BY <1>2, ArrivesCut
<1>3. ASSUME HostCloses PROVE Cut'
  BY <1>1, <1>3 DEF HostCloses, Cut, InputTypeOK
<1>4. ASSUME NEW n \in 1 .. BufferSize, Fill(n) PROVE Cut'
  BY <1>4, FillCut
<1>5. ASSUME EndOfInput \/ Refuse PROVE Cut'
  BY <1>1, <1>5 DEF EndOfInput, Refuse, Cut, InputTypeOK
<1>6. ASSUME Take PROVE Cut'
  BY <1>6, TakeCut
<1>7. ASSUME UNCHANGED inputVars PROVE Cut'
  BY <1>1, <1>7 DEF inputVars, Cut, InputTypeOK
<1> QED
  BY <1>2, <1>3, <1>4, <1>5, <1>6, <1>7 DEF InputNext

LEMMA CutFramesAreLines == Cut => FramesAreLines
<1> SUFFICES ASSUME Cut PROVE FramesAreLines
  OBVIOUS
<1>1. /\ stream \in Seq(Bytes) /\ Len(stream) \in Nat
      /\ frames \in Seq(Seq(Bytes)) /\ Len(frames) \in Nat
      /\ read \in 0 .. Len(stream) /\ taken \in 0 .. read /\ taken = read - Len(buffer)
      /\ Begun \in 0 .. taken
  BY Places
<1>slices. /\ buffer = SubSeq(stream, taken + 1, read)
           /\ partial = SubSeq(stream, Begun + 1, taken)
  BY Places
<1>2. Len(frames) <= Cardinality(NewLines(stream))
  BY <1>1, NewLinesType DEF Cut, Placed
<1>3. \A k \in DOMAIN frames : frames[k] = Line(stream, k) /\ Len(frames[k]) <= MaxFrame
  BY <1>1 DEF Cut, Returned
<1>4. SubSeq(stream, Begun + 1, taken) \o SubSeq(stream, taken + 1, read)
        = SubSeq(stream, Begun + 1, read)
  <2>1. Begun \in 0 .. Len(stream) /\ taken \in Begun .. Len(stream) /\ read \in taken .. Len(stream)
    BY <1>1
  <2> QED
    BY <1>1, <2>1, SlicesMeet
<1>5. partial \o buffer = SubSeq(stream, Begun + 1, read)
  BY <1>slices, <1>4
<1> QED
  BY <1>1, <1>2, <1>3, <1>5 DEF FramesAreLines, Begun

\* Bytes that arrive later, and what is done with them, do not excuse a failure.
Rest == SubSeq(stream, Begun + 1, Len(stream))

LEMMA RefuseCause ==
  ASSUME Cut, Refuse
  PROVE  Count(Rest) > MaxFrame \/ Begun + Count(Rest) > MaxTotal
<1>1. /\ stream \in Seq(Bytes) /\ Len(stream) \in Nat
      /\ buffer \in Seq(Bytes) /\ Len(buffer) \in Nat
      /\ partial \in Seq(Bytes)
      /\ read \in 0 .. Len(stream) /\ taken \in 0 .. read /\ taken = read - Len(buffer)
      /\ Begun \in 0 .. taken
  BY Places
<1>2. buffer # <<>> /\ ~Within(Count(buffer))
  BY DEF Refuse
<1>3. /\ Count(buffer) \in 1 .. Len(buffer)
      /\ \A q \in NewLines(stream) : q <= Begun \/ q >= taken + Count(buffer)
  BY <1>2, GrownIs
<1>4. /\ Begun \in 0 .. Len(stream) /\ Len(stream) \in Begun .. Len(stream)
      /\ taken \in Begun .. Len(stream)
  BY <1>1
<1>5. /\ Rest \in Seq(Bytes) /\ Len(Rest) = Len(stream) - Begun
      /\ \A i \in 1 .. Len(stream) - Begun : Rest[i] = stream[Begun + i]
  BY <1>1, <1>4, Slice DEF Rest
<1>6. Len(partial) = taken - Begun
  <2>1. partial = SubSeq(stream, Begun + 1, taken)
    BY Places
  <2> QED
    BY <1>1, <1>4, <2>1, Slice
<1>7. Begun + Count(Rest) >= taken + Count(buffer) /\ Count(Rest) \in Nat
  <2>1. /\ Count(Rest) \in 0 .. Len(Rest)
        /\ Count(Rest) \in NewLines(Rest) \/ Count(Rest) = Len(Rest)
    BY <1>5, CountIs
  <2>2. CASE Count(Rest) = Len(Rest)
    BY <1>1, <1>3, <1>5, <2>1, <2>2
  <2>3. CASE Count(Rest) \in NewLines(Rest)
    <3>1. Count(Rest) \in 1 .. Len(stream) - Begun /\ Rest[Count(Rest)] = NewLine
      BY <1>5, <2>3, NewLinesType DEF NewLines
    <3>2. stream[Begun + Count(Rest)] = NewLine
      BY <1>5, <3>1
    <3>3. Begun + Count(Rest) \in DOMAIN stream /\ ~(Begun + Count(Rest) <= Begun)
      BY <1>1, <3>1
    <3>4. Begun + Count(Rest) \in NewLines(stream)
      BY <3>2, <3>3 DEF NewLines
    <3> QED
      BY <1>3, <3>1, <3>3, <3>4
  <2> QED
    BY <2>1, <2>2, <2>3
<1>8. Count(buffer) > MaxFrame - Len(partial) \/ Count(buffer) > MaxTotal - taken
  BY <1>1, <1>2, <1>3, <1>6, LimitsAssumption DEF Within
<1> QED
  BY <1>1, <1>3, <1>6, <1>7, <1>8, LimitsAssumption

LEMMA NextCause ==
  Cut /\ FailsForCause /\ [InputNext]_inputVars => FailsForCause'
<1> SUFFICES ASSUME Cut, FailsForCause, [InputNext]_inputVars, state' = "failed"
             PROVE  \/ closed' /\ read' = Len(stream') /\ NewLines(Rest') = {}
                    \/ Count(Rest') > MaxFrame
                    \/ Begun' + Count(Rest') > MaxTotal
  BY DEF FailsForCause, Rest, Begun
<1> DEFINE Cause == \/ closed /\ read = Len(stream) /\ NewLines(Rest) = {}
                    \/ Count(Rest) > MaxFrame
                    \/ Begun + Count(Rest) > MaxTotal
<1>1. state = "failed" => Cause
  BY DEF FailsForCause, Rest, Begun
<1>2. /\ stream \in Seq(Bytes) /\ Len(stream) \in Nat
      /\ Len(frames) \in Nat /\ Begun \in 0 .. taken
      /\ read \in 0 .. Len(stream) /\ taken \in 0 .. read /\ taken = read - Len(buffer)
  BY Places
<1>3. ASSUME NEW b \in Bytes, ByteArrives(b)
      PROVE  Count(Rest') > MaxFrame \/ Begun' + Count(Rest') > MaxTotal
  <2>1. /\ stream' = Append(stream, b) /\ ~closed
        /\ UNCHANGED <<closed, read, buffer, taken, partial, frames, state>>
    BY <1>3 DEF ByteArrives
  <2>2. Begun' = Begun
    <3>1. CASE Len(frames) = 0
      BY <2>1, <3>1 DEF Begun, End
    <3>2. CASE Len(frames) # 0
      <4>1. Len(frames) \in 1 .. Len(frames) /\ Len(frames) \in Nat \ {0}
            /\ taken \in 0 .. Len(stream)
        BY <1>2, <3>2
      <4>2. Complete(stream, Len(frames), taken)
        BY <4>1 DEF Cut, Returned
      <4>3. End(Append(stream, b), Len(frames)) = End(stream, Len(frames))
        BY <1>2, <4>1, <4>2, CompleteKept
      <4> QED
        BY <2>1, <4>3 DEF Begun
    <3> QED
      BY <3>1, <3>2
  <2>3. Begun \in 0 .. Len(stream) /\ Len(stream) \in Begun .. Len(stream)
    BY <1>2
  <2>4. Rest' = Append(Rest, b)
    BY <1>2, <2>1, <2>2, <2>3, RestGrows DEF Rest
  <2>5. Rest \in Seq(Bytes)
    BY <1>2, <2>3, Slice DEF Rest
  <2>6. Count(Rest) <= Count(Rest') /\ Count(Rest) \in Nat /\ Count(Rest') \in Nat
    BY <2>4, <2>5, CountGrows
  <2>7. Count(Rest) > MaxFrame \/ Begun + Count(Rest) > MaxTotal
    BY <1>1, <2>1
  <2> QED
    BY <1>2, <2>2, <2>6, <2>7, LimitsAssumption
<1>4. ASSUME HostCloses PROVE Count(Rest') > MaxFrame \/ Begun' + Count(Rest') > MaxTotal
  <2>1. ~closed /\ UNCHANGED <<stream, read, buffer, taken, partial, frames, state>>
    BY <1>4 DEF HostCloses
  <2>2. Rest' = Rest /\ Begun' = Begun
    BY <2>1 DEF Rest, Begun
  <2> QED
    BY <1>1, <2>1, <2>2
<1>5. ASSUME EndOfInput PROVE closed' /\ read' = Len(stream') /\ NewLines(Rest') = {}
  <2>1. /\ buffer = <<>> /\ closed /\ read = Len(stream)
        /\ UNCHANGED <<stream, closed, read, buffer, taken, partial, frames>>
    BY <1>5 DEF EndOfInput
  <2>2. taken = read
    <3>1. Len(<<>>) = 0
      OBVIOUS
    <3> QED
      BY <1>2, <2>1, <3>1
  <2>3. Rest = partial
    BY <2>1, <2>2, Places DEF Rest
  <2>4. Rest' = Rest
    BY <2>1 DEF Rest, Begun
  <2> QED
    BY <2>1, <2>3, <2>4 DEF Cut, Placed
<1>6. ASSUME Refuse PROVE Count(Rest') > MaxFrame \/ Begun' + Count(Rest') > MaxTotal
  <2>1. Rest' = Rest /\ Begun' = Begun
    BY <1>6 DEF Refuse, Rest, Begun
  <2> QED
    BY <1>6, <2>1, RefuseCause
<1>7. ~Take /\ ~\E n \in 1 .. BufferSize : Fill(n)
  BY DEF Take, Fill
<1>8. ASSUME UNCHANGED inputVars
      PROVE  \/ closed' /\ read' = Len(stream') /\ NewLines(Rest') = {}
             \/ Count(Rest') > MaxFrame
             \/ Begun' + Count(Rest') > MaxTotal
  <2>1. UNCHANGED <<stream, closed, read, frames, state>>
    BY <1>8 DEF inputVars
  <2>2. Rest' = Rest /\ Begun' = Begun
    BY <2>1 DEF Rest, Begun
  <2> QED
    BY <1>1, <2>1, <2>2
<1> QED
  BY <1>3, <1>4, <1>5, <1>6, <1>7, <1>8 DEF InputNext

-----------------------------------------------------------------------------
(***************************************************************************)
(* request::parse.  Its guards, field by field, and the table, contract by *)
(* contract, allow the same frames.                                        *)
(***************************************************************************)

\* A frame is its fields.
LEMMA SameFrame ==
  ASSUME NEW v \in WireRequest, NEW w \in WireRequest,
         v.protocol = w.protocol, v.protocol_version = w.protocol_version, v.id = w.id,
         v.method = w.method, v.instance = w.instance, v.operation = w.operation,
         v.features = w.features, v.network = w.network,
         v.configuration = w.configuration, v.credentials = w.credentials
  PROVE  v = w
BY DEF WireRequest

LEMMA UnderIs ==
  ASSUME NEW c \in Contracts
  PROVE  Under(c) =
           [ protocol |-> CASE c = "negotiated_v1" -> "absent"
                            [] c = "legacy_setup"  -> "3"
                            [] c = "legacy_auth"   -> "4",
             protocol_version |-> IF c = "negotiated_v1" THEN "1" ELSE "absent",
             id |-> "method", method |-> "other", instance |-> "absent",
             operation |-> "absent", features |-> "absent", network |-> "absent",
             configuration |-> "absent", credentials |-> "absent" ]
BY DEF Contracts, Under, Blank


\* The table, one shape of frame after the other.
LEMMA LegalIs ==
  ASSUME NEW c \in Contracts, NEW w
  PROVE  w \in Legal(c) <=>
           \/ w = [Under(c) EXCEPT !.method = "cancel"]
           \/ /\ c = "negotiated_v1"
              /\ \E op \in Operations, f \in Feature :
                   w = [Under(c) EXCEPT !.method = "handshake", !.instance = "valid",
                                        !.operation = op, !.features = f]
           \/ /\ c = "negotiated_v1"
              /\ \E op \in Operations, n \in Context :
                   w = [Under(c) EXCEPT !.method = op, !.configuration = "valid",
                                        !.credentials = "present", !.network = n]
           \/ /\ c # "negotiated_v1"
              /\ w = [Under(c) EXCEPT !.method = "handshake", !.instance = "valid"]
           \/ c = "legacy_setup" /\ w = [Under(c) EXCEPT !.method = "describe"]
           \/ c = "legacy_auth" /\ w = [Under(c) EXCEPT !.method = "describe_auth"]
<1>1. CASE c = "negotiated_v1"
  BY <1>1 DEF Legal
<1>2. CASE c = "legacy_setup"
  BY <1>2 DEF Legal
<1>3. CASE c = "legacy_auth"
  BY <1>3 DEF Legal
<1> QED
  BY <1>1, <1>2, <1>3 DEF Contracts

\* What frame w says under contract c, field by field.
Says(w, c, m, i, o, f, n, cf, cr) ==
  /\ w \in WireRequest
  /\ w.protocol = Under(c).protocol /\ w.protocol_version = Under(c).protocol_version
  /\ w.id = "method" /\ w.method = m /\ w.instance = i /\ w.operation = o
  /\ w.features = f /\ w.network = n /\ w.configuration = cf /\ w.credentials = cr

LEMMA SaysSame ==
  ASSUME NEW c, NEW m, NEW i, NEW o, NEW f, NEW n, NEW cf, NEW cr, NEW v, NEW w,
         Says(v, c, m, i, o, f, n, cf, cr), Says(w, c, m, i, o, f, n, cf, cr)
  PROVE  v = w
BY SameFrame DEF Says

LEMMA UnderSays ==
  ASSUME NEW c \in Contracts
  PROVE  Says(Under(c), c, "other", "absent", "absent", "absent", "absent", "absent", "absent")
<1>1. Under(c) \in WireRequest
  BY UnderIs DEF Contracts, WireRequest, Methods, Operations, Networks
<1> QED
  BY <1>1, UnderIs DEF Says

\* The shapes of the table, spelled out.
LEMMA SaysMethod ==
  ASSUME NEW c \in Contracts, NEW m \in Methods
  PROVE  Says([Under(c) EXCEPT !.method = m],
              c, m, "absent", "absent", "absent", "absent", "absent", "absent")
<1> DEFINE u == Under(c)
           z == [u EXCEPT !.method = m]
<1>1. Says(u, c, "other", "absent", "absent", "absent", "absent", "absent", "absent")
  BY UnderSays
<1> HIDE DEF u
<1>2. z \in WireRequest
  BY <1>1 DEF Says, WireRequest
<1>3. /\ z.protocol = u.protocol /\ z.protocol_version = u.protocol_version /\ z.id = u.id
      /\ z.method = m /\ z.instance = u.instance /\ z.operation = u.operation
      /\ z.features = u.features /\ z.network = u.network
      /\ z.configuration = u.configuration /\ z.credentials = u.credentials
  BY <1>1 DEF Says, WireRequest
<1> HIDE DEF z
<1>4. Says(z, c, m, "absent", "absent", "absent", "absent", "absent", "absent")
  BY <1>1, <1>2, <1>3 DEF Says
<1> QED
  BY <1>4 DEF u, z

LEMMA SaysHandshake ==
  ASSUME NEW c \in Contracts
  PROVE  Says([Under(c) EXCEPT !.method = "handshake", !.instance = "valid"],
              c, "handshake", "valid", "absent", "absent", "absent", "absent", "absent")
<1> DEFINE u == Under(c)
           z == [u EXCEPT !.method = "handshake", !.instance = "valid"]
<1>1. Says(u, c, "other", "absent", "absent", "absent", "absent", "absent", "absent")
  BY UnderSays
<1> HIDE DEF u
<1>2. z \in WireRequest
  BY <1>1 DEF Says, WireRequest, Methods
<1>3. /\ z.protocol = u.protocol /\ z.protocol_version = u.protocol_version /\ z.id = u.id
      /\ z.method = "handshake" /\ z.instance = "valid" /\ z.operation = u.operation
      /\ z.features = u.features /\ z.network = u.network
      /\ z.configuration = u.configuration /\ z.credentials = u.credentials
  BY <1>1 DEF Says, WireRequest
<1> HIDE DEF z
<1>4. Says(z, c, "handshake", "valid", "absent", "absent", "absent", "absent", "absent")
  BY <1>1, <1>2, <1>3 DEF Says
<1> QED
  BY <1>4 DEF u, z

LEMMA SaysNegotiation ==
  ASSUME NEW c \in Contracts, NEW op \in Operations, NEW f \in {"absent", "network_v1"}
  PROVE  Says([Under(c) EXCEPT !.method = "handshake", !.instance = "valid",
                               !.operation = op, !.features = f],
              c, "handshake", "valid", op, f, "absent", "absent", "absent")
<1> DEFINE u == Under(c)
           z == [u EXCEPT !.method = "handshake", !.instance = "valid",
                          !.operation = op, !.features = f]
<1>1. Says(u, c, "other", "absent", "absent", "absent", "absent", "absent", "absent")
  BY UnderSays
<1> HIDE DEF u
<1>2. z \in WireRequest
  BY <1>1 DEF Says, WireRequest, Methods
<1>3. /\ z.protocol = u.protocol /\ z.protocol_version = u.protocol_version /\ z.id = u.id
      /\ z.method = "handshake" /\ z.instance = "valid" /\ z.operation = op
      /\ z.features = f /\ z.network = u.network
      /\ z.configuration = u.configuration /\ z.credentials = u.credentials
  BY <1>1 DEF Says, WireRequest
<1> HIDE DEF z
<1>4. Says(z, c, "handshake", "valid", op, f, "absent", "absent", "absent")
  BY <1>1, <1>2, <1>3 DEF Says
<1> QED
  BY <1>4 DEF u, z

LEMMA SaysOperation ==
  ASSUME NEW c \in Contracts, NEW op \in Operations,
         NEW n \in {"absent", "valid", "unloadable"}
  PROVE  Says([Under(c) EXCEPT !.method = op, !.configuration = "valid",
                               !.credentials = "present", !.network = n],
              c, op, "absent", "absent", "absent", n, "valid", "present")
<1> DEFINE u == Under(c)
           z == [u EXCEPT !.method = op, !.configuration = "valid",
                          !.credentials = "present", !.network = n]
<1>1. Says(u, c, "other", "absent", "absent", "absent", "absent", "absent", "absent")
  BY UnderSays
<1> HIDE DEF u
<1>2. z \in WireRequest
  BY <1>1 DEF Says, WireRequest, Methods, Operations, Networks
<1>3. /\ z.protocol = u.protocol /\ z.protocol_version = u.protocol_version /\ z.id = u.id
      /\ z.method = op /\ z.instance = u.instance /\ z.operation = u.operation
      /\ z.features = u.features /\ z.network = n
      /\ z.configuration = "valid" /\ z.credentials = "present"
  BY <1>1 DEF Says, WireRequest
<1> HIDE DEF z
<1>4. Says(z, c, op, "absent", "absent", "absent", n, "valid", "present")
  BY <1>1, <1>2, <1>3 DEF Says
<1> QED
  BY <1>4 DEF u, z

LEMMA UnderContract ==
  ASSUME NEW c \in Contracts, NEW w,
         w.protocol = Under(c).protocol, w.protocol_version = Under(c).protocol_version
  PROVE  ContractOf(w) = c
<1>1. CASE c = "negotiated_v1"
  BY <1>1, UnderIs DEF ContractOf, ProtocolOf
<1>2. CASE c = "legacy_setup"
  BY <1>2, UnderIs DEF ContractOf, ProtocolOf
<1>3. CASE c = "legacy_auth"
  BY <1>3, UnderIs DEF ContractOf, ProtocolOf
<1> QED
  BY <1>1, <1>2, <1>3 DEF Contracts

LEMMA LegalAccepted ==
  ASSUME NEW c \in Contracts, NEW w \in Legal(c)
  PROVE  /\ w \in WireRequest /\ w.method \in Methods /\ ContractOf(w) = c
         /\ EnvelopeOK(w) /\ CommandOK(w)
<1> DEFINE Accepted == /\ w \in WireRequest /\ w.method \in Methods /\ ContractOf(w) = c
                       /\ EnvelopeOK(w) /\ CommandOK(w)
<1> USE DEF Methods, Operations
<1>1. ASSUME NEW m, NEW i, NEW o, NEW f, NEW n, NEW cf, NEW cr,
             Says(w, c, m, i, o, f, n, cf, cr)
      PROVE  ContractOf(w) = c
  <2>1. w.protocol = Under(c).protocol /\ w.protocol_version = Under(c).protocol_version
    BY <1>1 DEF Says
  <2> QED
    BY <2>1, UnderContract
<1>2. /\ Feature \subseteq {"absent", "network_v1"}
      /\ Context \subseteq {"absent", "valid", "unloadable"}
      /\ \A f \in Feature : f # "absent" => SupportsNetwork
      /\ \A n \in Context : n # "absent" => SupportsNetwork
  BY DEF Feature, Context
<1>3. ASSUME w = [Under(c) EXCEPT !.method = "cancel"] PROVE Accepted
  <2>1. Says(w, c, "cancel", "absent", "absent", "absent", "absent", "absent", "absent")
    BY <1>3, SaysMethod
  <2>2. ContractOf(w) = c
    BY <1>1, <2>1
  <2> QED
    BY <2>1, <2>2 DEF Says, EnvelopeOK, CommandOK, Absent, Bare
<1>4. ASSUME NEW op \in Operations, NEW f \in Feature, c = "negotiated_v1",
             w = [Under(c) EXCEPT !.method = "handshake", !.instance = "valid",
                                  !.operation = op, !.features = f]
      PROVE  Accepted
  <2>1. Says(w, c, "handshake", "valid", op, f, "absent", "absent", "absent")
    BY <1>2, <1>4, SaysNegotiation
  <2>2. ContractOf(w) = c
    BY <1>1, <2>1
  <2>3. EnvelopeOK(w)
    BY <1>2, <1>4, <2>1, <2>2 DEF Says, EnvelopeOK, Absent
  <2> QED
    BY <1>4, <2>1, <2>2, <2>3 DEF Says, CommandOK, Absent, Bare
<1>5. ASSUME NEW op \in Operations, NEW n \in Context, c = "negotiated_v1",
             w = [Under(c) EXCEPT !.method = op, !.configuration = "valid",
                                  !.credentials = "present", !.network = n]
      PROVE  Accepted
  <2>1. Says(w, c, op, "absent", "absent", "absent", n, "valid", "present")
    BY <1>2, <1>5, SaysOperation
  <2>2. ContractOf(w) = c
    BY <1>1, <2>1
  <2>3. EnvelopeOK(w)
    BY <1>2, <1>5, <2>1, <2>2 DEF Says, EnvelopeOK, Absent
  <2> QED
    BY <1>5, <2>1, <2>2, <2>3 DEF Says, CommandOK, Absent
<1>6. ASSUME c # "negotiated_v1",
             w = [Under(c) EXCEPT !.method = "handshake", !.instance = "valid"]
      PROVE  Accepted
  <2>1. Says(w, c, "handshake", "valid", "absent", "absent", "absent", "absent", "absent")
    BY <1>6, SaysHandshake
  <2>2. ContractOf(w) = c
    BY <1>1, <2>1
  <2> QED
    BY <1>6, <2>1, <2>2 DEF Says, EnvelopeOK, CommandOK, Absent, Bare
<1>7. ASSUME NEW m \in {"describe", "describe_auth"},
             c = IF m = "describe" THEN "legacy_setup" ELSE "legacy_auth",
             w = [Under(c) EXCEPT !.method = m]
      PROVE  Accepted
  <2>1. Says(w, c, m, "absent", "absent", "absent", "absent", "absent", "absent")
    BY <1>7, SaysMethod
  <2>2. ContractOf(w) = c
    BY <1>1, <2>1
  <2> QED
    BY <1>7, <2>1, <2>2 DEF Says, EnvelopeOK, CommandOK, Absent, Bare
<1>8. ASSUME c = "legacy_setup", w = [Under(c) EXCEPT !.method = "describe"] PROVE Accepted
  BY <1>7, <1>8
<1>9. ASSUME c = "legacy_auth", w = [Under(c) EXCEPT !.method = "describe_auth"] PROVE Accepted
  BY <1>7, <1>9
<1> HIDE DEF Accepted
<1>10. Accepted
  <2>1. \/ w = [Under(c) EXCEPT !.method = "cancel"]
        \/ /\ c = "negotiated_v1"
           /\ \E op \in Operations, f \in Feature :
                w = [Under(c) EXCEPT !.method = "handshake", !.instance = "valid",
                                     !.operation = op, !.features = f]
        \/ /\ c = "negotiated_v1"
           /\ \E op \in Operations, n \in Context :
                w = [Under(c) EXCEPT !.method = op, !.configuration = "valid",
                                     !.credentials = "present", !.network = n]
        \/ /\ c # "negotiated_v1"
           /\ w = [Under(c) EXCEPT !.method = "handshake", !.instance = "valid"]
        \/ c = "legacy_setup" /\ w = [Under(c) EXCEPT !.method = "describe"]
        \/ c = "legacy_auth" /\ w = [Under(c) EXCEPT !.method = "describe_auth"]
    BY LegalIs, Zenon
  <2> QED
    BY <1>3, <1>4, <1>5, <1>6, <1>8, <1>9, <2>1, Zenon
<1> QED
  BY <1>10 DEF Accepted

LEMMA AcceptedLegal ==
  ASSUME NEW w \in WireRequest, EnvelopeOK(w), CommandOK(w)
  PROVE  w \in Legal(ContractOf(w))
<1> DEFINE c == ContractOf(w)
<1>1. /\ c \in Contracts /\ w.id = "method"
      /\ w.protocol = Under(c).protocol /\ w.protocol_version = Under(c).protocol_version
  BY UnderIs DEF EnvelopeOK, ContractOf, ProtocolOf, Contracts
<1>2. /\ w.features \in Feature /\ w.network \in Context
      /\ c # "negotiated_v1" => w.features = "absent" /\ w.network = "absent"
      /\ w.method \notin Operations => w.network = "absent"
      /\ w.method # "handshake" => w.operation = "absent" /\ w.features = "absent"
      /\ w.operation # "absent" => w.operation \in Operations
  BY SupportsNetworkAssumption DEF EnvelopeOK, Absent, Feature, Context, WireRequest, Networks
<1>3. Says(w, c, w.method, w.instance, w.operation, w.features, w.network,
           w.configuration, w.credentials)
  BY <1>1 DEF Says
<1>4. /\ Feature \subseteq {"absent", "network_v1"}
      /\ Context \subseteq {"absent", "valid", "unloadable"}
  BY DEF Feature, Context
<1>5. CASE w.method = "handshake"
  <2>1. /\ w.configuration = "absent" /\ w.credentials = "absent" /\ w.instance = "valid"
        /\ w.network = "absent" /\ (c = "negotiated_v1" <=> w.operation # "absent")
    BY <1>2, <1>5 DEF CommandOK, Bare, Absent, Operations
  <2> HIDE DEF c
  <2>2. CASE c = "negotiated_v1"
    <3>1. w.operation \in Operations /\ w.features \in {"absent", "network_v1"}
      BY <1>2, <1>4, <2>1, <2>2
    <3>2. Says(w, c, "handshake", "valid", w.operation, w.features, "absent", "absent", "absent")
      BY <1>3, <1>5, <2>1
    <3>3. w = [Under(c) EXCEPT !.method = "handshake", !.instance = "valid",
                               !.operation = w.operation, !.features = w.features]
      <4>1. Says([Under(c) EXCEPT !.method = "handshake", !.instance = "valid",
                                  !.operation = w.operation, !.features = w.features],
                 c, "handshake", "valid", w.operation, w.features, "absent", "absent", "absent")
        BY <1>1, <3>1, SaysNegotiation
      <4> QED
        BY <3>2, <4>1, SaysSame
    <3>4. \E op \in Operations, f \in Feature :
            w = [Under(c) EXCEPT !.method = "handshake", !.instance = "valid",
                                 !.operation = op, !.features = f]
      BY <1>2, <3>1, <3>3, Zenon
    <3> QED
      BY <1>1, <2>2, <3>4, LegalIs, Zenon DEF c
  <2>3. CASE c # "negotiated_v1"
    <3>1. Says(w, c, "handshake", "valid", "absent", "absent", "absent", "absent", "absent")
      BY <1>2, <1>3, <1>5, <2>1, <2>3
    <3>2. w = [Under(c) EXCEPT !.method = "handshake", !.instance = "valid"]
      BY <1>1, <3>1, SaysHandshake, SaysSame, Zenon
    <3> QED
      BY <1>1, <2>3, <3>2, LegalIs, Zenon DEF c
  <2> QED
    BY <2>2, <2>3
<1>6. CASE w.method \in {"describe", "describe_auth"}
  <2>1. /\ w.configuration = "absent" /\ w.credentials = "absent" /\ w.instance = "absent"
        /\ w.network = "absent" /\ w.operation = "absent" /\ w.features = "absent"
        /\ c = IF w.method = "describe" THEN "legacy_setup" ELSE "legacy_auth"
    BY <1>2, <1>6 DEF CommandOK, Bare, Absent, Operations
  <2> HIDE DEF c
  <2>2. Says(w, c, w.method, "absent", "absent", "absent", "absent", "absent", "absent")
    BY <1>3, <2>1
  <2>3. w.method \in Methods
    BY <1>6 DEF Methods
  <2>4. w = [Under(c) EXCEPT !.method = w.method]
    BY <1>1, <2>2, <2>3, SaysMethod, SaysSame, Zenon
  <2>5. CASE w.method = "describe"
    <3>1. c = "legacy_setup" /\ w = [Under(c) EXCEPT !.method = "describe"]
      BY <2>1, <2>4, <2>5
    <3> QED
      BY <1>1, <3>1, LegalIs, Zenon DEF c
  <2>6. CASE w.method = "describe_auth"
    <3>1. c = "legacy_auth" /\ w = [Under(c) EXCEPT !.method = "describe_auth"]
      BY <2>1, <2>4, <2>6
    <3> QED
      BY <1>1, <3>1, LegalIs, Zenon DEF c
  <2> QED
    BY <1>6, <2>5, <2>6
<1>7. CASE w.method = "cancel"
  <2>1. /\ w.configuration = "absent" /\ w.credentials = "absent" /\ w.instance = "absent"
        /\ w.network = "absent" /\ w.operation = "absent" /\ w.features = "absent"
    BY <1>2, <1>7 DEF CommandOK, Bare, Absent, Operations
  <2> HIDE DEF c
  <2>2. Says(w, c, "cancel", "absent", "absent", "absent", "absent", "absent", "absent")
    BY <1>3, <1>7, <2>1
  <2>3. "cancel" \in Methods
    BY DEF Methods
  <2>4. w = [Under(c) EXCEPT !.method = "cancel"]
    BY <1>1, <2>2, <2>3, SaysMethod, SaysSame, Zenon
  <2> QED
    BY <1>1, <2>4, LegalIs, Zenon DEF c
<1>8. CASE w.method \in Operations
  <2>1. /\ w.configuration = "valid" /\ w.credentials = "present" /\ w.instance = "absent"
        /\ w.operation = "absent" /\ w.features = "absent" /\ c = "negotiated_v1"
    BY <1>2, <1>8 DEF CommandOK, Bare, Absent, Operations, WireRequest
  <2> HIDE DEF c
  <2>2. Says(w, c, w.method, "absent", "absent", "absent", w.network, "valid", "present")
    BY <1>3, <2>1
  <2>3. w.network \in {"absent", "valid", "unloadable"}
    BY <1>2, <1>4
  <2>4. w = [Under(c) EXCEPT !.method = w.method, !.configuration = "valid",
                             !.credentials = "present", !.network = w.network]
    <3>1. Says([Under(c) EXCEPT !.method = w.method, !.configuration = "valid",
                                !.credentials = "present", !.network = w.network],
               c, w.method, "absent", "absent", "absent", w.network, "valid", "present")
      BY <1>1, <1>8, <2>3, SaysOperation
    <3> QED
      BY <2>2, <3>1, SaysSame
  <2>5. \E op \in Operations, n \in Context :
          w = [Under(c) EXCEPT !.method = op, !.configuration = "valid",
                               !.credentials = "present", !.network = n]
    BY <1>2, <1>8, <2>4, Zenon
  <2> QED
    BY <1>1, <2>1, <2>5, LegalIs, Zenon DEF c
<1> QED
  BY <1>5, <1>6, <1>7, <1>8 DEF CommandOK

\* parse and the table agree on every frame, on its contract and on what it carries.
LEMMA ParseTable ==
  ASSUME NEW w \in Frames
  PROVE  \/ Parse(w) = Refused /\ \A c \in Contracts : w \notin Legal(c)
         \/ /\ Parse(w) # Refused
            /\ w \in Legal(Parse(w).contract)
            /\ Parse(w).command = w.method
            /\ Parse(w).operation = w.operation
            /\ Parse(w).features = (w.features = "network_v1")
            /\ Parse(w).network = w.network
<1>1. CASE w.method # "garbage" /\ EnvelopeOK(w) /\ CommandOK(w)
  <2>1. w \in WireRequest
    BY <1>1 DEF Frames, Garbage
  <2>2. Parse(w) = [ contract  |-> ContractOf(w),
                     command   |-> w.method,
                     operation |-> w.operation,
                     features  |-> ~Absent(w.features),
                     network   |-> w.network ]
    BY <1>1 DEF Parse
  <2>3. w \in Legal(ContractOf(w))
    BY <1>1, <2>1, AcceptedLegal
  <2>4. Parse(w).command = w.method /\ w.method # "refused"
    BY <2>1, <2>2 DEF WireRequest, Methods
  <2>5. Parse(w) # Refused
    BY <2>4 DEF Refused
  <2>6. Parse(w).features = (w.features = "network_v1")
    <3>1. w.features = "absent" \/ w.features = "network_v1"
      BY <1>1 DEF EnvelopeOK, Absent
    <3>2. Parse(w).features = ~Absent(w.features)
      BY <2>2
    <3>3. ~Absent(w.features) <=> w.features = "network_v1"
      BY <3>1 DEF Absent
    <3>4. (~Absent(w.features)) = (w.features = "network_v1")
      BY <3>3, Zenon
    <3> QED
      BY <3>2, <3>4, Zenon
  <2>7. /\ Parse(w).contract = ContractOf(w)
        /\ Parse(w).operation = w.operation /\ Parse(w).network = w.network
    BY <2>2
  <2>8. w \in Legal(Parse(w).contract)
    BY <2>3, <2>7, Zenon
  <2> QED
    BY <2>4, <2>5, <2>6, <2>7, <2>8, Zenon
<1>2. CASE ~(w.method # "garbage" /\ EnvelopeOK(w) /\ CommandOK(w))
  <2>1. Parse(w) = Refused
    BY <1>2 DEF Parse
  <2>2. ASSUME NEW c \in Contracts, w \in Legal(c) PROVE FALSE
    <3>1. w.method \in Methods /\ EnvelopeOK(w) /\ CommandOK(w)
      BY <2>2, LegalAccepted
    <3>2. w.method # "garbage"
      BY <3>1 DEF Methods, Operations
    <3> QED
      BY <1>2, <3>1, <3>2
  <2> QED
    BY <2>1, <2>2
<1> QED
  BY <1>1, <1>2

-----------------------------------------------------------------------------
(***************************************************************************)
(* Both readers together.                                                  *)
(***************************************************************************)

\* What the session acts on is what parse made of the frame it was handed.
Parsed ==
  /\ wire \in Frames \cup {Unread}
  /\ result # Unread => wire \in Frames /\ result = Parse(wire)

Taking == Cut /\ FailsForCause /\ Parsed

LEMMA InitTaking == IntakeInit => Taking
<1> SUFFICES ASSUME IntakeInit PROVE Taking
  OBVIOUS
<1>1. Cut
  BY InitCut DEF IntakeInit
<1>2. FailsForCause
  BY DEF IntakeInit, InputInit, FailsForCause
<1>3. Parsed
  BY DEF IntakeInit, Parsed
<1> QED
  BY <1>1, <1>2, <1>3 DEF Taking

LEMMA NextTaking == Taking /\ [IntakeNext]_<<inputVars, intake>> => Taking'
<1> SUFFICES ASSUME Taking, [IntakeNext]_<<inputVars, intake>> PROVE Taking'
  OBVIOUS
<1>1. ASSUME [InputNext]_inputVars PROVE Cut' /\ FailsForCause'
  BY <1>1, NextCut, NextCause DEF Taking
<1>2. ASSUME UNCHANGED intake PROVE Parsed'
  BY <1>2 DEF intake, Taking, Parsed
<1>3. CASE Reads
  BY <1>1, <1>2, <1>3 DEF Reads, Taking
<1>4. CASE Decode
  <2>1. UNCHANGED inputVars /\ wire' \in Frames /\ result' = Parse(wire')
    BY <1>4 DEF Decode
  <2>2. Parsed'
    BY <2>1 DEF Parsed
  <2> QED
    BY <1>1, <2>1, <2>2 DEF Taking
<1>5. CASE UNCHANGED <<inputVars, intake>>
  BY <1>1, <1>2, <1>5 DEF Taking
<1> QED
  BY <1>3, <1>4, <1>5 DEF IntakeNext

LEMMA TakingResult == Taking => IntakeTypeOK /\ AcceptsExactlyTheTable
<1> SUFFICES ASSUME Taking PROVE IntakeTypeOK /\ AcceptsExactlyTheTable
  OBVIOUS
<1>1. CASE result = Unread
  BY <1>1 DEF Taking, Cut, Parsed, IntakeTypeOK, AcceptsExactlyTheTable
<1>2. CASE result # Unread
  <2>1. wire \in Frames /\ result = Parse(wire)
    BY <1>2 DEF Taking, Parsed
  <2>2. result \in Request \cup {Refused}
    BY <2>1, ParseType
  <2>3. AcceptsExactlyTheTable
    BY <2>1, ParseTable, Zenon DEF AcceptsExactlyTheTable
  <2> QED
    BY <2>1, <2>2, <2>3 DEF Taking, Cut, IntakeTypeOK
<1> QED
  BY <1>1, <1>2

LEMMA IntakeInvariant == IntakeSpec => []Taking
<1>1. IntakeInit => Taking
  BY InitTaking
<1>2. Taking /\ [IntakeNext]_<<inputVars, intake>> => Taking'
  BY NextTaking
<1> QED
  BY <1>1, <1>2, PTL DEF IntakeSpec

\* The stream, the buffer, the frame and what is parsed of it keep their types and
\* limits (Input, io.rs 9-57; parse, request.rs 75-170).
THEOREM IntakeTypeCorrect == IntakeSpec => []IntakeTypeOK
<1>1. Taking => IntakeTypeOK
  BY TakingResult
<1> QED
  BY <1>1, IntakeInvariant, PTL

\* For every cut of the stream into reads, the frames returned are its lines, in order
\* and complete, and nothing read is lost or read twice (Input::frame, io.rs 26-57).
THEOREM FramesCutAtNewlines == IntakeSpec => []FramesAreLines
<1>1. Taking => FramesAreLines
  BY CutFramesAreLines DEF Taking
<1> QED
  BY <1>1, IntakeInvariant, PTL

\* Input is refused only for a reason in the stream itself, and what the host writes
\* after it does not take the reason away (io.rs 37-38 and 46).
THEOREM InputFailsForCause == IntakeSpec => []FailsForCause
<1>1. Taking => FailsForCause
  BY DEF Taking
<1> QED
  BY <1>1, IntakeInvariant, PTL

\* parse accepts the frames of the table and no other, under the contract the table
\* gives them (request.rs 75-170).
THEOREM ParseImplementsTheTable == IntakeSpec => []AcceptsExactlyTheTable
<1>1. Taking => AcceptsExactlyTheTable
  BY TakingResult
<1> QED
  BY <1>1, IntakeInvariant, PTL

=============================================================================
