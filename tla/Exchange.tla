------------------------------ MODULE Exchange ------------------------------
(***************************************************************************)
(* What a provider process promises the host about its stdout, whatever    *)
(* the host, the provider and the clock do: one handshake, then the one    *)
(* answer the host asked for (a description, a health report, or any       *)
(* number of records closed by a complete event that counts them), and at  *)
(* most one report of a failure or cancellation, which is always last.     *)
(* Every frame has the contract of the first.  The exit code is zero only  *)
(* after an answer or a cancellation.                                      *)
(***************************************************************************)
EXTENDS Naturals, Sequences

VARIABLES
  stream,   \* the frames written, in order
  outcome   \* the process: "open", "ok" (exit code 0) or "failed" (1)

Answers == {"setup", "auth", "health", "complete"}

Reports == {"error", "cancelled"}

Last == stream[Len(stream)]

LastIn(events) == stream # <<>> /\ Last.event \in events

Extend(frame) ==
  /\ outcome = "open"
  /\ stream # <<>> => frame.contract = stream[1].contract
  /\ stream' = Append(stream, frame)
  /\ UNCHANGED outcome

\* `frame' ranges over what the next step appends: the actions constrain it.
Open(frame) == stream = <<>> /\ frame.event = "handshake" /\ Extend(frame)

Observe(frame) ==
  LastIn({"handshake", "record"}) /\ frame.event = "record" /\ Extend(frame)

Answer(frame) ==
  /\ \/ LastIn({"handshake"}) /\ frame.event \in {"setup", "auth", "health"}
     \/ LastIn({"handshake", "record"}) /\ frame.event = "complete"
  /\ frame.event = "complete" => frame.count = Len(stream) - 1
  /\ Extend(frame)

Report(frame) ==
  /\ ~LastIn(Reports)
  /\ frame.event \in Reports
  /\ frame.event = "cancelled" => stream # <<>>
  /\ Extend(frame)

Write(frame) == Open(frame) \/ Observe(frame) \/ Answer(frame) \/ Report(frame)

Exit ==
  /\ outcome = "open"
  /\ \/ outcome' = "ok" /\ LastIn(Answers \cup {"cancelled"})
     \/ outcome' = "failed"
  /\ UNCHANGED stream

Init == stream = <<>> /\ outcome = "open"

Next == Exit \/ (Len(stream') > Len(stream) /\ Write(stream'[Len(stream')]))

Spec == Init /\ [][Next]_<<stream, outcome>>

=============================================================================
