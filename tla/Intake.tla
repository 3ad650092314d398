------------------------------- MODULE Intake -------------------------------
(***************************************************************************)
(* What the runtime makes of stdin: FrameInput, whose frames are parsed by *)
(* Request.  A table of the legal frames is written the other way round:   *)
(* from what each contract allows to the fields it carries.                *)
(***************************************************************************)
EXTENDS FrameInput, Request

CONSTANT MaxDecoded   \* bound: bytes of the streams whose frames are decoded

ASSUME IntakeAssumption == MaxDecoded \in Nat

VARIABLES
  wire,    \* what the frame handed on says, or Unread
  result   \* what parse makes of it

Unread == [command |-> "unread"]

intake == <<wire, result>>

IntakeInit == InputInit /\ wire = Unread /\ result = Unread

Reads == wire = Unread /\ InputNext /\ UNCHANGED intake

\* The session parses the frame it asked for, which may say anything: its bytes are
\* not told apart.
Decode ==
  /\ wire = Unread
  /\ frames # <<>> /\ Len(stream) <= MaxDecoded
  /\ wire' \in Frames
  /\ result' = Parse(wire')
  /\ UNCHANGED inputVars

IntakeNext == Reads \/ Decode

IntakeSpec == IntakeInit /\ [][IntakeNext]_<<inputVars, intake>>

-----------------------------------------------------------------------------
IntakeTypeOK ==
  /\ InputTypeOK
  /\ wire \in Frames \cup {Unread} /\ result \in Request \cup {Unread, Refused}

-----------------------------------------------------------------------------
Blank ==
  [ protocol |-> "absent", protocol_version |-> "absent", id |-> "method",
    method |-> "other", instance |-> "absent", operation |-> "absent",
    features |-> "absent", network |-> "absent", configuration |-> "absent",
    credentials |-> "absent" ]

Under(contract) ==
  CASE contract = "negotiated_v1" -> [Blank EXCEPT !.protocol_version = "1"]
    [] contract = "legacy_setup"  -> [Blank EXCEPT !.protocol = "3"]
    [] contract = "legacy_auth"   -> [Blank EXCEPT !.protocol = "4"]

Feature == IF SupportsNetwork THEN {"absent", "network_v1"} ELSE {"absent"}

Context == IF SupportsNetwork THEN {"absent", "valid", "unloadable"} ELSE {"absent"}

Legal(contract) ==
  {[Under(contract) EXCEPT !.method = "cancel"]}
    \cup
  CASE contract = "negotiated_v1" ->
         {[Under(contract) EXCEPT !.method = "handshake", !.instance = "valid",
                                  !.operation = op, !.features = f]
            : op \in Operations, f \in Feature}
           \cup
         {[Under(contract) EXCEPT !.method = op, !.configuration = "valid",
                                  !.credentials = "present", !.network = n]
            : op \in Operations, n \in Context}
    [] contract = "legacy_setup" ->
         {[Under(contract) EXCEPT !.method = "handshake", !.instance = "valid"],
          [Under(contract) EXCEPT !.method = "describe"]}
    [] contract = "legacy_auth" ->
         {[Under(contract) EXCEPT !.method = "handshake", !.instance = "valid"],
          [Under(contract) EXCEPT !.method = "describe_auth"]}

\* parse accepts exactly the frames of the table, each under its own contract,
\* and hands on the fields the session compares (request.rs 75-170).
AcceptsExactlyTheTable ==
  result # Unread =>
    \/ result = Refused /\ \A c \in Contracts : wire \notin Legal(c)
    \/ /\ result # Refused
       /\ wire \in Legal(result.contract)
       /\ result.command = wire.method
       /\ result.operation = wire.operation
       /\ result.features = (wire.features = "network_v1")
       /\ result.network = wire.network

=============================================================================
