------------------------------- MODULE Request -------------------------------
(***************************************************************************)
(* request::parse of the native runtime: one input frame, already split    *)
(* from the stream, is decoded into the command the session acts on, or    *)
(* refused.                                                                *)
(*                                                                         *)
(* A frame is abstracted to the values its fields can take as far as the   *)
(* parser tells them apart.  "absent" is a field that is not in the        *)
(* object; a field that is present and null, an unknown or duplicate       *)
(* field and a frame that is not JSON are all refused by the decoder and   *)
(* are the one value Garbage.                                              *)
(***************************************************************************)
EXTENDS Naturals

CONSTANT SupportsNetwork    \* Adapter::supports_network()

ASSUME SupportsNetworkAssumption == SupportsNetwork \in BOOLEAN

Contracts == {"negotiated_v1", "legacy_setup", "legacy_auth"}

Methods == {"handshake", "describe", "describe_auth", "cancel", "check", "discover"}

Operations == {"check", "discover"}

\* What NetworkContext::validate (the SDK's) and network::validate (ours, which
\* builds the HTTP client and parses every CA certificate) say of a context:
\* "invalid" fails the first, "unloadable" passes it and fails the second.
Networks == {"absent", "valid", "unloadable", "invalid"}

WireRequest ==
  [ protocol         : {"absent", "3", "4", "other"},
    protocol_version : {"absent", "1", "other"},
    id               : {"method", "other"},        \* equal to method, or not
    method           : Methods \cup {"other"},
    instance         : {"absent", "valid", "invalid"},
    operation        : {"absent"} \cup Operations,
    features         : {"absent", "network_v1", "other"},
    network          : Networks,
    configuration    : {"absent", "valid", "invalid"},   \* A::validate's verdict
    credentials      : {"absent", "present"} ]

\* A frame the JSON decoder itself refuses.
Garbage == [method |-> "garbage"]

Frames == WireRequest \cup {Garbage}

(***************************************************************************)
(* What parse returns: Ok(Request) as a record, Err(()) as Refused.        *)
(***************************************************************************)
Request ==
  [ contract  : Contracts,
    command   : Methods,
    operation : {"absent"} \cup Operations,
    features  : BOOLEAN,
    network   : Networks \ {"invalid"} ]

Refused == [command |-> "refused"]

-----------------------------------------------------------------------------
Absent(x) == x = "absent"

Bare(w) == Absent(w.configuration) /\ Absent(w.credentials)

ProtocolOf(w) == <<w.protocol, w.protocol_version>>

ContractOf(w) ==
  CASE ProtocolOf(w) = <<"absent", "1">> -> "negotiated_v1"
    [] ProtocolOf(w) = <<"3", "absent">> -> "legacy_setup"
    [] ProtocolOf(w) = <<"4", "absent">> -> "legacy_auth"
    [] OTHER                             -> "none"

\* Mutant of EnvelopeOK: a network context is looked at only where it is used.
EnvelopeLax(w) ==
  /\ ContractOf(w) \in Contracts
  /\ w.id = "method"
  /\ ~Absent(w.features) => w.features = "network_v1" /\ SupportsNetwork
  /\ ContractOf(w) # "negotiated_v1" => Absent(w.features) /\ Absent(w.network)
  /\ w.method # "handshake" => Absent(w.operation) /\ Absent(w.features)

\* The guards on single fields, before the method is looked at.
EnvelopeOK(w) ==
  /\ ContractOf(w) \in Contracts
  /\ w.id = "method"
  /\ ~Absent(w.features) => w.features = "network_v1" /\ SupportsNetwork
  /\ ContractOf(w) # "negotiated_v1" => Absent(w.features) /\ Absent(w.network)
  /\ ~Absent(w.network) => SupportsNetwork /\ w.network # "invalid"
  /\ w.method \notin Operations => Absent(w.network)
  /\ w.method # "handshake" => Absent(w.operation) /\ Absent(w.features)

\* The arms of the match on the method, with their guards.
CommandOK(w) ==
  \/ /\ w.method = "handshake"
     /\ Bare(w)
     /\ w.instance = "valid"
     /\ (ContractOf(w) = "negotiated_v1") = ~Absent(w.operation)
  \/ /\ w.method = "describe"
     /\ ContractOf(w) = "legacy_setup"
     /\ Absent(w.instance) /\ Bare(w)
  \/ /\ w.method = "describe_auth"
     /\ ContractOf(w) = "legacy_auth"
     /\ Absent(w.instance) /\ Bare(w)
  \/ /\ w.method = "cancel"
     /\ Absent(w.instance) /\ Bare(w)
  \/ /\ w.method \in Operations
     /\ ContractOf(w) = "negotiated_v1"
     /\ Absent(w.instance)
     /\ w.configuration = "valid" /\ ~Absent(w.credentials)

Parse(w) ==
  IF w.method # "garbage" /\ EnvelopeOK(w) /\ CommandOK(w)
  THEN [ contract  |-> ContractOf(w),
         command   |-> w.method,
         operation |-> w.operation,
         features  |-> ~Absent(w.features),
         network   |-> w.network ]
  ELSE Refused

=============================================================================
