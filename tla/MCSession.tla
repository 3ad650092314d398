----------------------------- MODULE MCSession -----------------------------
(***************************************************************************)
(* Session on a small instance: a host that may speak any of the three     *)
(* contracts, confuse them, change its mind or send something else.        *)
(***************************************************************************)
EXTENDS Session

Absence ==
  [ protocol |-> "absent", protocol_version |-> "1", id |-> "method",
    method |-> "cancel", instance |-> "absent", operation |-> "absent",
    features |-> "absent", network |-> "absent", configuration |-> "absent",
    credentials |-> "absent" ]

Handshake(op) ==
  [Absence EXCEPT !.method = "handshake", !.instance = "valid", !.operation = op]

Networked(w) == [w EXCEPT !.features = "network_v1"]

Invocation(op, net) ==
  [Absence EXCEPT !.method = op, !.configuration = "valid",
                  !.credentials = "present", !.network = net]

Legacy(w, p) == [w EXCEPT !.protocol = p, !.protocol_version = "absent"]

MCHostFrames ==
  { Handshake("discover"), Networked(Handshake("check")),
    Invocation("discover", "absent"), Invocation("check", "absent"),
    Invocation("check", "valid"),
    Invocation("check", "unloadable"),
    Legacy(Handshake("absent"), "3"), Legacy(Handshake("absent"), "4"),
    Legacy([Absence EXCEPT !.method = "describe"], "3"),
    Legacy([Absence EXCEPT !.method = "describe_auth"], "4"),
    Absence, Garbage }

\* Complete, too large for MaxRecords = 2, and not valid.
MCSnapshots ==
  {[sound |-> TRUE, records |-> n] : n \in {0, 2, 3}}
    \cup {[sound |-> FALSE, records |-> 1]}

=============================================================================
