------------------------------- MODULE MCEntra -------------------------------
(***************************************************************************)
(* Entra on a small instance: two objects that may be of any kind.         *)
(***************************************************************************)
EXTENDS Entra

A(type) == [id |-> "a", type |-> type]

B(type) == [id |-> "b", type |-> type]

MCPages ==
  {<<>>, <<A("absent"), B("absent")>>, <<A("user"), A("user")>>}
    \cup {<<A(type)>> : type \in Types}
    \cup {<<B(type)>> : type \in {"absent", "group"}}

=============================================================================
