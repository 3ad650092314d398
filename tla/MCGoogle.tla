------------------------------ MODULE MCGoogle ------------------------------
(***************************************************************************)
(* Google on a small instance: two users in every form, pages of up to two *)
(* and one that is too long, and a third user on a page of its own, with   *)
(* whom three users fill the budget of rows.                               *)
(***************************************************************************)
EXTENDS Google, TLC

CONSTANTS t1, t2, t3

\* Tokens are compared and nothing else.
TokenSymmetry == Permutations({t1, t2, t3})

MCUsers ==
  {user \in User : user.id # "u3" /\ (user.id = Bad => user.record = "refused")}

MCUserPages ==
  UNION {[1 .. n -> MCUsers] : n \in 0 .. 2}
    \cup {[i \in 1 .. n |-> [id |-> IF n = 1 THEN "u3" ELSE "u1", record |-> "good"]]
            : n \in {1, 3}}

=============================================================================
