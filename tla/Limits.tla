------------------------------- MODULE Limits -------------------------------
(***************************************************************************)
(* The limits that frames meet in both directions, on stdin and on stdout. *)
(***************************************************************************)
EXTENDS Naturals

CONSTANTS
  MaxFrame,  \* MAX_FRAME
  MaxTotal   \* MAX_TOTAL

ASSUME LimitsAssumption == MaxFrame \in Nat \ {0} /\ MaxTotal \in Nat

=============================================================================
