-------------------------- MODULE MCRadioOperator --------------------------
(* Small instances of RadioOperator for TLC. *)
EXTENDS RadioOperator

CONSTANTS d1, s1, p, q

MCStake == s1 :> 1
=============================================================================
