------------------------------ MODULE MCRadio ------------------------------
(* A small instance of Radio for TLC. *)
EXTENDS Radio

CONSTANTS d1, d2, s1, p

MCStake == s1 :> 1
=============================================================================
