--------------------------- MODULE MCAttestations ---------------------------
(* Three senders, two of them with the same stake, and two ppois. *)
EXTENDS Arrivals

CONSTANTS s1, s2, s3, p, q

MCStake == s1 :> 1 @@ s2 :> 2 @@ s3 :> 2
=============================================================================
