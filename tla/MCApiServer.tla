---------------------------- MODULE MCApiServer ----------------------------
(* A small instance of ApiServer for TLC. *)
EXTENDS ApiServer

CONSTANTS d1, d2, s1, p

MCStake == s1 :> 1

DeploymentSymmetry == Permutations(Deployments)
=============================================================================
