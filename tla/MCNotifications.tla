-------------------------- MODULE MCNotifications --------------------------
(* Small instances of Notifications for TLC. *)
EXTENDS Notifications

CONSTANTS d1, d2

DeploymentSymmetry == Permutations(Deployments)
=============================================================================
