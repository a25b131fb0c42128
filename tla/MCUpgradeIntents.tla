------------------------- MODULE MCUpgradeIntents -------------------------
(* Small instances of UpgradeIntents for TLC. *)
EXTENDS UpgradeIntents, TLC

CONSTANTS s1, s2

SubgraphSymmetry == Permutations(Subgraphs)
===========================================================================
