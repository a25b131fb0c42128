SPECIFICATION Spec
CONSTANTS
  s1 = s1
  s2 = s2
  Subgraphs = {s1, s2}
  Nonces = {10, 12, 13}
  Threshold = 2
  Managed = TRUE
  PersistentDb = TRUE
  MaxMessages = 3
  MaxMishaps = 1
  MaxCrashes = 1
SYMMETRY SubgraphSymmetry
INVARIANTS
  TypeOK
  UpgradesApart
  LimitFollowsUpgrade
  LossUnrecorded
CHECK_DEADLOCK FALSE
