SPECIFICATION ASpec
CONSTANTS
  d1 = d1
  d2 = d2
  s1 = s1
  p = p
  Deployments = {d1, d2}
  Senders = {s1}
  Ppois = {p}
  Stake <- MCStake
  LocalStake = 1
  LocalSender = s0
  NoFilter = NoFilter
  NoPpoi = NoPpoi
  Blocks = {10, 11}
  CollectWindow = 1
  PersistentDb = TRUE
  MaxClock = 0
  MaxRowid = 1
  MaxFaults = 1
  MaxCrashes = 0
SYMMETRY DeploymentSymmetry
INVARIANTS
  ATypeOK
  RowStaysUntilJudged
  PanicExplained
PROPERTY
  EvidenceGoesWithVerdict
CHECK_DEADLOCK FALSE
