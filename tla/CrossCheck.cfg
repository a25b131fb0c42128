SPECIFICATION Spec
CONSTANTS
  d1 = d1
  d2 = d2
  s1 = s1
  s2 = s2
  p = p
  q = q
  Deployments = {d1}
  Senders = {s1, s2}
  Ppois = {p, q}
  Stake <- MCStake
  Blocks = {10, 11}
  CollectWindow = 1
  PersistentDb = TRUE
  MaxClock = 1
  MaxRowid = 2
  MaxFaults = 1
  MaxCrashes = 1
SYMMETRY PpoiSymmetry
INVARIANTS
  TypeOK
  OneRowPerBlock
  OnlyLatecomersUncounted
  VerdictHasEvidence
  NothingJudgedIsKept
  JudgedWasPublished
PROPERTIES
  EvidenceGoesWithVerdict
  ResultNeverOlder
CHECK_DEADLOCK FALSE
