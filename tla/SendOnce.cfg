SPECIFICATION Spec
CONSTANTS
  d1 = d1
  d2 = d2
  s1 = s1
  s2 = s2
  p = p
  q = q
  Deployments = {d1}
  Senders = {s1}
  Ppois = {p, q}
  Stake <- MCSingleStake
  Blocks = {10, 11}
  CollectWindow = 1
  PersistentDb = TRUE
  MaxClock = 1
  MaxRowid = 2
  MaxFaults = 0
  MaxCrashes = 0
SYMMETRY PpoiSymmetry
PROPERTY
  SendOncePerBlock
CHECK_DEADLOCK FALSE
