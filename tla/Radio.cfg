SPECIFICATION RFairSpec
CONSTANTS
  d1 = d1
  d2 = d2
  s1 = s1
  p = p
  Deployments = {d1}
  Senders = {s1}
  Ppois = {p}
  Stake <- MCStake
  Blocks = {10}
  CollectWindow = 1
  PersistentDb = TRUE
  MaxClock = 0
  MaxRowid = 1
  MaxFaults = 1
  MaxCrashes = 1
  Ids = {d1, d2}
  Static = {d2}
  Open = {d1}
  Coverage = "OnChain"
INVARIANTS
  RTypeOK
  StaticStay
  StopsSoon
PROPERTIES
  AnsweredIsJudged
  AllocatedIsTopic
  ShutdownCompletes
CHECK_DEADLOCK FALSE
