SPECIFICATION RSpec
CONSTANTS
  d1 = d1
  s1 = s1
  p = p
  q = q
  Deployments = {d1}
  Senders = {s1}
  Ppois = {p, q}
  Stake <- MCStake
  Blocks = {10, 11}
  CollectWindow = 1
  PersistentDb = FALSE
  MaxClock = 1
  MaxRowid = 1
  MaxFaults = 0
  MaxCrashes = 1
  Modes = {"live", "periodic-update"}
  MaxMishaps = 1
INVARIANTS
  RTypeOK
  PublishedIsKeptOrJudged
  ToldWasPublished
PROPERTIES
  RefinesCrossCheck
  RefinesNotifications
CHECK_DEADLOCK FALSE
