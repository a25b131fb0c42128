SPECIFICATION FairSpec
CONSTANTS
  d1 = d1
  d2 = d2
  Deployments = {d1, d2}
  Blocks = {10}
  Modes = {"live", "periodic-update"}
  PersistentDb = TRUE
  MaxMishaps = 1
  MaxCrashes = 1
  MaxChanges = 2
INVARIANTS
  TypeOK
  ToldIsAChange
PROPERTIES
  DecisionNotStale
  NothingClearedUntold
  NotesDrain
CHECK_DEADLOCK FALSE
