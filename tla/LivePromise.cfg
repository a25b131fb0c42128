SPECIFICATION FairSpec
CONSTANTS
  d1 = d1
  d2 = d2
  Deployments = {d1, d2}
  Blocks = {10, 11}
  Modes = {"live"}
  PersistentDb = TRUE
  MaxMishaps = 0
  MaxCrashes = 0
  MaxChanges = 2
INVARIANTS
  DeliveryIsUpToDate
PROPERTIES
  LiveKeepsPromise
  DivergenceReachesOperator
CHECK_DEADLOCK FALSE
