SPECIFICATION Spec
CONSTANTS
  d1 = d1
  d2 = d2
  Deployments = {d1}
  Blocks = {10}
  Modes = {"periodic-update"}
  PersistentDb = TRUE
  MaxMishaps = 0
  MaxCrashes = 0
  MaxChanges = 3
INVARIANT
  DeliveryIsUpToDate
CHECK_DEADLOCK FALSE
