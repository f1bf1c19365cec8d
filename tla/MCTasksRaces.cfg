SPECIFICATION Spec
CONSTANTS
  Tasks = {t1}
  Workers = {w1, w2}
  Requests = {r1, r2}
  Principals = {alice, bob}
  Owner <- MCOwner
  Keys = {k1}
  Kinds = {"get", "cancel", "update"}
  NoTask = NoTask
  Serial = FALSE
  EarlyDelivery = TRUE
  Expiry = TRUE
  MaxProgress = 0
  MaxRedeliver = 1
  MaxCrashes = 1
  MaxRaises = 1
SYMMETRY Symmetry
INVARIANTS
  BlindSavesLoseNothing
  RunsOnlyHandedOff
  ClaimedOnce
PROPERTIES
  ReopenedOnlyByStaleCopy
CHECK_DEADLOCK FALSE
