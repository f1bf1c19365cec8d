SPECIFICATION FairSpec
CONSTANTS
  Tasks = {t1}
  Workers = {w1}
  Requests = {r1, r2}
  Principals = {alice, bob}
  Owner <- MCOwner
  Keys = {k1, k2}
  Kinds = {"get", "update"}
  NoTask = NoTask
  Serial = TRUE
  EarlyDelivery = FALSE
  Expiry = FALSE
  MaxProgress = 1
  MaxRedeliver = 1
  MaxCrashes = 0
  MaxRaises = 0
INVARIANTS
  DurableBeforeHandle
PROPERTIES
  ImplementsOneWayTask
  AnsweredForGood
  EventuallyResolved
  FinishAnnounced
CHECK_DEADLOCK FALSE
