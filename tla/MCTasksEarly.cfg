SPECIFICATION FairSpec
CONSTANTS
  Tasks = {t1}
  Workers = {w1}
  Requests = {r1}
  Principals = {alice, bob}
  Owner <- MCOwner
  Keys = {k1}
  Kinds = {"get"}
  NoTask = NoTask
  Serial = FALSE
  EarlyDelivery = TRUE
  Expiry = FALSE
  MaxProgress = 0
  MaxRedeliver = 0
  MaxCrashes = 0
  MaxRaises = 0
PROPERTIES
  EventuallyResolved
CHECK_DEADLOCK FALSE
