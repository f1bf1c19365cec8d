SPECIFICATION Spec
CONSTANTS
  Requests = {r1, r2}
  Principals = {alice, bob}
  Nobody = Nobody
  alice = alice
  bob = bob
  old = old
  new = new
  Sessions = {new, old}
  OldSessions = {old}
  OldOwner = bob
  NoSession = NoSession
  Forged = Forged
  NoStream = NoStream
  Messages <- MCMessages
  Configs <- MCConfigs
  Ttl = 2
  MaxAge = 3
  Hz = 2
  Cap = 1
  MaxTime = 3
SYMMETRY Symmetry
INVARIANTS
  ServedAsAllowed
  CapExceededOnlyByBurst
PROPERTIES
  SessionLifetime
CHECK_DEADLOCK FALSE
