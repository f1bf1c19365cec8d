SPECIFICATION Spec
CONSTANTS
  alice = alice
  bob = bob
  v1 = v1
  v2 = v2
  route = route
  owner = owner
  plain = plain
  optional = optional
  required = required
  Tools = {plain}
  Calls = {c1, c2}
  NoCall = NoCall
  Principals = {alice, bob}
  Names = {route}
  Values = {v1, v2}
  Unset = Unset
  Route = route
  Bound = {}
  ServerValue <- MCServerValue
  Grants <- MCGrants
  SpecJudges = FALSE
  Policy <- MCPolicy
  CanRunTasks = TRUE
  TaskFlags = {FALSE}
  FormFlags = {TRUE}
  StreamFlags = {TRUE, FALSE}
  Deadline = FALSE
  Quota = 2
  MaxRounds = 1
SYMMETRY Symmetry
INVARIANTS
  RunsAllowed
  DenialIsFree
  AnnouncedIsWritten
CHECK_DEADLOCK FALSE
