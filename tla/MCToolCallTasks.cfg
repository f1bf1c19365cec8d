SPECIFICATION FairSpec
CONSTANTS
  alice = alice
  bob = bob
  v1 = v1
  v2 = v2
  route = route
  owner = owner
  plain = plain
  optional = optional
  required = required
  Tools = {optional, required}
  Calls = {c1, c2}
  NoCall = NoCall
  Principals = {alice}
  Names = {route, owner}
  Values = {v1, v2}
  Unset = Unset
  Route = route
  Bound = {owner}
  ServerValue <- MCServerValue
  Grants <- MCGrants
  SpecJudges = TRUE
  Policy <- MCPolicy
  CanRunTasks = TRUE
  TaskFlags = {TRUE, FALSE}
  FormFlags = {FALSE}
  StreamFlags = {TRUE, FALSE}
  Deadline = TRUE
  Quota = 1
  MaxRounds = 1
INVARIANTS
  RunsAllowed
PROPERTIES
  EveryRequestAnswered
CHECK_DEADLOCK FALSE
