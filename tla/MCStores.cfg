SPECIFICATION StoresSpec
CONSTANTS
  tools = tools
  book = book
  secret = secret
  foreign = foreign
  write = write
  Writers = {p1, p2}
  Ttls = {1, 3}
  NoExpiry = NoExpiry
  Floor = 2
  Fallback = 6
  MaxCacheTime = 8
  Requests = {r1, r2}
  Bindings <- MCBindings
  FixedMax = 2
  SlidingMax = 2
  Window = 1
  Capacity = 1
  Cost = 3
  Hz = 2
  MinTtl = 1
  Never = Never
  MaxTime = 6
  MaxCalls = 4
  MaxEvict = 1
  Streams = {r1, r2}
  ListKinds = {tools}
  Uris = {book, secret}
  TaskIds = {foreign}
  Listed = {tools}
  Resolvable = {book}
  Owned = {}
  Asked <- MCAsked
  Transactions = {write}
  Invalidates <- MCInvalidates
  StreamWindow = 1
  Cap = 1
  MaxStreamTime = 1
  MaxLog = 2
SYMMETRY Symmetry
INVARIANTS
  LifetimeKept
  LimitsKept
  AckMeansLive
  HearsOnlyGranted
  NothingUncommitted
  PlacesKept
CHECK_DEADLOCK FALSE
