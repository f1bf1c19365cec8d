SPECIFICATION StreamsFairSpec
CONSTANTS
  g1 = g1
  g2 = g2
  h1 = h1
  h2 = h2
  NoStream = NoStream
  QueueSize = 2
  MaxNotify = 3
  Threads = {w1, w2}
  NoValue = NoValue
  Finished = Finished
  Cap = 3
  MaxProgress = 5
  Detached = FALSE
  Streams = {g1, g2, g3}
  Sites <- MCSites
INVARIANTS
  GaplessOnceStarted
  OneStepBack
  OnlyNewestHears
  ReportsKept
PROPERTIES
  EventuallyReceived
  ResponseArrives
CHECK_DEADLOCK FALSE
