SPECIFICATION Spec
CONSTANTS
  s1 = s1  s2 = s2  b1 = b1  b2 = b2
  Consumer = consumer
  None = None
  Stops = {s1, s2}
  Streams = {b1}
  UpstreamFails = TRUE
  StopFails = TRUE
  SaveFails = TRUE
  MaxNews = 1
  MaxDrops = 0
  MaxCrashes = 1
SYMMETRY Symmetry
INVARIANTS DoneBeforeClose
PROPERTIES ReopenedByStopOnly
CHECK_DEADLOCK FALSE
