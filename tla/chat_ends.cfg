SPECIFICATION FairSpec
CONSTANTS
  s1 = s1  s2 = s2  b1 = b1  b2 = b2
  Consumer = consumer
  None = None
  Stops = {s1, s2}
  Streams = {b1}
  UpstreamFails = TRUE
  StopFails = FALSE
  SaveFails = FALSE
  MaxNews = 1
  MaxDrops = 1
  MaxCrashes = 1
PROPERTIES RunEnds StreamsEnd
CHECK_DEADLOCK FALSE
