SPECIFICATION FairSpec
CONSTANTS
  i1 = i1  i2 = i2  i3 = i3  c1 = c1  c2 = c2  c3 = c3
  Items = {i1, i2, i3}
  Calls = {c1, c2, c3}
  Commands <- Mixed
  Order <- OrderDef
  Boards <- BoardsDef
  PoolSize = 2
INVARIANTS CompletedAfterDependencies CyclesAreBlind NoLostUpdate BatchAnswerIsTrue
PROPERTIES Answered
CHECK_DEADLOCK FALSE
