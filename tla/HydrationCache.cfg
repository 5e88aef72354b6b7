SPECIFICATION FairSpec
CONSTANTS
  None = None
  Workers = {w1, w2}
  Commands = {c1}
  Scenarios <- CacheScenarios
INVARIANTS
  TypeOK
  CleanBytes
  LocalBytes
PROPERTIES
  ReleaseWins
  PinnedKept
  ReleaseDone
  PinnedArrives
CHECK_DEADLOCK FALSE
