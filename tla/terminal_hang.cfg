SPECIFICATION FairSpec
CONSTANTS
  s1 = s1
  s2 = s2
  None = None
  Sessions = {s1, s2}
  PoolSize = 1
  MaxChunks = 1
PROPERTY EverySessionCloses
CHECK_DEADLOCK FALSE
