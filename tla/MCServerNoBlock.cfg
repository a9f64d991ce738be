SPECIFICATION ServerSpec
CONSTANTS
  NThreads = 1
  MaxWork = 2
  Height <- DistinctHeights
  NULL = NULL
  MaxToPool = 1
  MaxToClient = 2
  MaxAttempts = 1
  TestModes = {FALSE}
INVARIANT NoBlockMeansNone
