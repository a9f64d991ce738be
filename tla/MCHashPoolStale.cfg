SPECIFICATION Spec
CONSTANTS
  NThreads = 1
  MaxWork = 2
  Height <- DistinctHeights
  NULL = NULL
  MaxToPool = 1
  MaxToClient = 2
  MaxAttempts = 0
  TestModes = {FALSE}
  MaxTx = 1
  MaxRx = 1
  DeviceErrors = FALSE
INVARIANT ShareSolvesBlock
