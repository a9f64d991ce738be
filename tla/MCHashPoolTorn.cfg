SPECIFICATION FairSpec
CONSTANTS
  NThreads = 1
  MaxWork = 2
  Height <- SameHeight
  NULL = NULL
  MaxToPool = 1
  MaxToClient = 2
  MaxAttempts = 0
  TestModes = {FALSE}
  MaxTx = 1
  MaxRx = 1
  DeviceErrors = FALSE
PROPERTY WorkGetsMinedOrEnds
