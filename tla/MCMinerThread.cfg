SPECIFICATION MinerFairSpec
CONSTANTS
  NThreads = 1
  MaxWork = 2
  Height <- DistinctHeights
  NULL = NULL
  MaxTx = 2
  MaxRx = 1
  DeviceErrors = TRUE
INVARIANTS MinerTypeOK Handshake MinerNeverNull PollsOneTemplate
PROPERTIES NoHotReload WorkGetsMined
