SPECIFICATION ServerSpec
CONSTANTS
  NThreads = 2
  MaxWork = 2
  Height <- DistinctHeights
  NULL = NULL
  MaxToPool = 1
  MaxToClient = 2
  MaxAttempts = 1
  TestModes = {FALSE, TRUE}
INVARIANTS ServerInv NoNullDereference SubmissionStable FreshLogin ErrorsDisconnect
PROPERTY BlocksInOrder
