SPECIFICATION StartupFairSpec
CONSTANTS
  MaxLines = 4
  Files <- MCFiles
  Arguments <- MCArguments
INVARIANTS
  StartupTypeOK
  ServerBeginsComplete
PROPERTIES
  PortsAsConfigured
  StartsOrEnds
CHECK_DEADLOCK FALSE
