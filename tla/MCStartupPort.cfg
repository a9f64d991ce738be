SPECIFICATION StartupSpec
CONSTANTS
  MaxLines = 2
  Files <- MCFiles
  Arguments <- MCArguments
INVARIANT
  OpensItsPort
CHECK_DEADLOCK FALSE
