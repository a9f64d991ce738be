SPECIFICATION Spec
CONSTANTS
  Packets <- MCPackets
  LengthBytes = 2
  MaxSent = 3
  MaxMessages = 3
  MaxReads = 4
INVARIANTS
  NoByteLost
PROPERTIES
  DeliversPackets
  ReadReturns
  ReadsMessages
