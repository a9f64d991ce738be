SPECIFICATION Spec
CONSTANTS
  HashBits <- MCHashBits
  KeyBytes = {0, 33}
  ChunkBytes = {0, 1, 31, 64, 129}
  MaxBytes = 160
  Rates = {72, 128}
  DelimitedSuffixes <- MCSuffixes
  InputBits = {0, 8, 56, 64, 72, 80, 67, 71, 143}
  OutputBytes = {0, 5, 20}
  MaxInput = 33
  MaxOutput = 40
  PartBytes = {0, 1, 64, 65}
  Nonces = {0, 1, 2}
  Byte = 4
  DIGIT = 8
  WIDTH = 3
  MaxCalls = 2
  PrevWidth = 2
  MerkleWidth = 2
  NULL = NULL
  Operands <- MCOperands
  WordValues <- MCWordValues
  Blocks <- MCBlocks
  States <- MCStates
INVARIANTS
  StreamIsUBI
  DigestIsSkein
  AbsorbsInOrder
  HashIsKeccak
  PartsHashAsOne
  MidStateCompletes
  InjectsSubkeys
  TablesAreConfigured
  RoundsAreKeccakF
  ReadsWhatItWrites
  BlockSurvivesWire
  ShareSurvivesWire
PROPERTY
  CountsModulo
  StepsAreThreefish
