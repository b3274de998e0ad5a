SPECIFICATION FairSpec
CONSTANTS
  Kernels <- MCKernels
  TokenKinds = {"insert", "delete"}
  BusyWait = TRUE
  KeysPerWarp = 2
  WaitingWarps = 4
  WarpsPerBlock = 2
  OpsPerBlock = 2
  InsertBlocks = 5
  DividedDeletes = TRUE
  Resident = 2
INVARIANTS
  EachOnce
  FirstChunksInOrder
PROPERTIES
  AllKernelsEnd
