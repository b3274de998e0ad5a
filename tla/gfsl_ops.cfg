SPECIFICATION FairSpec
CONSTANTS
  DSize = 3
  MaxKey = 13
  TopLevel = 4
  PoolSize = 30
  NumWarps = 3
  Traces <- SmallTraces
INVARIANTS
  TypeOK
  ChunksSorted
  DeleteCorrectness
  CountersMatch
  LocksReleased
  LocksExclusive
  NewChunkIsFree
  ContainsRight
  PredecessorRight
  FirstKeyRight
  LastKeyRight
  DownPointersLagLeft
PROPERTIES
  ImplementsSet
  KeysMoveRight
  AllReturn
