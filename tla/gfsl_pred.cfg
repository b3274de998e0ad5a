SPECIFICATION Spec
CONSTANTS
  DSize = 4
  MaxKey = 10
  TopLevel = 3
  PoolSize = 30
  NumWarps = 2
  Traces <- ZombieTraces
INVARIANTS
  PredecessorIsBelow
