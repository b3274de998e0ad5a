SPECIFICATION FairSpec
CONSTANTS
  Capacity = 3
  GroupSize = 2
  Stride = 2
  Keys = {2, 3, 4, 5}
  Values = {1, 2}
  BatchSize = 2
  Tables = {1, 2}
  TableOf <- MCTableOf
  Home <- MCHome
  Tombstone = 99
  RangeSize = 3
  CounterMod = 8
  MaxInserts = 2
  MaxDeletes = 0
  MaxSearches = 1
  DistinctDeletes = TRUE
INVARIANT
  TableIsMap
PROPERTY
  KernelsFinish
