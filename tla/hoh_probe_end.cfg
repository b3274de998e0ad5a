SPECIFICATION Spec
CONSTANTS
  Capacity = 5
  GroupSize = 3
  Stride = 3
  Keys = {5, 6, 7, 8, 9}
  Values = {1}
  BatchSize = 1
  Tables = {2}
  TableOf <- MCTableOf
  Home <- MCHome
  Tombstone = 99
  RangeSize = 5
  CounterMod = 8
  MaxInserts = 5
  MaxDeletes = 0
  MaxSearches = 0
  DistinctDeletes = TRUE
INVARIANT
  ProbingReachesAllSlots
