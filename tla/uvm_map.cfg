SPECIFICATION Spec
CONSTANTS
  Capacity = 5
  GroupSize = 2
  Stride = 3
  Keys = {1, 2, 3}
  Values = {1, 2}
  BatchSize = 2
  Tables = {0}
  TableOf <- MCTableOf
  Home <- MCHome
  Tombstone = 99
  MaxInserts = 2
  MaxDeletes = 1
  MaxSearches = 1
  DistinctDeletes = FALSE
  MaxRuns = 2
INVARIANTS
  TypeOK
  NoHole
PROPERTY
  ImplementsMap
