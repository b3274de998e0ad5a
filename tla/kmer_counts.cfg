SPECIFICATION Spec
CONSTANTS
  Capacity = 5
  GroupSize = 2
  Stride = 4
  Keys = {0, 1, 2, 3, 4}
  Values = {}
  BatchSize = 3
  Tables = {0}
  TableOf <- MCTableOf
  Home <- MCHome
  Tombstone = 99
  MaxKmers = 5
INVARIANTS
  TypeOK
  CountsAreExact
  EveryKmerAddsOne
