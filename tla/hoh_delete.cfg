SPECIFICATION Spec
CONSTANTS
  Capacity = 3
  GroupSize = 2
  Stride = 2
  Keys = {2, 3, 4}
  Values = {1}
  BatchSize = 3
  Tables = {1, 2}
  TableOf <- MCTableOf
  Home <- MCHome
  Tombstone = 99
  RangeSize = 3
  CounterMod = 8
  MaxInserts = 1
  MaxDeletes = 2
  MaxSearches = 0
  DistinctDeletes = TRUE
INVARIANTS
  TypeOK
  NoHole
  OneSlotPerKey
  ValueAddressIsOfKey
  CountMatchesSlots
  TableIsMap
  FreedRangeHoldsNoKey
  CountCoversKeys
  NoFailedDeletion
  DeletesReported
PROPERTY
  SlotsMoveForward
