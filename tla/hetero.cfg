SPECIFICATION Spec
CONSTANTS
  Keys <- MCKeys
  RangeWidth = 4
  NumWarps = 3
  MaxInserts = 2
  MaxDeletes = 1
INVARIANTS
  LookupsRight
  BoundsExact
  PredecessorRight
