SPECIFICATION Spec
CONSTANTS
  Keys <- MCKeys
  RangeWidth = 4
  NumWarps = 2
  MaxInserts = 2
  MaxDeletes = 1
INVARIANT ZeroMeansNoPredecessor
