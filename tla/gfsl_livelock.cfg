SPECIFICATION FairSpec
CONSTANTS
  DSize = 4
  MaxKey = 13
  TopLevel = 4
  PoolSize = 30
  NumWarps = 1
  Traces <- DeepTraces
PROPERTIES
  DeletesSucceed
