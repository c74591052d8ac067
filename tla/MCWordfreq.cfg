SPECIFICATION FairSpec
CONSTANTS
  N = 2
  KBatch = 2
  KConcurrency = 1
  MaxKey = 2
  MaxShard = 4
  MaxKeys = 6
  MaxCalls = 2
CHECK_DEADLOCK FALSE
INVARIANTS
  KeysConserved
  DeliveredAsCounted
PROPERTIES
  UnevenShufflesEnd
