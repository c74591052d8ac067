SPECIFICATION FairSpec
CONSTANTS
  w1 = w1
  w2 = w2
  Addresses = {w1, w2}
  HeadWorker = w1
  Lists <- BothOrders
  Totals = {1, 2}
  Slots = 2
  MaxSlots = 4
  MaxKeys = 6
  KeyCounts = {0, 1, 2, 7}
  MaxWorkers = 3
CHECK_DEADLOCK FALSE
INVARIANTS
  PreparedRight
  PivotsRight
PROPERTIES
  PrepareEnds
