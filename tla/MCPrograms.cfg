SPECIFICATION FairSpec
CONSTANTS
  Boards = {1, 2, 3, 4, 5, 6}
  Threads = 2
  Thresholds = {2, 14}
  MaxSpread = 3
  NumClients = 2
  NumThreads = 1
  NPipeline = 2
  KRequests = 3
  MaxCalls = 3
  IntrLines <- Interrupts
  DiskLines <- Disks
  MaxWire = 2
  Sizes = {2, 3, 4}
  MaxMessages = 2
  GoMax = 5
  JavaMax = 6
CHECK_DEADLOCK FALSE
INVARIANTS
  TotalRight
  BenchRight
  BeatsRight
  StopsForAReason
PROPERTIES
  ImplementsLink
  ProgramsEnd
