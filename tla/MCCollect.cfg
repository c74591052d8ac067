SPECIFICATION FairSpec
CONSTANTS
  Pids = {1, 2}
  MaxBirths = 3
  MaxFiles = 2
  Period = 2
  AskedLevels = {0, 1, 3}
  Meminfo <- NewMeminfo
  Stat <- TwoCpus
INVARIANTS
  CacheConsistent
  SnapshotsRight
PROPERTIES
  StayingIsReported
