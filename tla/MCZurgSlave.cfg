SPECIFICATION FairSpec
CONSTANTS
  Commands = {c1, c2}
  Apps = {a1}
  Pids = {1, 2}
  MaxForks = 3
CHECK_DEADLOCK FALSE
INVARIANTS
  PidsConsistent
  RunningIsWatched
  TimeoutKillsOwnChild
PROPERTIES
  ExitIsReported
