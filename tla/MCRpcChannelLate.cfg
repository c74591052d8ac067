SPECIFICATION Spec
CONSTANTS
  Calls = {c1, c2}
  Served = {c1, c2}
  Failing = {}
  MaxConns = 2
  MaxReplies = 1
CHECK_DEADLOCK FALSE
INVARIANT DoneRunsOnLiveChannel
