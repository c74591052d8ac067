SPECIFICATION FairSpec
CONSTANTS
  None = None
  Calls = {c1, c2, c3}
  Kinds = {"good", "unset", "unknown", "garbled", "fails", "twice", "odd"}
  Servers = {"go", "cpp"}
CHECK_DEADLOCK FALSE
INVARIANTS
  RepliesMatched
  PanicsNeedRefusals
PROPERTIES
  CallsReturn
