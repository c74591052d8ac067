\* c1 is answered, c2 fails in a Java service, c3 names no method the server
\* has.
SPECIFICATION FairSpec
CONSTANTS
  Calls = {c1, c2, c3}
  Served = {c1, c2}
  Failing = {c2}
  MaxConns = 2
  MaxReplies = 2
CHECK_DEADLOCK FALSE
INVARIANTS
  DoneAtMostOnce
  OwnResponse
  NoCallForgotten
  OnlyDuplicatesUnknown
PROPERTIES
  ImplementsAbstractRpc
  AnsweredOrLost
