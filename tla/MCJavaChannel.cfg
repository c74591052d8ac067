SPECIFICATION FairSpec
CONSTANTS
  c1 = c1
  c2 = c2
  Calls = {c1, c2}
  Fates <- OneIsPlain
  MaxReplies = 2
CHECK_DEADLOCK FALSE
INVARIANTS
  AnswersMatched
  NoLostWakeup
PROPERTIES
  CallsReturn
