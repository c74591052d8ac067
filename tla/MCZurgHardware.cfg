SPECIFICATION FairSpec
CONSTANTS
  Commands = {"lshw", "lspci", "lscpu"}
  Lshw = "lshw"
  MaxLength = 1
  PipeSize = 1
CHECK_DEADLOCK FALSE
INVARIANTS
  SinksSafe
  AnsweredOnceAtTheEnd
PROPERTIES
  TaskAnswers
