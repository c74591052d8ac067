SPECIFICATION FairSpec
CONSTANTS
  Sorters = {s1, s2}
  HalfRange = 3
  MaxSteps = 4
  MaxLen = 2
  MaxGenerates = 1
CHECK_DEADLOCK FALSE
INVARIANTS
  MedianRight
  NeverCrossed
PROPERTIES
  SearchEnds
