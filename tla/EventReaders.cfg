SPECIFICATION FairSpec
CONSTANTS
  MaxLog = 4
  MaxOpens = 2
INVARIANT Folded
PROPERTIES EndsSettled StreamEnds
CHECK_DEADLOCK FALSE
