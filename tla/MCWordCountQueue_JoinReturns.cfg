\* One consumer, at most one line: the broadcast comes between test and wait.
CONSTANTS
  NumConsumers = 1
  NumLines = 1
  MaxSpurious = 0
  FopenMayFail = FALSE

SPECIFICATION FairSpec

PROPERTY
  JoinReturns

CHECK_DEADLOCK FALSE
