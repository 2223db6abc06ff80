\* One consumer, at most one line: the two loads of `end` straddle the store.
CONSTANTS
  NumConsumers = 1
  NumLines = 1
  MaxSpurious = 0
  FopenMayFail = FALSE

SPECIFICATION FairSpec

INVARIANT
  CountsEachWord

CHECK_DEADLOCK FALSE
