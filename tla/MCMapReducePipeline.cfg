\* Four mappers, six files, two faults.
CONSTANTS
  NumMappers = 4
  NumFiles = 6
  Faults = {"list", "pipe", "mapFork", "reduceFork", "skip", "die", "output"}
  MaxFaults = 2

SPECIFICATION FairSpec

INVARIANTS
  TypeOK
  EvenShares
  ChainAddsEveryShare
  MissingShareOnlyOfFirst

PROPERTY
  EverythingEnds

\* The processes end, or wait for a pipe nobody writes to.
CHECK_DEADLOCK FALSE
