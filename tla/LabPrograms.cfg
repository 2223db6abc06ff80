\* Three producers and consumers; three philosophers; matrices of side 1 to 4;
\* three clients of a server that takes one; two clients that chat.
CONSTANTS
  NumTasks = 3
  MaxSpurious = 1
  NumThreads = 3
  Food = 2
  Sizes = {1, 2, 3, 4}
  Clients = {"k1", "k2", "k3"}
  MaxConcurrent = 1
  MaxFailed = 1
  Talkers = {"k1", "k2"}
  MaxAsked = 2
  MaxRepeated = 1
  MaxBadLength = 1

SPECIFICATION FairSpec

INVARIANTS
  EvenSizesMatch
  AnswerBelongs

PROPERTIES
  ImplementsPool
  ThreadsJoin
  DinnerEnds
  ServedWithinLimit

\* The programs end, or wait for a datagram that was lost.
CHECK_DEADLOCK FALSE
