\* A client program with two mappers and one with a single mapper, and a server
\* that takes one connection: up to three clients connect, and a child of the
\* first program whose connect fails forks the second mapper again.
CONSTANTS
  one = one
  two = two
  three = three
  Master = {one, two}
  NumMappers <- MCNumMappers
  Process <- MCProcess
  NumFiles = 2
  Words <- MCWords
  NumLetters = 1
  Rows = 5
  InitRows = 2
  MaxConn = 1
  MaxLost = 1
  Faults = {"die", "connect"}
  MaxFaults = 2

SPECIFICATION FairSpec

INVARIANT
  TurnedAwayAtMostOnce

PROPERTY
  MastersFinish

\* A client of the deadlocked server waits forever.
CHECK_DEADLOCK FALSE
