\* One client program with two mappers and a file each.
CONSTANTS
  one = one
  two = two
  three = three
  Master = {one}
  NumMappers <- MCNumMappers
  Process <- MCProcess
  NumFiles = 2
  Words <- MCWords
  NumLetters = 2
  Rows = 5
  InitRows = 2
  MaxConn = 2
  MaxLost = 1
  Faults = {"fork", "socket", "connect", "create", "die", "garbled"}
  MaxFaults = 1

SPECIFICATION FairSpec

INVARIANTS
  TypeOK
  CountsExact
  AnswersCoverOwn
  AnswersMatch
  RefusalsExplained
  ServerOutlivesSessions

PROPERTY
  ServedToTheEnd

\* The programs end; after a failed pthread_create a client waits forever.
CHECK_DEADLOCK FALSE
