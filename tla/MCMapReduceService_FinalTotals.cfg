\* Two mappers update the same letter.
CONSTANTS
  one = one
  two = two
  three = three
  Master = {one}
  NumMappers <- MCNumMappers
  Process <- MCProcess
  NumFiles = 2
  Words <- MCWords
  NumLetters = 1
  Rows = 5
  InitRows = 2
  MaxConn = 2
  MaxLost = 1
  Faults = {}
  MaxFaults = 0

SPECIFICATION Spec

INVARIANT
  FinalTotals

CHECK_DEADLOCK FALSE
