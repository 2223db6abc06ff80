\* Two consumers, a file of up to three lines, one spurious wakeup, and fopen
\* that may fail.
CONSTANTS
  NumConsumers = 2
  NumLines = 3
  MaxSpurious = 1
  FopenMayFail = TRUE

SPECIFICATION FairSpec

INVARIANTS
  TypeOK
  NoDataRace
  NoWildRead
  NothingLeftBehind
  ReportComplete
  WorkHasWorker
  HangLosesNoLine
  NoExitBeforeEOF

PROPERTIES
  ImplementsTally
  PublishedLineClaimed

\* The program may hang (see the run join_returns) and it ends.
CHECK_DEADLOCK FALSE
