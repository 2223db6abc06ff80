\* Makefiles of one to five rules, up to two failing forks and execs.
CONSTANTS
  Within <- MCWithin
  NULL = NULL
  MaxDep = 8
  Files <- MCFiles
  Strays <- MCStrays
  RunAll = RunAll
  PrintAll = PrintAll
  DescribeAll = DescribeAll
  Targets = {"all", "a", "x"}
  MaxFaults = 2

SPECIFICATION FairSpec

INVARIANTS
  TypeOK
  OneAtATime
  RepeatsExplained
  DependenciesFirst
  GoalMade
  ListingsRight
  SearchEnds

PROPERTIES
  MymakeEnds

\* The program ends.
CHECK_DEADLOCK FALSE
