\* Two mappers, a file each, no faults.
CONSTANTS
  NumMappers = 2
  NumFiles = 2
  Faults = {}
  MaxFaults = 0

SPECIFICATION Spec

INVARIANT
  MasterReports

CHECK_DEADLOCK FALSE
