SPECIFICATION Spec
CONSTANTS
  BeforeCount = 2
  AfterCount = 1
  ChangesCount = 1
  PipeSize = 1
  MaxOutput = 2
CHECK_DEADLOCK FALSE
INVARIANTS
  TypeOK
  ReportsAreTrue
  ReportsEndAtDeadline
  EveryCommandReported
PROPERTY
  RunEnds
