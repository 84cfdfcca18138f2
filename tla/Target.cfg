CONSTANTS
  Finals = {"Completed", "AbortedByOperator"}
  Progress = {"InProgress"}
  MaxRequests = 3
SPECIFICATION FairSpec
CHECK_DEADLOCK FALSE
INVARIANTS TypeOK StatusLoopAlive OutcomeReachedHost
PROPERTIES FileOperationFinishedEnds
