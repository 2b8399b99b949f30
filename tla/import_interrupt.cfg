SPECIFICATION Spec
CONSTANTS
  MaxFiles = 2
  Cancellables <- OwnRunner
INVARIANTS HardFailureBeforeWork
CHECK_DEADLOCK FALSE
