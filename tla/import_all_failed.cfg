SPECIFICATION Spec
CONSTANTS
  MaxFiles = 2
  Cancellables <- OwnRunner
INVARIANTS WholeFailureSurfaces
CHECK_DEADLOCK FALSE
