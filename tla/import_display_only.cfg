SPECIFICATION Spec
CONSTANTS
  MaxFiles = 2
  Cancellables <- OwnRunner
PROPERTIES WorkCompletes
CHECK_DEADLOCK FALSE
