SPECIFICATION Spec
CONSTANTS
  MaxFiles = 3
  Cancellables <- BothRunners
INVARIANTS TypeOK ReportTrue
PROPERTIES CommandEnds
CHECK_DEADLOCK FALSE
