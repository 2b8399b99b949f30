SPECIFICATION Spec
CONSTANTS
  MaxId = 3
  Vals = {1, 2}
  Starts <- ThreeRows
  Queries = {"a", "b"}
  Meta <- MCMeta
  Bodies <- MCBodies
  Index <- MCIndex
  MaxSeq = 2
  MaxChanges = 2
  MaxClip = 1
  SortFiltered = TRUE
  Reopens = FALSE
INVARIANTS ScreenTruth
CHECK_DEADLOCK FALSE
