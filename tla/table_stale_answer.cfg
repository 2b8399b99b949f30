SPECIFICATION Spec
CONSTANTS
  MaxId = 2
  Vals = {1, 2}
  Starts <- MCStarts
  Queries = {"a", "b"}
  Meta <- MCMeta
  Bodies <- MCBodies
  Index <- MCIndex
  MaxSeq = 2
  MaxChanges = 2
  MaxClip = 1
  SortFiltered = FALSE
  Reopens = TRUE
INVARIANTS HitsOwn
CHECK_DEADLOCK FALSE
