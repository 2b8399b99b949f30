SPECIFICATION Spec
CONSTANTS
  k1 = k1
  k2 = k2
  k3 = k3
  x = x
  y = y
  Keys = {k1}
  Elems = {x, y}
  Patches <- Unloaded
  Starts <- MCStarts
  ChunkSize = 2
  MaxRetry = 0
  MaxElsewhere = 1
PROPERTIES AppendKeeps
CHECK_DEADLOCK FALSE
