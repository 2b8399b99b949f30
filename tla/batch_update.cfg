SPECIFICATION FairSpec
CONSTANTS
  k1 = k1
  k2 = k2
  k3 = k3
  x = x
  y = y
  Keys = {k1, k2, k3}
  Elems = {x, y}
  Patches <- Proper
  Starts <- MCStarts
  ChunkSize = 2
  MaxRetry = 1
  MaxElsewhere = 2
INVARIANTS TypeOK NilMeansMade EveryKeyReported
PROPERTIES AppendKeeps Returns
CHECK_DEADLOCK FALSE
