SPECIFICATION FairSpec
CONSTANTS
  k1 = k1
  k2 = k2
  coll = coll
  Keys = {k1, k2}
  Fields <- MCFields
  Elems <- MCElems
  Callers = {c1, c2}
  Ops <- LinkOps
  Starts <- NoElements
  MaxRetry = 1
  MaxElsewhere = 0
INVARIANTS LinkedBothWays
PROPERTIES Returns
CHECK_DEADLOCK FALSE
