SPECIFICATION Spec
CONSTANTS
  k1 = k1
  k2 = k2
  coll = coll
  Keys = {k1, k2}
  Fields = {"relations"}
  Elems <- MCElems
  Callers = {c1}
  Ops <- RelationOps
  Starts <- AnyStart
  MaxRetry = 0
  MaxElsewhere = 1
PROPERTIES KeepsOtherElements
CHECK_DEADLOCK FALSE
