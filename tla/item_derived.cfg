SPECIFICATION Spec
CONSTANTS
  k1 = k1
  k2 = k2
  coll = coll
  Keys = {k1}
  Fields <- OneField
  Elems <- MCElems
  Callers = {c1, c2}
  Ops <- EditOps
  Starts <- AnyStart
  MaxRetry = 1
  MaxElsewhere = 2
INVARIANTS TypeOK FreshPayload ConflictHasRival
PROPERTIES KeepsOtherElements ImplementsItemEdits
CHECK_DEADLOCK FALSE
