SPECIFICATION Spec
CONSTANTS
  a = a
  b = b
  none = none
  Callers = {a, b}
  None = none
  Trailer = 2
  Kinds = {"ok", "fail"}
  Stalls = TRUE
  MaxQueries = 2
INVARIANTS TrailerStaysOut
CHECK_DEADLOCK FALSE
