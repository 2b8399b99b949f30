SPECIFICATION FairSpec
CONSTANTS
  a = a
  b = b
  none = none
  Callers = {a, b}
  None = none
  Trailer = 2
  Kinds = {"ok", "fail", "long", "hang"}
  Stalls = FALSE
  MaxQueries = 3
INVARIANTS TypeOK AnswersOwn BufferOwn
PROPERTIES QueriesReturn CloseFrees
CHECK_DEADLOCK FALSE
