SPECIFICATION Spec
CONSTANTS
  a = a
  b = b
  none = none
  Remotes = {a}
  None = none
INVARIANTS AbortNotOffered
