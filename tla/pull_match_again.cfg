SPECIFICATION Spec
CONSTANTS
  Students = {1, 2}
  Ids = {1, 2}
  Slugs = {"a", "b"}
  Repos = {"r1", "r2"}
  On <- MCOn
  Exact <- TwoNames
  Similar <- TwoNames
  Course <- BothEnrolled
  MaxPulls = 1
  MaxMatches = 2
  MaxChanges = 0
CHECK_DEADLOCK FALSE
INVARIANTS PendingHasName
