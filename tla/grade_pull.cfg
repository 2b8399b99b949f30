SPECIFICATION Spec
CONSTANTS
  Students = {1, 2}
  Ids = {1, 2}
  Slugs = {"a", "b"}
  Repos = {"r1", "r2"}
  On <- MCOn
  Exact <- MCExact
  Similar <- MCSimilar
  Course <- MCCourse
  MaxPulls = 3
  MaxMatches = 2
  MaxChanges = 3
CHECK_DEADLOCK FALSE
INVARIANTS TypeOK PullComplete FailureHasCause ClearedMeansMatched
PROPERTIES NamesKept
