CONSTANTS
  c1 = c1
  c2 = c2
  v1 = v1
  v2 = v2
  Components = {c1}
  Contents = {v1, v2}
  Slots = 2
  MaxRuns = 1
  MaxEnv = 0
SPECIFICATION Spec
CHECK_DEADLOCK FALSE
INVARIANT MarkerMeansFailure
