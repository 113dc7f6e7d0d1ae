SPECIFICATION MCSpec
CONSTANTS
  c1 = c1
  c2 = c2
  v1 = v1
  v2 = v2
  Components = {c1, c2}
  Contents = {v1, v2}
  Slots = 2
  MaxRuns = 2
  MaxEnv = 1
CHECK_DEADLOCK FALSE
INVARIANTS
  CancelledKeepsOutput
  CheckAgrees
  CompleteOrMarked
  ChangedIsTrue
