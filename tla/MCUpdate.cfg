SPECIFICATION MCSpec
CONSTANTS
  c1 = c1
  c2 = c2
  snap1 = snap1
  pin = pin
  head = head
  i1 = i1
  i2 = i2
  b1 = b1
  bad = bad
  None = None
  Components = {c1, c2}
  Snapshots = {snap1}
  Pins = {pin}
  Heads = {head}
  Ids = {i1, i2}
  Builds = {b1, bad}
  BadBuilds = {bad}
  Slots = 1
  MaxRuns = 2
  MaxEnv = 2
CHECK_DEADLOCK FALSE
INVARIANTS
  UpdateIsIdempotent
  CheckOkMeansFresh
  CommitProvenance
  FailedUntouched
PROPERTIES
  ImplementsRegistry
