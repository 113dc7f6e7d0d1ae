CONSTANTS
  a = a
  b = b
  a1 = a1
  a2 = a2
  b1 = b1
  None = None
  Components = {a, b}
  Rpms = {a1, a2, b1}
  Owner <- MCOwner
  Channel <- MCChannel
  Options <- MCOptions
  MaxRuns = 2
SPECIFICATION Spec
CHECK_DEADLOCK FALSE
INVARIANTS
  ChainSeesEarlier
  CleanRunLeavesTrueIndex
  ProvenanceChroot
