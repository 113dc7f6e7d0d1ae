CONSTANTS
  a = a
  b = b
  p1 = p1
  p2 = p2
  p3 = p3
  l1 = l1
  l2 = l2
  Names = {a, b}
  Configured = {a}
  Procs = {p1, p2, p3}
  Locks = {l1, l2}
  Absent = Absent
  Torn = Torn
  None = None
  New = New
  Failed = Failed
  Racing = FALSE
SPECIFICATION Spec
SYMMETRY Symmetry
INVARIANTS
  AnswersAreCurrent
  NewOnlyIfMissing
