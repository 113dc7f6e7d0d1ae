SPECIFICATION MCSpec
CONSTANTS
  Cfgs = {c1, c2}
  Tip = 3
  MaxLog = 3
  MaxWork = 2
  Err = Err
  Hand = Hand
  Components = {a, b}
  Tips = {"t1", "t2"}
  MaxRuns = 2
  MaxEnv = 2
  Absent = Absent
  NoPin = NoPin
SYMMETRY Alike
INVARIANTS
  DirtyIsPrediction
  HistoryIsKept
  ChangedIsHonest
  RefreshIsExact
CHECK_DEADLOCK FALSE
