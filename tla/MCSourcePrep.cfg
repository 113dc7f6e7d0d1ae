CONSTANTS
  a = a
  b = b
  x = x
  y = y
  None = None
  Names = {a, b}
  Contents = {x, y}
  MaxAttempts = 2
  Configs <- MCConfigs
SPECIFICATION FairSpec
CHECK_DEADLOCK FALSE
INVARIANTS
  ListIsTrue
  RenderedListIsBuilt
  NoLeftovers
PROPERTIES
  PrepareEnds
