CONSTANTS
  N = 4
  Limit = 2
SPECIFICATION FairSpec
INVARIANTS
  ProgressInOrder
PROPERTIES
  MapReturns
  ImplementsMap
