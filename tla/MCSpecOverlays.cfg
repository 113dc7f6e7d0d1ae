CONSTANTS
  Inputs <- MCInputs
  Overlays <- MCOverlays
  MaxOverlays = 2
  MaxLines = 4
  MoreLines = 6
  MoreTags = 3
SPECIFICATION Spec
CHECK_DEADLOCK FALSE
INVARIANTS
  PatchesHaveFiles
PROPERTIES
  EditsAreExact
  InsertedIsUnconditional
