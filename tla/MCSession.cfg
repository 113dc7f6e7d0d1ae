SPECIFICATION MCSpec
CONSTANTS
  Commands = {"build", "boot", "test", "mcp", "mock"}
  NeedsConfig = {"build", "test", "mock"}
  Spellings = {"absent", "plain"}
  Words = {"w1", "w2"}
  Tools = {"list-components", "list-images"}
  FlagTools = {"list-components"}
  Preset <- MCPreset
  Lines = 1
  MaxLaunches = 2
  MaxCalls = 2
  None = None
  Formats <- MCFormats
  Qcow2 = "qcow2"
  TestList <- MCTestList
  Kind <- MCKind
  Refs = {"c1", "c2"}
  Own = "own"
  BootOptions <- MCBootOptions
  TestOptions <- MCTestOptions
  MaxBuilds = 2
  MaxTouches = 1
  Registry <- MCRegistry
  Replacement <- MCReplacement
  Instructions <- MCInstructions
  Points <- MCPoints
  Versions = {"v1", "v2"}
  Servers = {"other"}
  MaxInstalls = 2
  MaxEdits = 1
CHECK_DEADLOCK FALSE
INVARIANTS
  NothingLeft
  OneBuildInOut
  RightFramework
  CallIsFresh
  AllLinesHeard
  InstallIsWhole
