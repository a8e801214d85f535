SPECIFICATION MCSpec
CONSTANTS
  MaxId = 4
  Labels <- MCLabels
  NoLabel = "none"
  MaxSize = 100
  DEPTH = 2
  MAX_NODES = 5
  Kinds <- MCKinds
  PluginKinds <- MCPointers
  LiveRefsOnly = TRUE
  Counts = {2}
  SeedRows = {0, 1}
  AutoRows = 1
  ByteCounts = {8}
  Files <- MCFiles
  Imports <- MCImports
  MaxNodes = 2
  PluginTargets <- MCTargets
  MaxFrames = 2
  MaxCalls = 1
  MaxWishes = 1
  MaxSelection = 2
INVARIANTS
  FrameTypeOK ViewsHold
PROPERTIES
  CallsFit ClosingKeepsExpansion
CHECK_DEADLOCK FALSE
