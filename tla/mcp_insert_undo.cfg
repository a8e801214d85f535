SPECIFICATION SessionSpec
CONSTANTS
  MaxId = 4
  Labels <- MCNames
  NoLabel = "none"
  MaxSize = 100
  DEPTH = 2
  MAX_NODES = 5
  Kinds <- MCSessionKinds
  PluginKinds <- MCPointers
  LiveRefsOnly = FALSE
  Counts = {2}
  SeedRows = {0, 1}
  AutoRows = 2
  ByteCounts = {9}
  Files <- MCFiles
  Imports <- MCImports
  MaxNodes = 2
  MaxSelection = 1
  MaxCalls = 3
PROPERTY EditUndoable
CHECK_DEADLOCK FALSE
