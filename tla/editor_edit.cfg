SPECIFICATION EditSpec
CONSTANTS
  MaxId = 3
  Labels <- MCLabels
  NoLabel = "none"
  MaxSize = 100
  DEPTH = 2
  MAX_NODES = 100
  Kinds <- MCInstances
  PluginKinds = {}
  LiveRefsOnly = TRUE
  Counts = {2}
  SeedRows = {0}
  AutoRows = 1
  ByteCounts = {}
  Files <- MCFiles
  Imports <- MCImports
  MaxNodes = 2
  MaxCalls = 4
  MaxSelection = 2
INVARIANTS
  NoInlineCycle SavesLoad IdsFresh LoopsExact
PROPERTIES RemoveKeepsLayout EditUndoable
CHECK_DEADLOCK FALSE
