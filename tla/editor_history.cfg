SPECIFICATION HistorySpec
CONSTANTS
  MaxId = 1
  Labels <- MCLabels
  NoLabel = "none"
  MaxSize = 100
  DEPTH = 3
  MAX_NODES = 2
  Kinds <- MCWords
  PluginKinds = {}
  LiveRefsOnly = TRUE
  Counts = {}
  SeedRows = {0}
  AutoRows = 1
  ByteCounts = {8, 24}
  Files <- MCSmallFiles
  Imports <- MCImports
  MaxNodes = 3
  MaxSelection = 1
  MaxCalls = 0
INVARIANTS
  HistoryCapped TrimsLeast
PROPERTY TimelineSpec
CHECK_DEADLOCK FALSE
