SPECIFICATION MCSpec
CONSTANTS
  MaxId = 3
  Labels <- MCLabels
  NoLabel = "none"
  MaxSize = 60
  Kinds <- MCKinds
  Counts = {2}
  Starts <- MCStarts
  MaxNodes = 2
  MaxCalls = 4
INVARIANTS
  LayoutAnswered CyclesForgotten
CHECK_DEADLOCK FALSE
