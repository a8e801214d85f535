SPECIFICATION Spec
CONSTANTS
  MaxHits = 2
  MaxAccesses = 3
INVARIANTS
  TargetUndisturbed
PROPERTIES
  WatchEnds
CHECK_DEADLOCK FALSE
