SPECIFICATION Spec
CONSTANTS
  MaxHits = 2
  MaxAccesses = 3
INVARIANTS
  NoStopLeft
CHECK_DEADLOCK FALSE
