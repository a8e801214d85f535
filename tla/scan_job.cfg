SPECIFICATION Spec
CONSTANT MaxRuns <- MCMaxRuns
INVARIANTS
  RunningIsBacked OneAwaited
PROPERTIES
  DisownedStaysSilent ScanEnds
CHECK_DEADLOCK FALSE
