SPECIFICATION SnapSpec
CONSTANTS
  Kinds <- MCKinds
  Nodes <- MCNodes
  Roots <- MCRoots
  Expansions <- MCExpansions
  Images <- MCImages
  CellBase = 4
  PtrBytes = 2
  ArrayLimit = 2
  MaxClass = 8
  Chunk = 2
  MaxMoves = 2
  Queries <- MCQueries
  NoQuery <- MCNoQuery
  Matches <- MCMatches
INVARIANTS
  RowsTrue
  FilterKeepsBranches
PROPERTIES
  SnapshotEnds
CHECK_DEADLOCK FALSE
