SPECIFICATION Spec
CONSTANTS
  Blocks <- MCBlocks
  Graphs <- MCGraphs
  Outside = Outside
  MaxQueries = 2
INVARIANTS
  PathsFound
  IdsCanonical
  SCCsRight
CHECK_DEADLOCK FALSE
