SPECIFICATION Spec
CONSTANTS
  Blocks <- MCBlocks
  Graphs <- MCGraphs
  Functions <- NextFirst
  Outside = Outside
  NoValue = NoValue
  Labels <- MCLabels
INVARIANTS
  ReadEdgesCut
CHECK_DEADLOCK FALSE
