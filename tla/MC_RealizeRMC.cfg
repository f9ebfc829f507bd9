SPECIFICATION Spec
CONSTANTS
  Blocks <- MCBlocks
  Graphs <- MCGraphs
  Functions <- MCFunctions
  Outside = Outside
  NoValue = NoValue
  Labels <- MCLabels
INVARIANTS
  CutEdgesOrdered
  SourceOrderEnforced
  NothingInvented
  NoWastedLwsync
  FencesOnEveryPath
CHECK_DEADLOCK FALSE
