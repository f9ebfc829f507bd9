SPECIFICATION FairSpec
CONSTANTS
  Blocks <- MCBlocks
  Graphs <- MCGraphs
  Functions <- MCFunctions
  Outside = Outside
  NoValue = NoValue
  Labels <- MCLabels
  Targets <- MCTargets
  MaxCapacity = 5
INVARIANTS
  EverythingCut
  SourceOrderEnforced
  SearchKeepsLeastCost
  NoDearerThanGreedy
  AbortsIffStuck
PROPERTIES
  CutsInserted
CHECK_DEADLOCK FALSE
