SPECIFICATION FindSpec
CONSTANTS
  Sources <- MCSources
INVARIANTS
  ActionsApart
  TypesTell
CHECK_DEADLOCK FALSE
