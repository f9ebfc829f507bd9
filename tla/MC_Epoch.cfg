SPECIFICATION Spec
CONSTANTS
  a = a
  b = b
  c = c
  Threads <- MCThreads
  NoThread = NoThread
  Scripts <- MCScripts
  GarbageThreshold = 0
INVARIANTS
  EpochsClose
  NothingFreedInUse
  WalksOnLiveNodes
  GarbageOnce
  SynchronizeWaits
CHECK_DEADLOCK FALSE
