SPECIFICATION FairSpec
CONSTANTS
  Threads = {t1, t2, t3}
  NoNode = NoNode
INVARIANTS
  MutualExclusion
  NodesAlive
PROPERTIES
  QueuedGetLock
  ImplementsFairLock
