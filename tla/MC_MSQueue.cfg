SPECIFICATION FairSpec
CONSTANTS
  a = a
  b = b
  c = c
  p = p
  q = q
  n1 = n1
  n2 = n2
  n3 = n3
  n4 = n4
  n5 = n5
  Null = Null
  Threads <- MCThreads
  Queues <- MCQueues
  Nodes <- MCNodes
  Scripts <- MCScripts
INVARIANTS
  EmptyOnlyIfEmpty
  NodesOnce
PROPERTIES
  ImplementsFifo
  OperationsFinish
CHECK_DEADLOCK FALSE
