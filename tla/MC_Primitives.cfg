SPECIFICATION MCSpec
CONSTANTS
  t1 = t1
  t2 = t2
  t3 = t3
  Structures = {"locks", "ring", "slots", "parking"}
  Threads <- MCThreads
  Kinds = {"seqlock", "readstarve", "writestarve"}
  Modulus = 2
  MaxCount = 0
  NumElems = 2
  UIntRange = 4
  NumValues = 8
  Memory <- Zeros
  MaxWrites = 5
  Words = {k1, k2}
  Sleepers = {k1, k2}
  Unparkers = {u1, u2}
  NoParker = NoParker
  UseRealFutex = FALSE
INVARIANTS
  InOrderReadsWhole
  WritersAlone
  HalvesMatch
  ReadsLatest
  NoDanglingWaiters
  WakeOnItsWay
PROPERTIES
  AnnouncedGetIn
  RingIsFifo
  SignalsNoticed
