SPECIFICATION FairSpec
CONSTANTS
  Words = {s}
  SeqWord = s
  Sleepers = {c1, c2}
  Producers = {p1, p2}
  NoThread = NoThread
  AddBound = 3
  UseRealFutex = FALSE
PROPERTIES
  NotifyWakes
  NoLostWakeup
CHECK_DEADLOCK FALSE
