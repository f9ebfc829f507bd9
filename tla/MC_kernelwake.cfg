SPECIFICATION FairSpec
CONSTANTS
  Words = {s}
  SeqWord = s
  Sleepers = {c1, c2}
  Producers = {p1, p2}
  NoThread = NoThread
  AddBound = 1
  UseRealFutex = TRUE
PROPERTIES
  NotifyWakes
CHECK_DEADLOCK FALSE
