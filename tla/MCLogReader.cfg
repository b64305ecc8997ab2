SPECIFICATION FairSpec
CONSTANTS
  Logs = {l1, l2}
  NoLog = NoLog
  MaxLines = 3
INVARIANTS
  DeliveredInOrder
  ReturnsOnlyIfAskedOrInterrupted
PROPERTIES
  LostIsForever
  LinesArrive
  StopEndsRun
  FeedSpec
CHECK_DEADLOCK FALSE
