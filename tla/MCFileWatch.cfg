SPECIFICATION FairSpec
CONSTANTS
  Files <- TwoFiles
  WatchedFile <- MCWatched
  BufferSize = 2
  MaxChanges = 3
INVARIANTS
  TypeOK
  DeliveredInOrder
  DirectoryClosed
PROPERTIES
  ReportedIsDelivered
  KeptChangesAreNotified
  DestroyReturns
  FeedSpec
CHECK_DEADLOCK FALSE
