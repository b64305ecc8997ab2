SPECIFICATION FairSpec
CONSTANTS
  MaxRecords = 2
  MaxEvents = 2
INVARIANTS
  OnlyContextAndMutexUsedLate
PROPERTIES
  TeardownEnds
  SessionSpec
CHECK_DEADLOCK FALSE
