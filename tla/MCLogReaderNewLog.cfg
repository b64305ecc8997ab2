SPECIFICATION FairSpec
CONSTANTS
  Logs = {l1, l2}
  NoLog = NoLog
  MaxLines = 2
PROPERTY NewLogIsFollowed
CHECK_DEADLOCK FALSE
