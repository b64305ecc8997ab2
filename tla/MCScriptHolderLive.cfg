SPECIFICATION FairSpec
CONSTANTS
  MaxKeyboard = 10
  MaxMouse = 10
  Keyboards <- TwoKeyboards
  Codes <- SpaceBar
  MaxStrokes = 2
  MaxCalls = 0
  MaxRecords = 1
  MaxEdits = 2
PROPERTIES
  StrokesAreAnswered
  StopWithTheNextStroke
CHECK_DEADLOCK FALSE
