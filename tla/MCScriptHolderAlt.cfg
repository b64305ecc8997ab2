SPECIFICATION Spec
CONSTANTS
  MaxKeyboard = 10
  MaxMouse = 10
  Keyboards <- OneKeyboard
  Codes <- AltKeys
  MaxStrokes = 2
  MaxCalls = 0
  MaxRecords = 1
  MaxEdits = 2
INVARIANTS
  RightAltIsSeen
CHECK_DEADLOCK FALSE
