SPECIFICATION Spec
CONSTANTS
  MaxKeyboard = 10
  MaxMouse = 10
  Keyboards <- OneKeyboard
  Codes <- SpaceBar
  MaxStrokes = 2
  MaxCalls = 1
  MaxRecords = 1
  MaxEdits = 2
INVARIANTS
  SendsWhatItHas
CHECK_DEADLOCK FALSE
