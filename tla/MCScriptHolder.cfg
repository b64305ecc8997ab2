SPECIFICATION Spec
CONSTANTS
  MaxKeyboard = 10
  MaxMouse = 10
  Keyboards <- TwoKeyboards
  Codes <- SpaceBar
  MaxStrokes = 2
  MaxCalls = 1
  MaxRecords = 1
  MaxEdits = 2
INVARIANTS
  TypeOK
  WithheldOnlyBySuppress
  HeldKeysTracked
  InjectionsComeFirst
PROPERTIES
  HandlerKeepsItsScript
  DroppedOnlyOutsideTheLoop
  FilterSpec
CHECK_DEADLOCK FALSE
