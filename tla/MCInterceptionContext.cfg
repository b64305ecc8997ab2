SPECIFICATION Spec
CONSTANTS
  MaxKeyboard = 3
  MaxMouse = 2
  MaxStrokes = 4
INVARIANTS
  TypeOK
  AllOrNothing
  ClosedOnce
  WaitFindsAStroke
CHECK_DEADLOCK FALSE
