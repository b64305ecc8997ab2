SPECIFICATION Spec
CONSTANTS
  Stamp = Stamp
  Word = Word
  Name = Name
  Small = Small
  Big = Big
  Unset = Unset
INVARIANTS
  GameLinesAreRead
  DamageIsContained
  InitialisedIfParsed
CHECK_DEADLOCK FALSE
