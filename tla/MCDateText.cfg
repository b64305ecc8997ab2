CONSTANTS
    FracWidth = 1
    PmHour = 13
    Damage = TRUE
    Requests <- MCRequests
SPECIFICATION Spec
INVARIANTS
    TypeOK
    WrittenIsRead
    FoundIsTrue
    TimeIsTrue
