CONSTANTS
    Walks <- MCWalks
    Shifts <- MCShifts
SPECIFICATION Spec
INVARIANTS
    DaysAndDatesAgree
    NthWeekday
    MonthsAddUp
PROPERTIES
    FollowsGregorian
CHECK_DEADLOCK FALSE
