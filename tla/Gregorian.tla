----------------------------- MODULE Gregorian -----------------------------
(* What a calendar promises: the days of the proleptic Gregorian calendar   *)
(* follow one another, and so do the days of the week.  date.h computes     *)
(* both from a day number in closed form (Calendar.tla).                    *)
EXTENDS Integers

CONSTANTS FirstDates,   \* the dates a walk may start from
          LastYear      \* the walk ends with this year

VARIABLES date,         \* [y, m, d]
          dayOfWeek       \* 0 = Sunday
vars == <<date, dayOfWeek>>

Leap(y) == y % 4 = 0 /\ (y % 100 = 0 => y % 400 = 0)
Length(y, m) == IF m = 2 THEN IF Leap(y) THEN 29 ELSE 28
                ELSE IF m \in {4, 6, 9, 11} THEN 30 ELSE 31

Tomorrow(t) ==
    IF t.d < Length(t.y, t.m) THEN [t EXCEPT !.d = @ + 1]
    ELSE IF t.m < 12          THEN [t EXCEPT !.m = @ + 1, !.d = 1]
    ELSE                           [y |-> t.y + 1, m |-> 1, d |-> 1]

Init == date \in FirstDates /\ dayOfWeek \in 0..6

Next == /\ date.y <= LastYear
        /\ date' = Tomorrow(date)
        /\ dayOfWeek' = (dayOfWeek + 1) % 7

\* 1970-01-01, where the day numbers begin, was a Thursday: of the weekdays
\* that a walk may start with, only one leads there.
Epoch == [y |-> 1970, m |-> 1, d |-> 1]
Anchored == date = Epoch => dayOfWeek = 4

Spec == Init /\ [][Next]_vars /\ []Anchored
=============================================================================
