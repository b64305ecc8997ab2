----------------------------- MODULE Calendar -----------------------------
(* A clock of days, sys_days, read through the conversions of date.h: as a  *)
(* year_month_day with its weekday, and as the n-th or the last weekday of  *)
(* a month.                                                                 *)
EXTENDS Date

CONSTANTS Walks,    \* intervals <<first, last>> of day numbers to walk through
          Shifts    \* numbers of months to move a date by

\* The days of the years that a year can hold, year::min() to year::max().
FirstDay == to_days(ymd(MinYear, 1, 1))
LastDay  == to_days(ymd(MaxYear, 12, 31))

ASSUME WalksAssumption == Walks \subseteq (FirstDay..LastDay) \X (FirstDay..LastDay)
ASSUME ShiftsAssumption == Shifts \subseteq Int

VARIABLE z          \* sys_days::time_since_epoch().count()

Init == z \in {w[1] : w \in Walks}
Next == /\ \E w \in Walks : w[1] <= z /\ z < w[2]
        /\ z' = z + 1
Spec == Init /\ [][Next]_z

date == from_days(z)
wd == weekday_from_days(z)

-----------------------------------------------------------------------------
(* Between year::min() and year::max(), from_days and to_days are inverses  *)
(* of one another: era, year of the era and the March-based month lose no   *)
(* day, and a date that is made from a day number is ok().  operator< has   *)
(* the order of the days: of the next day, and of those around its month.   *)
DaysAndDatesAgree ==
    LET today == date
    IN /\ ymd_ok(today) /\ to_days(today) = z
       /\ \A n \in {1, 28, 31, 366} :
             z + n <= LastDay
                => ymd_before(today, from_days(z + n)) /\ ~ymd_before(from_days(z + n), today)

(* The n-th weekday of a month (year_month_weekday) names the same day, is  *)
(* ok(), and is the last one exactly if a week later is another month, and  *)
(* then there is none with the next index (year_month_weekday::ok tests the *)
(* length of the month only for the fifth).                                 *)
NthWeekday ==
    LET t == ymwd_from_days(z)
        today == date
        next == [t EXCEPT !.i = weekday_indexed(@.wd, @.index + 1)]
        isLast == from_days(z + 7).m # today.m
    IN /\ ymwd_ok(t) /\ ymwd_to_days(t) = z
       /\ isLast <=> (ymwdl_to_days(today.y, today.m, wd) = z)
       /\ isLast <=> ~ymwd_ok(next)

(* Moving by months: the difference of the months is what was added exactly *)
(* if the year still fits a short (it wraps silently otherwise); moving     *)
(* back restores the date, even if there was no such day in between, which  *)
(* is what ok() then tells; year_month_day_last never misses the month.     *)
AddsUp(n) ==
    LET today == date
        here == year_month(today.y, today.m)
        t == ymd_plus_months(today, n)
        there == year_month(t.y, t.m)
        years == (today.y * 12 + today.m - 1 + n) \div 12
        fits == -32768 <= years /\ years <= 32767
    IN /\ fits <=> (year_month_minus(there, here) = n)
       /\ t.m = month_plus(today.m, n) /\ month_minus(t.m, today.m) = n % 12
       /\ ymd_plus_months(t, -n) = today
       /\ year_ok(t.y) => /\ ymd_ok(t) <=> t.d <= last_day(t.y, t.m)
                          /\ ymd_ok(ymdl_plus_months(here, n))

(* Moving by months adds up for every number of months there is.            *)
MonthsAddUp == \A n \in Shifts : AddsUp(n)

(* The calendar moves on as Gregorian says, the weekday with it, and passes *)
(* the day 0 on a Thursday.                                                 *)
Abstract == INSTANCE Gregorian
    WITH date <- date, dayOfWeek <- wd,
         FirstDates <- {from_days(w[1]) : w \in Walks}, LastYear <- MaxYear
FollowsGregorian == Abstract!Spec
=============================================================================
