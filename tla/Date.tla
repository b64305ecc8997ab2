------------------------------- MODULE Date -------------------------------
(* The calendrical types of date.h.  A day, a month and a weekday are an    *)
(* unsigned char, a year is a short, an index of a weekday has four bits:   *)
(* the constructors narrow what they are given.  A duration is its count.   *)
EXTENDS Integers

UChar(n) == n % 256
Short(n) == ((n + 32768) % 65536) - 32768
Nibble(n) == n % 16

\* Division in C++ rounds towards zero.
Quotient(a, b) == IF a >= 0 THEN a \div b ELSE -((-a) \div b)

-----------------------------------------------------------------------------
(* day, month, year *)

day(n) == UChar(n)
day_ok(d) == 1 <= d /\ d <= 31
day_plus(d, days) == day(d + days)

month(n) == UChar(n)
month_ok(m) == 1 <= m /\ m <= 12
month_plus(m, months) ==
    LET mu == m + months - 1
        yr == Quotient(IF mu >= 0 THEN mu ELSE mu - 11, 12)
    IN month(mu - yr * 12 + 1)
month_minus(m, n) == IF m - n \in 0..11 THEN m - n ELSE m - n + 12

MinYear == -32767
MaxYear == 32767
nanyear == -32768
year(n) == Short(n)
year_ok(y) == y # -32768
year_plus(y, years) == year(y + years)
is_leap(y) == y % 4 = 0 /\ (y % 100 # 0 \/ y % 400 = 0)

-----------------------------------------------------------------------------
(* weekday, weekday_indexed, weekday_last *)

weekday(n) == UChar(IF n # 7 THEN n ELSE 0)
weekday_ok(w) == w <= 6
\* A negative z becomes z + 2^32, and 2^32 % 7 = 4.
UnsignedMod7(z) == IF z >= 0 THEN z % 7 ELSE ((z % 7) + 4) % 7
\* Fault: the days before 1969-12-28 have no case of their own.
weekday_from_days_OneCase(z) == UnsignedMod7(z + 4)

weekday_from_days(z) == IF z >= -4 THEN (z + 4) % 7 ELSE UnsignedMod7(z)
Weeks(n) == Quotient(IF n >= 0 THEN n ELSE n - 6, 7)
weekday_minus(w, v) == w - v - Weeks(w - v) * 7
weekday_plus(w, days) == weekday(w + days - Weeks(w + days) * 7)
iso_encoding(w) == IF w = 0 THEN 7 ELSE w

weekday_indexed(w, n) == [wd |-> Nibble(w), index |-> Nibble(n)]
weekday_indexed_ok(i) == weekday_ok(i.wd) /\ 1 <= i.index /\ i.index <= 5

-----------------------------------------------------------------------------
(* year_month *)

year_month(y, m) == [y |-> y, m |-> m]
year_month_ok(t) == year_ok(t.y) /\ month_ok(t.m)
\* Fault: a negative number of months is divided like a positive one.
year_month_plus_Truncating(t, months) ==
    LET dmi == t.m - 1 + months
    IN year_month(year_plus(t.y, Quotient(dmi, 12)), month(dmi - Quotient(dmi, 12) * 12 + 1))

year_month_plus(t, months) ==
    LET dmi == t.m - 1 + months
        dy == Quotient(IF dmi >= 0 THEN dmi ELSE dmi - 11, 12)
    IN year_month(year_plus(t.y, dy), month(dmi - dy * 12 + 1))
year_month_minus(t, u) == (t.y - u.y) * 12 + (t.m - u.m)
year_month_before(t, u) == t.y < u.y \/ (t.y = u.y /\ t.m < u.m)

-----------------------------------------------------------------------------
(* month_day, month_weekday *)

LeapLengths == <<31, 29, 31, 30, 31, 30, 31, 31, 30, 31, 30, 31>>
month_day_ok(m, d) == month_ok(m) /\ 1 <= d /\ d <= LeapLengths[m]
month_weekday_ok(m, i) == month_ok(m) /\ weekday_indexed_ok(i)

-----------------------------------------------------------------------------
(* year_month_day_last: the last day of a month *)

Lengths == <<31, 28, 31, 30, 31, 30, 31, 31, 30, 31, 30, 31>>
last_day(y, m) == IF (m # 2 \/ ~is_leap(y)) /\ month_ok(m) THEN Lengths[m] ELSE 29

-----------------------------------------------------------------------------
(* year_month_day *)

ymd(y, m, d) == [y |-> y, m |-> m, d |-> d]

\* The years begin in March, so that the leap day is the last of a year; an
\* era has 400 of them.  Unsigned wrap-around cancels out where d is 0.
to_days(t) ==
    LET y == t.y - (IF t.m <= 2 THEN 1 ELSE 0)
        era == Quotient(IF y >= 0 THEN y ELSE y - 399, 400)
        yoe == y - era * 400
        doy == (153 * (IF t.m > 2 THEN t.m - 3 ELSE t.m + 9) + 2) \div 5 + t.d - 1
        doe == yoe * 365 + yoe \div 4 - yoe \div 100 + doy
    IN era * 146097 + doe - 719468

from_days(days) ==
    LET z == days + 719468
        era == Quotient(IF z >= 0 THEN z ELSE z - 146096, 146097)
        doe == z - era * 146097
        yoe == (doe - doe \div 1460 + doe \div 36524 - doe \div 146096) \div 365
        doy == doe - (365 * yoe + yoe \div 4 - yoe \div 100)
        mp == (5 * doy + 2) \div 153
        m == IF mp < 10 THEN mp + 3 ELSE mp - 9
    IN ymd(year(yoe + era * 400 + (IF m <= 2 THEN 1 ELSE 0)), month(m),
           day(doy - (153 * mp + 2) \div 5 + 1))

ymd_ok(t) == /\ year_ok(t.y) /\ month_ok(t.m)
             /\ 1 <= t.d /\ t.d <= last_day(t.y, t.m)
\* Fault: the months are not asked to be equal.
ymd_before_ByDay(t, u) == t.y < u.y \/ (t.y = u.y /\ t.m <= u.m /\ t.d < u.d)

ymd_before(t, u) ==
    t.y < u.y \/ (t.y = u.y /\ (t.m < u.m \/ (t.m = u.m /\ t.d < u.d)))

\* The day of the month is kept, whether or not the new month has it.
ymd_plus_months(t, months) ==
    LET ym == year_month_plus(year_month(t.y, t.m), months)
    IN ymd(ym.y, ym.m, t.d)
ymd_plus_years(t, years) == ymd(year_plus(t.y, years), t.m, t.d)

\* year_month_day_last is a date whose day follows its month.
ymdl_plus_months(t, months) ==
    LET ym == year_month_plus(t, months) IN ymd(ym.y, ym.m, last_day(ym.y, ym.m))

-----------------------------------------------------------------------------
(* year_month_weekday and year_month_weekday_last: the n-th and the last    *)
(* of a weekday in a month                                                  *)

ymwd_from_days(z) ==
    LET t == from_days(z)
    IN [y |-> t.y, m |-> t.m,
        i |-> weekday_indexed(weekday_from_days(z), (t.d - 1) \div 7 + 1)]
ymwd_to_days(t) ==
    LET first == to_days(ymd(t.y, t.m, 1))
    IN first + weekday_minus(t.i.wd, weekday_from_days(first)) + (t.i.index - 1) * 7
\* Fault: every month has a fifth weekday.
ymwd_ok_FifthToo(t) ==
    year_ok(t.y) /\ month_ok(t.m) /\ weekday_ok(t.i.wd) /\ t.i.index \in 1..5

ymwd_ok(t) ==
    /\ year_ok(t.y) /\ month_ok(t.m) /\ weekday_ok(t.i.wd) /\ t.i.index >= 1
    /\ \/ t.i.index <= 4
       \/ LET first == to_days(ymd(t.y, t.m, 1))
          IN weekday_minus(t.i.wd, weekday_from_days(first)) + (t.i.index - 1) * 7 + 1
                <= last_day(t.y, t.m)
ymwd_plus_months(t, months) ==
    LET ym == year_month_plus(year_month(t.y, t.m), months)
    IN [y |-> ym.y, m |-> ym.m, i |-> t.i]

ymwdl_to_days(y, m, w) ==
    LET end == to_days(ymd(y, m, last_day(y, m)))
    IN end - weekday_minus(weekday_from_days(end), w)

\* (Monday - Thursday) after (y-1)/December/Thursday[last]: the year's ISO weeks.
IsoStart(y) == ymwdl_to_days(year_plus(y, -1), 12, 4) + weekday_minus(1, 4)
\* y/January/Sunday[1] or y/January/Monday[1]
FirstWeek(y, w) == ymwd_to_days([y |-> y, m |-> 1, i |-> weekday_indexed(w, 1)])

-----------------------------------------------------------------------------
(* Hours of the day, and a duration broken down into fields.  A duration is *)
(* counted in fractions of a second: Frac of them make one.                 *)

is_am(h) == 0 <= h /\ h < 12
is_pm(h) == 12 <= h /\ h < 24
make12(h) == IF h < 12 THEN IF h = 0 THEN 12 ELSE h
             ELSE IF h # 12 THEN h - 12 ELSE h
make24(h, pm) == IF pm THEN IF h # 12 THEN h + 12 ELSE h
                 ELSE IF h = 12 THEN 0 ELSE h

decimal_format_seconds(n, Frac) == [s |-> Quotient(n, Frac), sub |-> n - Quotient(n, Frac) * Frac]
hh_mm_ss(n, Frac) ==
    LET a == IF n >= 0 THEN n ELSE -n
        h == a \div (3600 * Frac)
        m == a \div (60 * Frac) - h * 60
        rest == a - h * 3600 * Frac - m * 60 * Frac
    IN [h |-> h, m |-> m, s |-> decimal_format_seconds(rest, Frac), neg |-> n < 0]
to_duration(t, Frac) ==
    (((t.h * 60 + t.m) * 60 + t.s.s) * Frac + t.s.sub) * (IF t.neg THEN -1 ELSE 1)
in_conventional_range(t, Frac) ==
    /\ ~t.neg /\ t.h < 24 /\ t.m < 60
    /\ t.s.sub < Frac /\ t.s.s < 60
=============================================================================
