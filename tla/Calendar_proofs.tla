-------------------------- MODULE Calendar_proofs --------------------------
(***************************************************************************)
(* Proofs about the calendar of date.h, for every day of the years that a  *)
(* year can hold.                                                          *)
(*                                                                         *)
(* from_days and to_days compute with years that begin in March, so that   *)
(* a leap day is the last of its year.  The proofs give that calendar a    *)
(* definition of its own - the number of a year's first day, the first day *)
(* of a month in its year - and show once that to_days computes it and     *)
(* that from_days inverts it; all the rest follows from the definition.    *)
(***************************************************************************)
EXTENDS Calendar, TLAPS

\* The day number of the 1st of March of year y.
Start(y) == 365 * y + y \div 4 - y \div 100 + y \div 400 - 719468

\* The first day of the mp-th month after March, in a year that begins with
\* March; that month, as it is called, and the year it then belongs to.
FirstOf(mp) == (153 * mp + 2) \div 5
MonthName(mp) == IF mp < 10 THEN mp + 3 ELSE mp - 9
YearName(y, mp) == IF mp < 10 THEN y ELSE y + 1

MonthLength(y, mp) ==
    IF mp = 11 THEN IF is_leap(y + 1) THEN 29 ELSE 28 ELSE FirstOf(mp + 1) - FirstOf(mp)

IsDate(y, mp, d) == /\ y \in Int /\ mp \in Int /\ d \in Int
                    /\ 0 <= mp /\ mp <= 11 /\ 1 <= d /\ d <= MonthLength(y, mp)
DayNumber(y, mp, d) == Start(y) + FirstOf(mp) + d - 1

\* from_days's yoe, given doe; and the days before a year of an era.
YearOf(doe) == (doe - doe \div 1460 + doe \div 36524 - doe \div 146096) \div 365
YearStart(k) == 365 * k + k \div 4 - k \div 100

-----------------------------------------------------------------------------
(* Years                                                                   *)

\* The four divisions of a day of an era into centuries, fours of years,
\* years and days, with the year of 366 days as the last of each.
IsPart(c, q, t, u) ==
    /\ c \in Int /\ 0 <= c /\ c <= 3 /\ q \in Int /\ 0 <= q /\ q <= 24
    /\ t \in Int /\ 0 <= t /\ t <= 3 /\ u \in Int /\ 0 <= u /\ u <= 365
    /\ u = 365 => t = 3 /\ (q = 24 => c = 3)

InEra(n) == n \in Int /\ 0 <= n /\ n <= 146096

\* Every day of an era has such parts.
LEMMA PartsExist ==
  ASSUME NEW n, InEra(n)
  PROVE  \E c, q, t, u \in Int :
            IsPart(c, q, t, u) /\ n = 36524 * c + 1461 * q + 365 * t + u
<1> USE DEF InEra
<1>1. \E c, r \in Int : /\ 0 <= c /\ c <= 3 /\ 0 <= r /\ r <= 36524
                        /\ n = 36524 * c + r /\ (r = 36524 => c = 3)
  <2>1. CASE n = 146096
    <3>1. n = 36524 * 3 + 36524
      BY <2>1, SMT
    <3> QED BY <3>1, SMT
  <2>2. CASE n # 146096
    <3> DEFINE c == n \div 36524
               r == n - 36524 * c
    <3>1. c \in Int /\ r \in Int
      BY SMT
    <3>2. 0 <= c /\ c <= 3
      BY <2>2, SMT
    <3>3. 0 <= r /\ r < 36524
      BY <2>2, SMT
    <3>4. n = 36524 * c + r
      BY <3>1, SMT
    <3> HIDE DEF c, r
    <3> QED BY <3>1, <3>2, <3>3, <3>4, SMT
  <2> QED BY <2>1, <2>2, SMT
<1>2. PICK c \in Int, r \in Int : /\ 0 <= c /\ c <= 3 /\ 0 <= r /\ r <= 36524
                                  /\ n = 36524 * c + r /\ (r = 36524 => c = 3)
  BY <1>1, SMT
<1>3. \E q, s \in Int : 0 <= q /\ q <= 24 /\ 0 <= s /\ s <= 1460 /\ r = 1461 * q + s
  <2> DEFINE q == r \div 1461
             s == r - 1461 * q
  <2>1. q \in Int /\ s \in Int
    BY SMT
  <2>2. 0 <= q /\ q <= 24 /\ 0 <= s /\ s <= 1460
    BY <1>2, SMT
  <2>3. r = 1461 * q + s
    BY <2>1, SMT
  <2> HIDE DEF q, s
  <2> QED BY <2>1, <2>2, <2>3, SMT
<1>4. PICK q \in Int, s \in Int :
         0 <= q /\ q <= 24 /\ 0 <= s /\ s <= 1460 /\ r = 1461 * q + s
  BY <1>3, SMT
<1>5. \E t, u \in Int : /\ 0 <= t /\ t <= 3 /\ 0 <= u /\ u <= 365
                        /\ s = 365 * t + u /\ (u = 365 => t = 3)
  <2>1. CASE s = 1460
    <3>1. s = 365 * 3 + 365
      BY <2>1, SMT
    <3> QED BY <3>1, SMT
  <2>2. CASE s # 1460
    <3> DEFINE t == s \div 365
               u == s - 365 * t
    <3>1. t \in Int /\ u \in Int
      BY SMT
    <3>2. 0 <= t /\ t <= 3 /\ 0 <= u /\ u < 365
      BY <1>4, <2>2, SMT
    <3>3. s = 365 * t + u
      BY <3>1, SMT
    <3> HIDE DEF t, u
    <3> QED BY <3>1, <3>2, <3>3, SMT
  <2> QED BY <2>1, <2>2, SMT
<1>6. PICK t \in Int, u \in Int : /\ 0 <= t /\ t <= 3 /\ 0 <= u /\ u <= 365
                                  /\ s = 365 * t + u /\ (u = 365 => t = 3)
  BY <1>5, SMT
<1>7. n = 36524 * c + 1461 * q + 365 * t + u
  BY <1>2, <1>4, <1>6, SMT
<1>8. u = 365 /\ q = 24 => c = 3
  BY <1>2, <1>4, <1>6, SMT
<1> QED
  BY <1>2, <1>4, <1>6, <1>7, <1>8, SMT DEF IsPart

\* What from_days computes of the sum of the parts.
LEMMA PartsFound ==
  ASSUME NEW c, NEW q, NEW t, NEW u, IsPart(c, q, t, u)
  PROVE  /\ 36524 * c + 1461 * q + 365 * t + u \in Int
         /\ 0 <= 36524 * c + 1461 * q + 365 * t + u
         /\ 36524 * c + 1461 * q + 365 * t + u <= 146096
         /\ YearOf(36524 * c + 1461 * q + 365 * t + u) = 100 * c + 4 * q + t
<1> USE DEF IsPart
<1> DEFINE n == 36524 * c + 1461 * q + 365 * t + u
<1>1. n \in Int /\ 0 <= n /\ n <= 146096
  BY SMT
<1>2. n \div 146096 = IF n = 146096 THEN 1 ELSE 0
  BY <1>1, SMT
<1>3. n \div 36524 = IF n = 146096 THEN 4 ELSE c
  BY SMT
<1>4. /\ 365 * (100 * c + 4 * q + t) <= n - n \div 1460 + c
      /\ n - n \div 1460 + c <= 365 * (100 * c + 4 * q + t) + 364
  BY SMT
<1> QED
  BY <1>1, <1>2, <1>3, <1>4, SMT DEF YearOf

\* The year the parts are of.
LEMMA PartsStart ==
  ASSUME NEW c, NEW q, NEW t, NEW u, IsPart(c, q, t, u)
  PROVE  /\ 100 * c + 4 * q + t \in Int
         /\ 0 <= 100 * c + 4 * q + t /\ 100 * c + 4 * q + t <= 399
         /\ YearStart(100 * c + 4 * q + t) = 36524 * c + 1461 * q + 365 * t
<1> USE DEF IsPart
<1>1. (100 * c + 4 * q + t) \div 4 = 25 * c + q
  BY SMT
<1>2. (100 * c + 4 * q + t) \div 100 = c
  BY SMT
<1> QED
  BY <1>1, <1>2, SMT DEF YearStart

\* A day of a year; a year of an era that has a day more; a day of the k-th
\* year of an era.
InYear(u) == u \in Int /\ 0 <= u /\ u <= 365
LongYear(k) == (k + 1) % 4 = 0 /\ ((k + 1) % 100 # 0 \/ k = 399)
IsDayOfEra(k, u) == k \in Int /\ 0 <= k /\ k <= 399 /\ InYear(u) /\ (u = 365 => LongYear(k))

\* from_days finds the year of every day of an era.
LEMMA YearFound ==
  ASSUME NEW k, NEW u, IsDayOfEra(k, u)
  PROVE  /\ YearStart(k) \in Int /\ InEra(YearStart(k) + u)
         /\ YearOf(YearStart(k) + u) = k
<1> DEFINE c == k \div 100
           q == (k - 100 * c) \div 4
           t == k - 100 * c - 4 * q
<1>0. k \in Int /\ 0 <= k /\ k <= 399 /\ u \in Int /\ 0 <= u /\ u <= 365
  BY SMT DEF IsDayOfEra, InYear
<1>1. c \in Int /\ q \in Int /\ t \in Int /\ k = 100 * c + 4 * q + t
  BY <1>0, SMT
<1>2. 0 <= c /\ c <= 3 /\ 0 <= q /\ q <= 24 /\ 0 <= t /\ t <= 3
  BY <1>0, SMT
<1>3. (k + 1) % 4 = 0 => t = 3
  BY <1>0, SMT
<1>4. (k + 1) % 100 # 0 \/ k = 399 => t # 3 \/ (q = 24 => c = 3)
  BY <1>0, SMT
<1> HIDE DEF c, q, t
<1>5. IsPart(c, q, t, u)
  BY <1>0, <1>1, <1>2, <1>3, <1>4, SMT DEF IsPart, IsDayOfEra, LongYear
<1>6. YearStart(k) = 36524 * c + 1461 * q + 365 * t
  BY <1>1, <1>5, PartsStart, SMT
<1>7. YearStart(k) + u = 36524 * c + 1461 * q + 365 * t + u
  BY <1>0, <1>1, <1>6, SMT
<1> QED
  BY <1>0, <1>1, <1>5, <1>6, <1>7, PartsFound, SMT DEF InEra

\* Every day of an era is one of some year of it.
LEMMA YearExists ==
  ASSUME NEW n, InEra(n)
  PROVE  \E k, u \in Int : IsDayOfEra(k, u) /\ n = YearStart(k) + u
<1>1. PICK c \in Int, q \in Int, t \in Int, u \in Int :
         IsPart(c, q, t, u) /\ n = 36524 * c + 1461 * q + 365 * t + u
  BY PartsExist, SMT
<1> DEFINE k == 100 * c + 4 * q + t
<1>2. k \in Int /\ 0 <= k /\ k <= 399 /\ YearStart(k) = 36524 * c + 1461 * q + 365 * t
  BY <1>1, PartsStart, SMT
<1>3. u = 365 => (k + 1) % 4 = 0 /\ ((k + 1) % 100 # 0 \/ k = 399)
  BY <1>1, SMT DEF IsPart
<1> HIDE DEF k
<1>4. IsDayOfEra(k, u)
  BY <1>1, <1>2, <1>3, SMT DEF IsDayOfEra, InYear, IsPart, LongYear
<1>5. n = YearStart(k) + u
  BY <1>1, <1>2, SMT
<1> QED
  BY <1>1, <1>2, <1>4, <1>5, SMT

\* The k-th year of an era.
YearOfEra(y, e, k) == y \in Int /\ e \in Int /\ k \in Int /\ 0 <= k /\ k <= 399 /\ y = 400 * e + k

\* Start counts the eras and the years of the last of them.
LEMMA EraStart ==
  ASSUME NEW y, NEW e, NEW k, YearOfEra(y, e, k)
  PROVE  /\ Start(y) = 146097 * e + YearStart(k) - 719468
         /\ is_leap(y + 1) <=> LongYear(k)
<1> USE DEF YearOfEra
<1>1. y \div 4 = 100 * e + k \div 4
  BY SMT
<1>2. y \div 100 = 4 * e + k \div 100
  BY SMT
<1>3. y \div 400 = e
  BY SMT
<1>4. (y + 1) % 4 = (k + 1) % 4
  BY SMT
<1>5. (y + 1) % 100 = (k + 1) % 100
  BY SMT
<1>6. (y + 1) % 400 = 0 <=> k = 399
  BY SMT
<1>7. Start(y) = 146097 * e + YearStart(k) - 719468
  BY <1>1, <1>2, <1>3, SMT DEF Start, YearStart
<1> QED
  BY <1>4, <1>5, <1>6, <1>7, SMT DEF is_leap, LongYear

\* A year has 365 days, and 366 if February of the year that follows has 29.
LEMMA YearLength ==
  ASSUME NEW y \in Int
  PROVE  /\ Start(y) \in Int
         /\ Start(y + 1) = Start(y) + (IF is_leap(y + 1) THEN 366 ELSE 365)
<1>1. (y + 1) \div 4 = y \div 4 + (IF (y + 1) % 4 = 0 THEN 1 ELSE 0)
  BY SMT
<1>2. (y + 1) \div 100 = y \div 100 + (IF (y + 1) % 100 = 0 THEN 1 ELSE 0)
  BY SMT
<1>3. (y + 1) \div 400 = y \div 400 + (IF (y + 1) % 400 = 0 THEN 1 ELSE 0)
  BY SMT
<1>4. /\ (y + 1) % 400 = 0 => (y + 1) % 100 = 0
      /\ (y + 1) % 100 = 0 => (y + 1) % 4 = 0
  BY SMT
<1>5. /\ (y + 1) \div 4 \in Int /\ (y + 1) \div 100 \in Int /\ (y + 1) \div 400 \in Int
      /\ y \div 4 \in Int /\ y \div 100 \in Int /\ y \div 400 \in Int
  BY SMT
<1> QED
  BY <1>1, <1>2, <1>3, <1>4, <1>5, SMT DEF Start, is_leap

\* Years follow one another.
LEMMA YearsInOrder ==
  ASSUME NEW x \in Int, NEW y \in Int, x < y
  PROVE  Start(x + 1) <= Start(y)
<1>1. (x + 1) \div 400 <= y \div 400
  BY SMT
<1>2. (y \div 100) - ((x + 1) \div 100) <= (y \div 4) - ((x + 1) \div 4)
  BY SMT
<1>3. /\ (x + 1) \div 4 \in Int /\ (x + 1) \div 100 \in Int /\ (x + 1) \div 400 \in Int
      /\ y \div 4 \in Int /\ y \div 100 \in Int /\ y \div 400 \in Int
  BY SMT
<1> QED
  BY <1>1, <1>2, <1>3, SMT DEF Start

-----------------------------------------------------------------------------
(* Months                                                                  *)

\* The month that from_days finds for a day of the year is the one the day
\* is in.
LEMMA MonthFound ==
  ASSUME NEW mp \in Int, 0 <= mp, mp <= 11,
         NEW u \in Int, FirstOf(mp) <= u, u < FirstOf(mp + 1)
  PROVE  (5 * u + 2) \div 153 = mp
BY SMT DEF FirstOf

LEMMA MonthExists ==
  ASSUME NEW u, InYear(u)
  PROVE  \E mp \in Int : 0 <= mp /\ mp <= 11 /\ FirstOf(mp) <= u /\ u < FirstOf(mp + 1)
<1> USE DEF InYear
<1> DEFINE mp == (5 * u + 2) \div 153
<1>1. mp \in Int /\ 0 <= mp /\ mp <= 11
  BY SMT
<1>2. FirstOf(mp) <= u /\ u < FirstOf(mp + 1)
  BY SMT DEF FirstOf
<1> QED
  BY <1>1, <1>2, SMT

\* The lengths of the months add up to the year, and are those of last_day.
LEMMA Months ==
  ASSUME NEW y \in Int, NEW mp \in Int, 0 <= mp, mp <= 11
  PROVE  /\ FirstOf(mp) \in Int /\ 0 <= FirstOf(mp) /\ MonthLength(y, mp) \in Int
         /\ mp < 11 => FirstOf(mp + 1) = FirstOf(mp) + MonthLength(y, mp)
         /\ FirstOf(mp) + MonthLength(y, mp) <= FirstOf(mp + 1)
         /\ FirstOf(11) + MonthLength(y, 11) = IF is_leap(y + 1) THEN 366 ELSE 365
         /\ FirstOf(0) = 0
         /\ 28 <= MonthLength(y, mp) /\ MonthLength(y, mp) <= 31
         /\ MonthLength(y, mp) = last_day(YearName(y, mp), MonthName(mp))
<1>0. /\ FirstOf(mp + 1) \in Int /\ FirstOf(mp) \in Int
      /\ FirstOf(11) = 337 /\ FirstOf(12) = 367 /\ FirstOf(0) = 0
  BY SMT DEF FirstOf
<1>1. /\ mp < 11 => 30 <= FirstOf(mp + 1) - FirstOf(mp) /\ FirstOf(mp + 1) - FirstOf(mp) <= 31
      /\ 0 <= FirstOf(mp)
  BY SMT DEF FirstOf
<1>2. MonthLength(y, mp) = last_day(YearName(y, mp), MonthName(mp))
  <2>1. mp = 0 \/ mp = 1 \/ mp = 2 \/ mp = 3 \/ mp = 4 \/ mp = 5 \/ mp = 6 \/ mp = 7
           \/ mp = 8 \/ mp = 9 \/ mp = 10 \/ mp = 11
    BY SMT
  <2>2. CASE mp < 11
    BY <2>1, <2>2, SMT
       DEF MonthLength, FirstOf, last_day, YearName, MonthName, month_ok, Lengths
  <2>3. CASE mp = 11
    BY <2>3, SMT DEF MonthLength, last_day, YearName, MonthName, month_ok, Lengths
  <2> QED
    BY <2>2, <2>3, SMT
<1> QED
  BY <1>0, <1>1, <1>2, SMT DEF MonthLength

-----------------------------------------------------------------------------
(* to_days and from_days                                                   *)

\* What from_days finds at a day of the calendar.
LEMMA FromDays ==
  ASSUME NEW y, NEW mp, NEW d, IsDate(y, mp, d)
  PROVE  from_days(DayNumber(y, mp, d))
            = ymd(Short(YearName(y, mp)), MonthName(mp), d)
<1>0. /\ y \in Int /\ mp \in Int /\ 0 <= mp /\ mp <= 11 /\ d \in Int /\ 1 <= d /\ d <= 31
      /\ d <= MonthLength(y, mp) /\ FirstOf(mp) \in Int /\ Start(y) \in Int
  BY Months, YearLength, SMT DEF IsDate
<1> DEFINE u == FirstOf(mp) + d - 1
           e == y \div 400
           k == y - 400 * e
           n == DayNumber(y, mp, d)
<1>1. /\ InYear(u) /\ FirstOf(mp) <= u /\ u < FirstOf(mp + 1)
      /\ u = 365 => is_leap(y + 1)
  BY <1>0, Months, SMT DEF MonthLength, FirstOf, InYear
<1>2. YearOfEra(y, e, k) /\ e \in Int /\ k \in Int
  BY <1>0, SMT DEF YearOfEra
<1>3. n = Start(y) + u /\ n \in Int /\ u \in Int
  BY <1>0, SMT DEF DayNumber
<1> HIDE DEF u, e, k, n
<1>4. IsDayOfEra(k, u)
  <2>1. is_leap(y + 1) <=> LongYear(k)
    BY <1>2, EraStart, SMT
  <2> QED
    BY <1>1, <1>2, <2>1, SMT DEF IsDayOfEra, YearOfEra
<1> DEFINE z1 == n + 719468
           era == Quotient(IF z1 >= 0 THEN z1 ELSE z1 - 146096, 146097)
           doe == z1 - era * 146097
           yoe == (doe - doe \div 1460 + doe \div 36524 - doe \div 146096) \div 365
           doy == doe - (365 * yoe + yoe \div 4 - yoe \div 100)
           m1 == (5 * doy + 2) \div 153
           m == IF m1 < 10 THEN m1 + 3 ELSE m1 - 9
<1>7. from_days(n) = ymd(year(yoe + era * 400 + (IF m <= 2 THEN 1 ELSE 0)), month(m),
                         day(doy - (153 * m1 + 2) \div 5 + 1))
  BY SMT DEF from_days
<1>8. z1 = 146097 * e + (YearStart(k) + u) /\ z1 \in Int /\ YearStart(k) \in Int
  BY <1>2, <1>3, <1>4, EraStart, YearFound, SMT
<1> HIDE DEF z1
<1>9. era = z1 \div 146097
  BY <1>8, SMT DEF Quotient
<1> HIDE DEF era
<1>10. era = e
  BY <1>2, <1>3, <1>8, <1>9, <1>4, YearFound, SMT DEF InEra
<1>11. doe = YearStart(k) + u /\ doe \in Int
  BY <1>2, <1>3, <1>8, <1>10, SMT
<1>12. yoe = YearOf(doe)
  BY SMT DEF YearOf
<1> HIDE DEF doe
<1>13. yoe = k
  BY <1>11, <1>12, <1>4, YearFound, SMT
<1> HIDE DEF yoe
<1>15. doy = u
  BY <1>2, <1>3, <1>8, <1>11, <1>13, SMT DEF YearStart
<1> HIDE DEF doy
<1>16. m1 = mp
  BY <1>0, <1>1, <1>3, <1>15, MonthFound, SMT
<1> HIDE DEF m1
<1>17. m = MonthName(mp)
  BY <1>16, SMT DEF MonthName
<1> HIDE DEF m
<1>18. yoe + era * 400 + (IF m <= 2 THEN 1 ELSE 0) = YearName(y, mp)
  <2>1. m <= 2 <=> mp >= 10
    BY <1>0, <1>17, SMT DEF MonthName
  <2>2. yoe + era * 400 = y
    BY <1>2, <1>10, <1>13, SMT DEF YearOfEra
  <2> QED
    BY <1>0, <2>1, <2>2, SMT DEF YearName
<1>19. doy - (153 * m1 + 2) \div 5 + 1 = d
  BY <1>0, <1>15, <1>16, SMT DEF u, FirstOf
<1>20. day(d) = d /\ month(MonthName(mp)) = MonthName(mp)
  BY <1>0, SMT DEF day, month, UChar, MonthName
<1> QED
  BY <1>7, <1>17, <1>18, <1>19, <1>20, SMT DEF year, n

\* Every day number is that of a day of the calendar.
LEMMA DateExists ==
  ASSUME NEW n \in Int
  PROVE  \E y, mp, d \in Int : IsDate(y, mp, d) /\ n = DayNumber(y, mp, d)
<1> DEFINE e == (n + 719468) \div 146097
           doe == n + 719468 - 146097 * e
<1>1. e \in Int /\ InEra(doe) /\ n = 146097 * e + doe - 719468
  BY SMT DEF InEra
<1> HIDE DEF e, doe
<1>2. PICK k \in Int, u \in Int : IsDayOfEra(k, u) /\ doe = YearStart(k) + u
  BY <1>1, YearExists, SMT
<1> DEFINE y == 400 * e + k
<1>3. YearOfEra(y, e, k) /\ y \in Int
  BY <1>1, <1>2, SMT DEF YearOfEra, IsDayOfEra
<1> HIDE DEF y
<1>4. YearStart(k) \in Int /\ Start(y) = 146097 * e + YearStart(k) - 719468
  BY <1>2, <1>3, EraStart, YearFound, SMT
<1>5. n = Start(y) + u /\ Start(y) \in Int
  BY <1>1, <1>2, <1>4, SMT
<1>6. InYear(u) /\ 0 <= u /\ u <= 365 /\ (u = 365 => is_leap(y + 1))
  BY <1>2, <1>3, EraStart, SMT DEF IsDayOfEra, InYear
<1>7. PICK mp \in Int : 0 <= mp /\ mp <= 11 /\ FirstOf(mp) <= u /\ u < FirstOf(mp + 1)
  BY <1>6, MonthExists, SMT
<1> DEFINE d == u - FirstOf(mp) + 1
<1>8. FirstOf(mp) \in Int
  BY <1>3, <1>7, Months, SMT
<1>9. d \in Int /\ 1 <= d
  BY <1>7, <1>8, SMT
<1>10. d <= MonthLength(y, mp)
  BY <1>3, <1>6, <1>7, <1>8, SMT DEF MonthLength, FirstOf
<1>11. n = DayNumber(y, mp, d)
  BY <1>5, <1>8, SMT DEF DayNumber
<1> HIDE DEF d
<1> QED
  BY <1>3, <1>7, <1>9, <1>10, <1>11, SMT DEF IsDate

\* What to_days computes of a date in a month of the calendar, whether or not
\* the month has the day.
LEMMA ToDays ==
  ASSUME NEW y \in Int, NEW mp \in Int, 0 <= mp, mp <= 11, NEW d \in Int
  PROVE  to_days(ymd(YearName(y, mp), MonthName(mp), d)) = DayNumber(y, mp, d)
<1> DEFINE t == ymd(YearName(y, mp), MonthName(mp), d)
           y1 == t.y - (IF t.m <= 2 THEN 1 ELSE 0)
           era == Quotient(IF y1 >= 0 THEN y1 ELSE y1 - 399, 400)
           yoe == y1 - era * 400
           doy == (153 * (IF t.m > 2 THEN t.m - 3 ELSE t.m + 9) + 2) \div 5 + t.d - 1
           doe == yoe * 365 + yoe \div 4 - yoe \div 100 + doy
<1>1. to_days(t) = era * 146097 + doe - 719468
  BY SMT DEF to_days
<1>2. t.y = YearName(y, mp) /\ t.m = MonthName(mp) /\ t.d = d
  BY SMT DEF ymd
<1> HIDE DEF t
<1>3. y1 = y
  BY <1>2, SMT DEF YearName, MonthName
<1>4. doy = FirstOf(mp) + d - 1 /\ FirstOf(mp) \in Int
  BY <1>2, SMT DEF FirstOf, MonthName
<1> HIDE DEF doy, y1
<1>5. era = y \div 400
  BY <1>3, SMT DEF Quotient
<1> HIDE DEF era
<1>6. era \in Int /\ yoe \in Int /\ YearOfEra(y, era, yoe)
  BY <1>3, <1>5, SMT DEF YearOfEra
<1>7. Start(y) = 146097 * era + YearStart(yoe) - 719468
  BY <1>6, EraStart, SMT
<1> HIDE DEF yoe
<1>8. doe = YearStart(yoe) + FirstOf(mp) + d - 1 /\ YearStart(yoe) \in Int
  BY <1>4, <1>6, SMT DEF YearStart
<1> HIDE DEF doe
<1> QED
  BY <1>1, <1>4, <1>6, <1>7, <1>8, SMT DEF t, DayNumber

-----------------------------------------------------------------------------
(* Dates                                                                   *)

\* A date of the program is one of this calendar.
InYears(t) == MinYear <= t.y /\ t.y <= MaxYear
Date == [y : Int, m : Int, d : Int]

LEMMA DateIs ==
  ASSUME NEW t \in Date, month_ok(t.m)
  PROVE  \E y, mp \in Int : /\ 0 <= mp /\ mp <= 11
                            /\ t.y = YearName(y, mp) /\ t.m = MonthName(mp)
                            /\ t = ymd(YearName(y, mp), MonthName(mp), t.d)
                            /\ to_days(t) = DayNumber(y, mp, t.d)
                            /\ last_day(t.y, t.m) = MonthLength(y, mp)
<1> DEFINE mp == IF t.m <= 2 THEN t.m + 9 ELSE t.m - 3
           y == IF t.m <= 2 THEN t.y - 1 ELSE t.y
<1>1. t.y \in Int /\ t.m \in Int /\ t.d \in Int /\ 1 <= t.m /\ t.m <= 12
  BY SMT DEF Date, month_ok
<1>2. y \in Int /\ mp \in Int /\ 0 <= mp /\ mp <= 11
  BY <1>1, SMT
<1>3. t.y = YearName(y, mp) /\ t.m = MonthName(mp)
  BY <1>1, SMT DEF YearName, MonthName
<1> HIDE DEF y, mp
<1>4. t = ymd(t.y, t.m, t.d)
  BY SMT DEF Date, ymd
<1>5. to_days(ymd(YearName(y, mp), MonthName(mp), t.d)) = DayNumber(y, mp, t.d)
  BY <1>1, <1>2, ToDays, SMT
<1>6. MonthLength(y, mp) = last_day(YearName(y, mp), MonthName(mp))
  BY <1>2, Months, SMT
<1> QED
  BY <1>2, <1>3, <1>4, <1>5, <1>6, SMT

\* from_days undoes to_days: of every date that is ok().
THEOREM FromDaysOfToDays ==
  ASSUME NEW t \in Date, ymd_ok(t), InYears(t)
  PROVE  from_days(to_days(t)) = t
<1>1. month_ok(t.m) /\ t.d \in Int /\ 1 <= t.d /\ t.d <= last_day(t.y, t.m)
  BY SMT DEF ymd_ok, Date
<1>2. PICK y \in Int, mp \in Int : /\ 0 <= mp /\ mp <= 11
                            /\ t.y = YearName(y, mp) /\ t.m = MonthName(mp)
                            /\ t = ymd(YearName(y, mp), MonthName(mp), t.d)
                            /\ to_days(t) = DayNumber(y, mp, t.d)
                            /\ last_day(t.y, t.m) = MonthLength(y, mp)
  BY <1>1, DateIs, SMT
<1>3. IsDate(y, mp, t.d)
  BY <1>1, <1>2, SMT DEF IsDate
<1>4. Short(YearName(y, mp)) = YearName(y, mp)
  <2>1. t.y \in Int /\ -32767 <= t.y /\ t.y <= 32767
    BY SMT DEF Date, InYears, MinYear, MaxYear
  <2>2. Short(t.y) = t.y
    BY <2>1, SMT DEF Short
  <2> QED
    BY <1>2, <2>2, SMT
<1>5. from_days(DayNumber(y, mp, t.d)) = ymd(Short(YearName(y, mp)), MonthName(mp), t.d)
  BY <1>3, FromDays, SMT
<1> QED
  BY <1>2, <1>4, <1>5, SMT

-----------------------------------------------------------------------------
(* The order of days                                                       *)

Earlier(y, mp, d, y2, mp2, d2) ==
    y < y2 \/ (y = y2 /\ (mp < mp2 \/ (mp = mp2 /\ d < d2)))

\* Day numbers have the order of the dates.
LEMMA DaysInOrder ==
  ASSUME NEW y, NEW mp, NEW d, IsDate(y, mp, d),
         NEW y2, NEW mp2, NEW d2, IsDate(y2, mp2, d2),
         Earlier(y, mp, d, y2, mp2, d2)
  PROVE  DayNumber(y, mp, d) < DayNumber(y2, mp2, d2)
<1>1. /\ y \in Int /\ mp \in Int /\ d \in Int /\ 0 <= mp /\ mp <= 11 /\ 1 <= d
      /\ y2 \in Int /\ mp2 \in Int /\ d2 \in Int /\ 0 <= mp2 /\ mp2 <= 11 /\ 1 <= d2
      /\ d <= MonthLength(y, mp)
  BY SMT DEF IsDate
<1>2. FirstOf(mp) \in Int /\ FirstOf(mp2) \in Int /\ MonthLength(y, mp) \in Int /\ 0 <= FirstOf(mp2)
  BY <1>1, Months, SMT
<1>3. Start(y) \in Int /\ Start(y2) \in Int
  BY <1>1, YearLength, SMT
<1>4. CASE y < y2
  <2>1. Start(y + 1) <= Start(y2)
    BY <1>1, <1>4, YearsInOrder, SMT
  <2>2. Start(y + 1) = Start(y) + (IF is_leap(y + 1) THEN 366 ELSE 365)
    BY <1>1, YearLength, SMT
  <2>3. FirstOf(mp) + MonthLength(y, mp) <= (IF is_leap(y + 1) THEN 366 ELSE 365)
    BY <1>1, SMT DEF FirstOf, MonthLength
  <2> QED
    BY <1>1, <1>2, <1>3, <2>1, <2>2, <2>3, SMT DEF DayNumber
<1>5. CASE y = y2 /\ mp < mp2
  <2>1. FirstOf(mp) + MonthLength(y, mp) <= FirstOf(mp2)
    BY <1>1, <1>5, SMT DEF FirstOf, MonthLength
  <2> QED
    BY <1>1, <1>2, <1>3, <1>5, <2>1, SMT DEF DayNumber
<1>6. CASE y = y2 /\ mp = mp2 /\ d < d2
  BY <1>1, <1>2, <1>3, <1>6, SMT DEF DayNumber
<1> QED
  BY <1>4, <1>5, <1>6, SMT DEF Earlier

\* So has operator<.
LEMMA BeforeIsEarlier ==
  ASSUME NEW t \in Date, ymd_ok(t), NEW u \in Date, ymd_ok(u), ymd_before(t, u)
  PROVE  to_days(t) < to_days(u)
<1>1. /\ month_ok(t.m) /\ t.d \in Int /\ 1 <= t.d /\ t.d <= last_day(t.y, t.m)
      /\ month_ok(u.m) /\ u.d \in Int /\ 1 <= u.d /\ u.d <= last_day(u.y, u.m)
  BY SMT DEF ymd_ok, Date
<1>2. PICK y \in Int, mp \in Int : /\ 0 <= mp /\ mp <= 11
                            /\ t.y = YearName(y, mp) /\ t.m = MonthName(mp)
                            /\ t = ymd(YearName(y, mp), MonthName(mp), t.d)
                            /\ to_days(t) = DayNumber(y, mp, t.d)
                            /\ last_day(t.y, t.m) = MonthLength(y, mp)
  BY <1>1, DateIs, SMT
<1>3. PICK y2 \in Int, mp2 \in Int : /\ 0 <= mp2 /\ mp2 <= 11
                            /\ u.y = YearName(y2, mp2) /\ u.m = MonthName(mp2)
                            /\ u = ymd(YearName(y2, mp2), MonthName(mp2), u.d)
                            /\ to_days(u) = DayNumber(y2, mp2, u.d)
                            /\ last_day(u.y, u.m) = MonthLength(y2, mp2)
  BY <1>1, DateIs, SMT
<1>4. IsDate(y, mp, t.d) /\ IsDate(y2, mp2, u.d)
  BY <1>1, <1>2, <1>3, SMT DEF IsDate
<1>5. Earlier(y, mp, t.d, y2, mp2, u.d)
  BY <1>1, <1>2, <1>3, SMT DEF ymd_before, Earlier, YearName, MonthName
<1> QED
  BY <1>2, <1>3, <1>4, <1>5, DaysInOrder, SMT

\* The first and the last day a year can hold.
LEMMA Ends ==
  /\ FirstDay = DayNumber(-32768, 10, 1) /\ LastDay = DayNumber(32767, 9, 31)
  /\ FirstDay = -12687428 /\ LastDay = 11248737
<1>1. to_days(ymd(YearName(-32768, 10), MonthName(10), 1)) = DayNumber(-32768, 10, 1)
  BY ToDays, SMT
<1>2. to_days(ymd(YearName(32767, 9), MonthName(9), 31)) = DayNumber(32767, 9, 31)
  BY ToDays, SMT
<1>3. YearName(-32768, 10) = -32767 /\ MonthName(10) = 1
  BY SMT DEF YearName, MonthName
<1>4. YearName(32767, 9) = 32767 /\ MonthName(9) = 12
  BY SMT DEF YearName, MonthName
<1>5. DayNumber(-32768, 10, 1) = -12687428
  BY SMT DEF DayNumber, Start, FirstOf
<1>6. DayNumber(32767, 9, 31) = 11248737
  BY SMT DEF DayNumber, Start, FirstOf
<1> QED
  BY <1>1, <1>2, <1>3, <1>4, <1>5, <1>6, SMT DEF FirstDay, LastDay, MinYear, MaxYear

\* The years of the days between them.
LEMMA YearsOfDays ==
  ASSUME NEW y, NEW mp, NEW d, IsDate(y, mp, d)
  PROVE  FirstDay <= DayNumber(y, mp, d) /\ DayNumber(y, mp, d) <= LastDay
            <=> MinYear <= YearName(y, mp) /\ YearName(y, mp) <= MaxYear
<1>1. /\ y \in Int /\ mp \in Int /\ d \in Int /\ 0 <= mp /\ mp <= 11 /\ 1 <= d /\ d <= 31
  BY Months, SMT DEF IsDate
<1>2. IsDate(-32768, 10, 1) /\ IsDate(32767, 9, 31)
  BY SMT DEF IsDate, MonthLength, FirstOf
<1>3. DayNumber(y, mp, d) \in Int
  BY <1>1, YearLength, Months, SMT DEF DayNumber
<1>7. YearName(y, mp) \in Int /\ MinYear = -32767 /\ MaxYear = 32767
  BY <1>1, SMT DEF YearName, MinYear, MaxYear
<1>4. CASE YearName(y, mp) < MinYear
  <2>1. Earlier(y, mp, d, -32768, 10, 1)
    BY <1>1, <1>4, SMT DEF Earlier, YearName, MinYear
  <2>2. DayNumber(y, mp, d) < DayNumber(-32768, 10, 1)
    BY <1>2, <2>1, DaysInOrder, SMT
  <2> QED
    BY <1>3, <1>4, <1>7, <2>2, Ends, SMT
<1>5. CASE YearName(y, mp) > MaxYear
  <2>1. Earlier(32767, 9, 31, y, mp, d)
    BY <1>1, <1>5, SMT DEF Earlier, YearName, MaxYear
  <2>2. DayNumber(32767, 9, 31) < DayNumber(y, mp, d)
    BY <1>2, <2>1, DaysInOrder, SMT
  <2> QED
    BY <1>3, <1>5, <1>7, <2>2, Ends, SMT
<1>6. CASE MinYear <= YearName(y, mp) /\ YearName(y, mp) <= MaxYear
  <2>1. \/ Earlier(-32768, 10, 1, y, mp, d)
        \/ y = -32768 /\ mp = 10 /\ d = 1
    BY <1>1, <1>6, SMT DEF Earlier, YearName, MinYear
  <2>2. \/ Earlier(y, mp, d, 32767, 9, 31)
        \/ y = 32767 /\ mp = 9 /\ d = 31
    BY <1>1, <1>6, SMT DEF Earlier, YearName, MaxYear
  <2>3. FirstDay <= DayNumber(y, mp, d)
    BY <1>2, <1>3, <2>1, DaysInOrder, Ends, SMT
  <2>4. DayNumber(y, mp, d) <= LastDay
    BY <1>2, <1>3, <2>2, DaysInOrder, Ends, SMT
  <2> QED
    BY <1>6, <2>3, <2>4, SMT
<1> QED
  BY <1>4, <1>5, <1>6, <1>7, SMT

-----------------------------------------------------------------------------
(* The dates of days                                                       *)

IsDay(n) == n \in Int /\ FirstDay <= n /\ n <= LastDay

\* What from_days finds at a day that a year can hold.
DateOf(n, y, mp, d) ==
    /\ IsDate(y, mp, d) /\ n = DayNumber(y, mp, d)
    /\ from_days(n) = ymd(YearName(y, mp), MonthName(mp), d)
    /\ MinYear <= YearName(y, mp) /\ YearName(y, mp) <= MaxYear

LEMMA DateFound ==
  ASSUME NEW y, NEW mp, NEW d, IsDate(y, mp, d), IsDay(DayNumber(y, mp, d))
  PROVE  DateOf(DayNumber(y, mp, d), y, mp, d)
<1>1. y \in Int /\ MinYear <= YearName(y, mp) /\ YearName(y, mp) <= MaxYear
  BY YearsOfDays, SMT DEF IsDay, IsDate
<1>2. YearName(y, mp) \in Int
  BY <1>1, SMT DEF YearName
<1>3. Short(YearName(y, mp)) = YearName(y, mp)
  BY <1>1, <1>2, SMT DEF Short, MinYear, MaxYear
<1>4. from_days(DayNumber(y, mp, d)) = ymd(Short(YearName(y, mp)), MonthName(mp), d)
  BY FromDays, SMT
<1> QED
  BY <1>1, <1>3, <1>4, SMT DEF DateOf

LEMMA DayIs ==
  ASSUME NEW n, IsDay(n)
  PROVE  \E y, mp, d \in Int : DateOf(n, y, mp, d)
<1>1. PICK y \in Int, mp \in Int, d \in Int : IsDate(y, mp, d) /\ n = DayNumber(y, mp, d)
  BY DateExists, SMT DEF IsDay
<1> QED
  BY <1>1, DateFound, SMT

\* A day of the calendar is a date that is ok(), of a month that is one.
LEMMA DateIsOk ==
  ASSUME NEW y, NEW mp, NEW d, IsDate(y, mp, d),
         MinYear <= YearName(y, mp), YearName(y, mp) <= MaxYear
  PROVE  LET t == ymd(YearName(y, mp), MonthName(mp), d)
         IN /\ t \in Date /\ ymd_ok(t) /\ InYears(t) /\ to_days(t) = DayNumber(y, mp, d)
            /\ t.y = YearName(y, mp) /\ t.m = MonthName(mp) /\ t.d = d
            /\ year_ok(t.y) /\ month_ok(t.m) /\ last_day(t.y, t.m) = MonthLength(y, mp)
<1> DEFINE t == ymd(YearName(y, mp), MonthName(mp), d)
<1>1. /\ y \in Int /\ mp \in Int /\ d \in Int
      /\ 0 <= mp /\ mp <= 11 /\ 1 <= d /\ d <= MonthLength(y, mp)
  BY SMT DEF IsDate
<1>2. t.y = YearName(y, mp) /\ t.m = MonthName(mp) /\ t.d = d
  BY SMT DEF ymd
<1>3. t \in Date
  BY <1>1, SMT DEF ymd, Date, YearName, MonthName
<1>4. to_days(t) = DayNumber(y, mp, d)
  BY <1>1, ToDays, SMT
<1> HIDE DEF t
<1>5. year_ok(t.y) /\ InYears(t)
  BY <1>1, <1>2, SMT DEF year_ok, InYears, MinYear, MaxYear, YearName
<1>6. month_ok(t.m)
  BY <1>1, <1>2, SMT DEF month_ok, MonthName
<1>7. MonthLength(y, mp) = last_day(YearName(y, mp), MonthName(mp))
  BY <1>1, Months, SMT
<1>8. ymd_ok(t)
  BY <1>1, <1>2, <1>5, <1>6, <1>7, SMT DEF ymd_ok
<1> QED
  BY <1>2, <1>3, <1>4, <1>5, <1>6, <1>7, <1>8, SMT DEF t

\* to_days undoes from_days, and what from_days makes is ok(): for every day
\* of the years that a year can hold.
THEOREM ToDaysOfFromDays ==
  ASSUME NEW n, IsDay(n)
  PROVE  /\ from_days(n) \in Date /\ ymd_ok(from_days(n)) /\ InYears(from_days(n))
         /\ to_days(from_days(n)) = n
<1>1. PICK y \in Int, mp \in Int, d \in Int : DateOf(n, y, mp, d)
  BY DayIs, SMT
<1> QED
  BY <1>1, DateIsOk, SMT DEF DateOf

\* from_days is increasing in the order of operator<.
THEOREM FromDaysInOrder ==
  ASSUME NEW a, NEW b, IsDay(a), IsDay(b), a < b
  PROVE  ymd_before(from_days(a), from_days(b)) /\ ~ymd_before(from_days(b), from_days(a))
<1> DEFINE s == from_days(a)
           t == from_days(b)
<1>1. /\ s \in Date /\ ymd_ok(s) /\ to_days(s) = a
      /\ t \in Date /\ ymd_ok(t) /\ to_days(t) = b
  BY ToDaysOfFromDays, SMT
<1> HIDE DEF s, t
<1>2. ~ymd_before(t, s)
  <2>1. SUFFICES ASSUME ymd_before(t, s) PROVE FALSE
    BY SMT
  <2>2. to_days(t) < to_days(s)
    BY <1>1, <2>1, BeforeIsEarlier, SMT
  <2> QED
    BY <1>1, <2>2, SMT DEF IsDay
<1>3. ymd_before(s, t)
  <2>1. s # t
    BY <1>1, SMT DEF IsDay
  <2>2. s.y # t.y \/ s.m # t.m \/ s.d # t.d
    BY <1>1, <2>1, SMT DEF Date
  <2> QED
    BY <1>1, <1>2, <2>2, SMT DEF ymd_before, Date
<1> QED
  BY <1>2, <1>3, SMT DEF s, t

-----------------------------------------------------------------------------
(* Weekdays                                                                *)

\* weekday_from_days: 1970-01-01 was a Thursday, and so for ever, back and forth.
LEMMA Weekday ==
  ASSUME NEW n \in Int
  PROVE  /\ weekday_from_days(n) = (n + 4) % 7
         /\ weekday_from_days(n) \in 0..6
<1>1. (((n % 7) + 4) % 7) = (n + 4) % 7
  BY SMT
<1>2. 0 <= (n + 4) % 7 /\ (n + 4) % 7 <= 6 /\ (n + 4) % 7 \in Int
  BY SMT
<1>3. weekday_from_days(n) = (n + 4) % 7
  BY <1>1, SMT DEF weekday_from_days, UnsignedMod7
<1> QED
  BY <1>2, <1>3, SMT

\* A difference of weekdays is the number of days from one to the next other.
LEMMA WeekdayMinus ==
  ASSUME NEW w \in Int, NEW v \in Int
  PROVE  weekday_minus(w, v) = (w - v) % 7
<1>1. Weeks(w - v) = (w - v) \div 7
  BY SMT DEF Weeks, Quotient
<1>2. (w - v) - ((w - v) \div 7) * 7 = (w - v) % 7
  BY SMT
<1> QED
  BY <1>1, <1>2, SMT DEF weekday_minus

-----------------------------------------------------------------------------
(* The clock                                                               *)

InDays == IsDay(z)

\* The walks stay within the years that a year can hold.
THEOREM DaysInRange == Spec => []InDays
<1>1. Init => InDays
  BY WalksAssumption, SMT DEF Init, InDays, IsDay
<1>2. InDays /\ [Next]_z => InDays'
  <2>1. ASSUME InDays, Next PROVE InDays'
    <3>1. PICK w \in Walks : w[1] <= z /\ z < w[2]
      BY <2>1, SMT DEF Next
    <3>2. w[2] \in Int /\ w[2] <= LastDay
      BY WalksAssumption, SMT
    <3>3. z' = z + 1 /\ z \in Int /\ FirstDay <= z
      BY <2>1, SMT DEF Next, InDays, IsDay
    <3>4. FirstDay \in Int /\ LastDay \in Int
      BY Ends, SMT
    <3> QED
      BY <3>1, <3>2, <3>3, <3>4, SMT DEF InDays, IsDay
  <2>2. ASSUME InDays, UNCHANGED z PROVE InDays'
    BY <2>2, SMT DEF InDays, IsDay
  <2> QED
    BY <2>1, <2>2, SMT
<1> QED
  BY <1>1, <1>2, PTL DEF Spec

\* Dates and day numbers agree, and are in the same order: on every day.
THEOREM DatesCorrect == Spec => []DaysAndDatesAgree
<1>1. InDays => DaysAndDatesAgree
  <2> SUFFICES ASSUME InDays PROVE DaysAndDatesAgree
    BY SMT
  <2>1. ymd_ok(date) /\ to_days(date) = z
    BY ToDaysOfFromDays, SMT DEF InDays, date
  <2>2. ASSUME NEW n \in {1, 28, 31, 366}, z + n <= LastDay
        PROVE  ymd_before(date, from_days(z + n)) /\ ~ymd_before(from_days(z + n), date)
    <3>1. IsDay(z) /\ IsDay(z + n) /\ z < z + n
      BY <2>2, Ends, SMT DEF InDays, IsDay
    <3> QED
      BY <3>1, FromDaysInOrder, SMT DEF date
  <2> QED
    BY <2>1, <2>2, SMT DEF DaysAndDatesAgree
<1> QED
  BY <1>1, DaysInRange, PTL

\* The day after a date, one case at a time.
LEMMA TomorrowIs ==
  ASSUME NEW y \in Int, NEW m \in Int, NEW d \in Int
  PROVE  LET t == ymd(y, m, d)
         IN /\ d < Abstract!Length(y, m) => Abstract!Tomorrow(t) = ymd(y, m, d + 1)
            /\ ~(d < Abstract!Length(y, m)) /\ m < 12 => Abstract!Tomorrow(t) = ymd(y, m + 1, 1)
            /\ ~(d < Abstract!Length(y, m)) /\ m = 12 => Abstract!Tomorrow(t) = ymd(y + 1, 1, 1)
<1> DEFINE t == ymd(y, m, d)
<1>1. t.y = y /\ t.m = m /\ t.d = d
  BY SMT DEF ymd
<1>2. [t EXCEPT !.d = @ + 1] = ymd(y, m, d + 1)
  BY SMT DEF ymd
<1>3. [t EXCEPT !.m = @ + 1, !.d = 1] = ymd(y, m + 1, 1)
  <2> DEFINE s == [t EXCEPT !.m = @ + 1]
  <2>1. s = ymd(y, m + 1, d)
    BY SMT DEF ymd
  <2>2. [t EXCEPT !.m = @ + 1, !.d = 1] = [s EXCEPT !.d = 1]
    BY SMT
  <2> HIDE DEF s
  <2>3. ASSUME NEW r, r = ymd(y, m + 1, d) PROVE [r EXCEPT !.d = 1] = ymd(y, m + 1, 1)
    BY <2>3, SMT DEF ymd
  <2>4. [s EXCEPT !.d = 1] = ymd(y, m + 1, 1)
    BY <2>1, <2>3, SMT
  <2> QED
    BY <2>2, <2>4, SMT
<1>4. [y |-> t.y + 1, m |-> 1, d |-> 1] = ymd(y + 1, 1, 1)
  BY SMT DEF ymd
<1> HIDE DEF t
<1>5. d < Abstract!Length(y, m) => Abstract!Tomorrow(t) = [t EXCEPT !.d = @ + 1]
  BY <1>1, SMT DEF Abstract!Tomorrow
<1>6. ~(d < Abstract!Length(y, m)) /\ m < 12
         => Abstract!Tomorrow(t) = [t EXCEPT !.m = @ + 1, !.d = 1]
  BY <1>1, SMT DEF Abstract!Tomorrow
<1>7. ~(d < Abstract!Length(y, m)) /\ m = 12
         => Abstract!Tomorrow(t) = [y |-> t.y + 1, m |-> 1, d |-> 1]
  BY <1>1, SMT DEF Abstract!Tomorrow
<1> QED
  BY <1>2, <1>3, <1>4, <1>5, <1>6, <1>7, SMT DEF t

\* The day after a day of the calendar.
LEMMA DayAfter ==
  ASSUME NEW n, IsDay(n), n + 1 <= LastDay
  PROVE  from_days(n + 1) = Abstract!Tomorrow(from_days(n))
<1>1. PICK y \in Int, mp \in Int, d \in Int : DateOf(n, y, mp, d)
  BY DayIs, SMT
<1>2. /\ 0 <= mp /\ mp <= 11 /\ 1 <= d /\ d <= MonthLength(y, mp) /\ IsDate(y, mp, d)
      /\ n = DayNumber(y, mp, d) /\ from_days(n) = ymd(YearName(y, mp), MonthName(mp), d)
      /\ y \in Int /\ mp \in Int /\ d \in Int /\ n \in Int
  BY <1>1, SMT DEF DateOf, IsDate, IsDay
<1>3. /\ Start(y) \in Int /\ FirstOf(mp) \in Int /\ MonthLength(y, mp) \in Int
      /\ 28 <= MonthLength(y, mp)
  BY <1>2, YearLength, Months, SMT
<1>6. IsDay(n + 1)
  BY Ends, SMT DEF IsDay
<1>4. Abstract!Length(YearName(y, mp), MonthName(mp)) = MonthLength(y, mp)
  <2>1. Abstract!Leap(y + 1) <=> is_leap(y + 1)
    BY SMT DEF Abstract!Leap, is_leap
  <2>2. mp = 0 \/ mp = 1 \/ mp = 2 \/ mp = 3 \/ mp = 4 \/ mp = 5 \/ mp = 6 \/ mp = 7
           \/ mp = 8 \/ mp = 9 \/ mp = 10 \/ mp = 11
    BY <1>2, SMT
  <2>3. CASE mp = 11
    BY <2>1, <2>3, SMT DEF Abstract!Length, YearName, MonthName, MonthLength
  <2>4. CASE mp < 11
    BY <2>2, <2>4, SMT DEF Abstract!Length, YearName, MonthName, MonthLength, FirstOf
  <2> QED
    BY <1>2, <2>3, <2>4, SMT
<1>9. /\ YearName(y, mp) \in Int /\ MonthName(mp) \in Int
      /\ d < MonthLength(y, mp)
            => Abstract!Tomorrow(from_days(n)) = ymd(YearName(y, mp), MonthName(mp), d + 1)
      /\ d = MonthLength(y, mp) /\ MonthName(mp) < 12
            => Abstract!Tomorrow(from_days(n)) = ymd(YearName(y, mp), MonthName(mp) + 1, 1)
      /\ d = MonthLength(y, mp) /\ MonthName(mp) = 12
            => Abstract!Tomorrow(from_days(n)) = ymd(YearName(y, mp) + 1, 1, 1)
  <2>1. YearName(y, mp) \in Int /\ MonthName(mp) \in Int
    BY <1>2, SMT DEF YearName, MonthName
  <2> QED
    BY <1>2, <1>3, <1>4, <2>1, TomorrowIs, SMT
<1>5. CASE d < MonthLength(y, mp)
  <2>1. IsDate(y, mp, d + 1) /\ n + 1 = DayNumber(y, mp, d + 1)
    BY <1>2, <1>3, <1>5, SMT DEF IsDate, DayNumber
  <2>2. from_days(n + 1) = ymd(YearName(y, mp), MonthName(mp), d + 1)
    BY <1>6, <2>1, DateFound, SMT DEF DateOf
  <2> QED
    BY <1>2, <1>4, <1>5, <2>2, <1>9, SMT
<1>7. CASE d = MonthLength(y, mp) /\ mp < 11
  <2>1. IsDate(y, mp + 1, 1) /\ n + 1 = DayNumber(y, mp + 1, 1)
    <3>1. FirstOf(mp + 1) = FirstOf(mp) + MonthLength(y, mp)
      BY <1>2, <1>7, Months, SMT
    <3>2. 28 <= MonthLength(y, mp + 1)
      BY <1>2, <1>7, Months, SMT
    <3>3. MonthLength(y, mp + 1) \in Int
      BY <1>2, <1>7, Months, SMT
    <3> QED
      BY <1>2, <1>3, <1>7, <3>1, <3>2, <3>3, SMT DEF IsDate, DayNumber
  <2>2. from_days(n + 1) = ymd(YearName(y, mp + 1), MonthName(mp + 1), 1)
    BY <1>6, <2>1, DateFound, SMT DEF DateOf
  <2>3. CASE mp = 9
    <3>1. /\ YearName(y, mp) = y /\ YearName(y, mp + 1) = y + 1
          /\ MonthName(mp) = 12 /\ MonthName(mp + 1) = 1
      BY <1>2, <2>3, SMT DEF YearName, MonthName
    <3> QED
      BY <1>2, <1>4, <1>7, <2>2, <3>1, <1>9, SMT
  <2>4. CASE mp # 9
    <3>1. /\ YearName(y, mp + 1) = YearName(y, mp) /\ MonthName(mp + 1) = MonthName(mp) + 1
          /\ MonthName(mp) < 12
      BY <1>2, <1>7, <2>4, SMT DEF YearName, MonthName
    <3> QED
      BY <1>2, <1>4, <1>7, <2>2, <3>1, <1>9, SMT
  <2> QED
    BY <2>3, <2>4, SMT
<1>8. CASE d = MonthLength(y, mp) /\ mp = 11
  <2>1. IsDate(y + 1, 0, 1)
    BY SMT DEF IsDate, MonthLength, FirstOf
  <2>2. n + 1 = DayNumber(y + 1, 0, 1)
    BY <1>2, <1>3, <1>8, YearLength, SMT DEF DayNumber, FirstOf, MonthLength
  <2>3. from_days(n + 1) = ymd(YearName(y + 1, 0), MonthName(0), 1)
    BY <1>6, <2>1, <2>2, DateFound, SMT DEF DateOf
  <2>4. /\ YearName(y, mp) = y + 1 /\ YearName(y + 1, 0) = y + 1
        /\ MonthName(mp) = 2 /\ MonthName(0) = 3
    BY <1>2, <1>8, SMT DEF YearName, MonthName
  <2> QED
    BY <1>2, <1>4, <1>8, <2>3, <2>4, <1>9, SMT
<1> QED
  BY <1>2, <1>3, <1>5, <1>7, <1>8, SMT

\* The days, read as dates, follow one another as those of the Gregorian
\* calendar do, and so do the weekdays, of which that of 1970-01-01 is Thursday.
THEOREM GregorianCorrect == Spec => FollowsGregorian
<1>1. Init => Abstract!Init
  <2> SUFFICES ASSUME Init PROVE Abstract!Init
    BY SMT
  <2>1. z \in Int
    BY WalksAssumption, SMT DEF Init
  <2>2. wd \in 0..6
    BY <2>1, Weekday, SMT DEF wd
  <2>3. date \in {from_days(w[1]) : w \in Walks}
    BY SMT DEF Init, date
  <2> QED
    BY <2>2, <2>3, SMT DEF Abstract!Init
<1>2. InDays /\ InDays' /\ [Next]_z => [Abstract!Next]_(Abstract!vars)
  <2>1. ASSUME InDays, InDays', Next PROVE Abstract!Next
    <3>1. z' = z + 1 /\ IsDay(z) /\ z + 1 <= LastDay
      BY <2>1, SMT DEF Next, InDays, IsDay
    <3>2. date' = Abstract!Tomorrow(date)
      BY <3>1, DayAfter, SMT DEF date
    <3>3. wd' = (wd + 1) % 7
      <4>1. wd = (z + 4) % 7 /\ wd' = (z + 1 + 4) % 7
        BY <3>1, Weekday, SMT DEF wd, IsDay
      <4>2. (z + 1 + 4) % 7 = (((z + 4) % 7) + 1) % 7
        BY <3>1, SMT DEF IsDay
      <4> QED
        BY <4>1, <4>2, SMT
    <3>4. date.y <= MaxYear
      BY <3>1, ToDaysOfFromDays, SMT DEF date, InYears
    <3> QED
      BY <3>2, <3>3, <3>4, SMT DEF Abstract!Next
  <2>2. ASSUME UNCHANGED z PROVE UNCHANGED Abstract!vars
    BY <2>2, SMT DEF Abstract!vars, date, wd
  <2> QED
    BY <2>1, <2>2, SMT
<1>3. InDays => Abstract!Anchored
  <2> SUFFICES ASSUME InDays, date = Abstract!Epoch PROVE wd = 4
    BY SMT DEF Abstract!Anchored
  <2>1. z \in Int /\ to_days(date) = z
    BY ToDaysOfFromDays, SMT DEF InDays, IsDay, date
  <2>2. to_days(Abstract!Epoch) = 0
    BY SMT DEF to_days, Quotient, Abstract!Epoch
  <2>3. z = 0
    BY <2>1, <2>2, SMT
  <2> QED
    BY <2>1, <2>3, Weekday, SMT DEF wd
<1> QED
  BY <1>1, <1>2, <1>3, DaysInRange, PTL DEF Spec, FollowsGregorian, Abstract!Spec

-----------------------------------------------------------------------------
(* The n-th weekday of a month                                             *)

\* A week later is another month exactly if the month has not that many days.
LEMMA WeekLater ==
  ASSUME NEW y, NEW mp, NEW d, IsDate(y, mp, d)
  PROVE  from_days(DayNumber(y, mp, d) + 7).m # MonthName(mp) <=> d + 7 > MonthLength(y, mp)
<1> DEFINE n == DayNumber(y, mp, d) + 7
<1>1. /\ y \in Int /\ mp \in Int /\ d \in Int /\ 0 <= mp /\ mp <= 11 /\ 1 <= d
      /\ d <= MonthLength(y, mp)
  BY SMT DEF IsDate
<1>2. /\ Start(y) \in Int /\ FirstOf(mp) \in Int /\ MonthLength(y, mp) \in Int
      /\ 28 <= MonthLength(y, mp) /\ MonthLength(y, mp) <= 31
  BY <1>1, YearLength, Months, SMT
<1>3. ASSUME NEW y2, NEW mp2, NEW d2, IsDate(y2, mp2, d2), n = DayNumber(y2, mp2, d2)
      PROVE  from_days(n).m = MonthName(mp2)
  <2>1. from_days(DayNumber(y2, mp2, d2)) = ymd(Short(YearName(y2, mp2)), MonthName(mp2), d2)
    BY <1>3, FromDays, SMT
  <2> QED
    BY <1>3, <2>1, SMT DEF ymd
<1>4. CASE d + 7 <= MonthLength(y, mp)
  <2>1. IsDate(y, mp, d + 7) /\ n = DayNumber(y, mp, d + 7)
    BY <1>1, <1>2, <1>4, SMT DEF IsDate, DayNumber
  <2> HIDE DEF n
  <2>2. from_days(n).m = MonthName(mp)
    BY <1>3, <2>1, SMT
  <2> QED
    BY <1>1, <1>2, <1>4, <2>2, SMT DEF n
<1>5. CASE d + 7 > MonthLength(y, mp) /\ mp < 11
  <2> DEFINE d2 == d + 7 - MonthLength(y, mp)
  <2>1. /\ FirstOf(mp + 1) = FirstOf(mp) + MonthLength(y, mp)
        /\ MonthLength(y, mp + 1) \in Int /\ 28 <= MonthLength(y, mp + 1)
    BY <1>1, <1>5, Months, SMT
  <2>2. IsDate(y, mp + 1, d2) /\ n = DayNumber(y, mp + 1, d2)
    BY <1>1, <1>2, <1>5, <2>1, SMT DEF IsDate, DayNumber
  <2> HIDE DEF n, d2
  <2>3. from_days(n).m = MonthName(mp + 1)
    BY <1>3, <2>2, SMT
  <2>4. MonthName(mp + 1) # MonthName(mp)
    BY <1>1, SMT DEF MonthName
  <2> QED
    BY <1>5, <2>3, <2>4, SMT DEF n
<1>6. CASE d + 7 > MonthLength(y, mp) /\ mp = 11
  <2> DEFINE d2 == d + 7 - MonthLength(y, mp)
  <2>1. FirstOf(11) + MonthLength(y, 11) = Start(y + 1) - Start(y) /\ Start(y + 1) \in Int
    <3>1. FirstOf(11) + MonthLength(y, 11) = IF is_leap(y + 1) THEN 366 ELSE 365
      BY <1>1, <1>6, Months, SMT
    <3>2. Start(y + 1) = Start(y) + (IF is_leap(y + 1) THEN 366 ELSE 365)
      BY <1>1, YearLength, SMT
    <3> QED
      BY <1>2, <3>1, <3>2, SMT
  <2>2. IsDate(y + 1, 0, d2) /\ n = DayNumber(y + 1, 0, d2)
    BY <1>1, <1>2, <1>6, <2>1, SMT DEF IsDate, DayNumber, MonthLength, FirstOf
  <2> HIDE DEF n, d2
  <2>3. from_days(n).m = MonthName(0)
    BY <1>3, <2>2, SMT
  <2>4. MonthName(0) # MonthName(mp)
    BY <1>6, SMT DEF MonthName
  <2> QED
    BY <1>6, <2>3, <2>4, SMT DEF n
<1> QED
  BY <1>1, <1>2, <1>4, <1>5, <1>6, SMT

\* The days from one weekday to the next other.
LEMMA DaysBetween ==
  ASSUME NEW a \in Int, NEW b \in Int
  PROVE  weekday_minus(weekday_from_days(a), weekday_from_days(b)) = (a - b) % 7
<1> DEFINE w == weekday_from_days(a)
           v == weekday_from_days(b)
<1>1. w = (a + 4) % 7 /\ v = (b + 4) % 7
  BY Weekday, SMT
<1> HIDE DEF w, v
<1>2. w \in Int /\ v \in Int /\ (w - v) % 7 = (a - b) % 7
  BY <1>1, SMT
<1>3. weekday_minus(w, v) = (w - v) % 7
  BY <1>2, WeekdayMinus, SMT
<1> QED
  BY <1>2, <1>3, SMT DEF w, v

\* The parts of the n-th weekday of a month are the weekday and the week.
LEMMA Indexed ==
  ASSUME NEW w \in Int, 0 <= w, w <= 6, NEW i \in Int, 1 <= i, i <= 6
  PROVE  weekday_indexed(w, i) = [wd |-> w, index |-> i]
BY SMT DEF weekday_indexed, Nibble

\* The n-th weekday of a month, its last weekday, and the weekday after the
\* last: on every day.
THEOREM NthWeekdayCorrect == Spec => []NthWeekday
<1>1. InDays => NthWeekday
  <2> SUFFICES ASSUME InDays PROVE NthWeekday
    BY SMT
  <2>1. PICK y \in Int, mp \in Int, d \in Int : DateOf(z, y, mp, d)
    BY DayIs, SMT DEF InDays
  <2> DEFINE today == from_days(z)
             length == MonthLength(y, mp)
             w == weekday_from_days(z)
             i == (d - 1) \div 7 + 1
             first == to_days(ymd(today.y, today.m, 1))
             end == to_days(ymd(today.y, today.m, last_day(today.y, today.m)))
             t == ymwd_from_days(z)
             next == [t EXCEPT !.i = weekday_indexed(@.wd, @.index + 1)]
             isLast == from_days(z + 7).m # today.m
  <2>2. /\ 0 <= mp /\ mp <= 11 /\ 1 <= d /\ d <= length /\ IsDate(y, mp, d)
        /\ z = DayNumber(y, mp, d) /\ z \in Int
    BY <2>1, SMT DEF DateOf, IsDate, InDays, IsDay
  <2>3. /\ today.y = YearName(y, mp) /\ today.m = MonthName(mp) /\ today.d = d
        /\ last_day(today.y, today.m) = length /\ year_ok(today.y) /\ month_ok(today.m)
    BY <2>1, DateIsOk, SMT DEF DateOf
  <2>4. length \in Int /\ 28 <= length /\ length <= 31 /\ Start(y) \in Int /\ FirstOf(mp) \in Int
    BY <2>2, Months, YearLength, SMT
  <2>5. w \in Int /\ 0 <= w /\ w <= 6
    BY <2>2, Weekday, SMT
  <2>6. i \in Int /\ 1 <= i /\ i <= 5
    BY <2>2, <2>4, SMT
  <2>7. isLast <=> d + 7 > length
    BY <2>2, <2>3, WeekLater, SMT
  <2>8. first = z - d + 1
    <3>1. to_days(ymd(YearName(y, mp), MonthName(mp), 1)) = DayNumber(y, mp, 1)
      BY <2>2, ToDays, SMT
    <3> QED
      BY <2>2, <2>3, <2>4, <3>1, SMT DEF DayNumber
  <2>9. end = z - d + length
    <3>1. to_days(ymd(YearName(y, mp), MonthName(mp), length)) = DayNumber(y, mp, length)
      BY <2>2, <2>4, ToDays, SMT
    <3> QED
      BY <2>2, <2>3, <2>4, <3>1, SMT DEF DayNumber
  <2>10. weekday_minus(w, weekday_from_days(first)) = (d - 1) % 7
    <3>1. z \in Int /\ first \in Int /\ z - first = d - 1
      BY <2>2, <2>8, SMT
    <3> HIDE DEF first
    <3>2. weekday_minus(w, weekday_from_days(first)) = (z - first) % 7
      BY <3>1, DaysBetween, SMT
    <3> QED
      BY <3>1, <3>2, SMT
  <2>11. weekday_minus(weekday_from_days(end), w) = (length - d) % 7
    <3>1. z \in Int /\ end \in Int /\ end - z = length - d
      BY <2>2, <2>4, <2>9, SMT
    <3> HIDE DEF end, length
    <3>2. weekday_minus(weekday_from_days(end), w) = (end - z) % 7
      BY <3>1, DaysBetween, SMT
    <3> QED
      BY <3>1, <3>2, SMT
  <2> DEFINE Of(j) == [y |-> today.y, m |-> today.m, i |-> [wd |-> w, index |-> j]]
  <2>12. t = Of(i)
    <3>1. t = [y |-> today.y, m |-> today.m, i |-> weekday_indexed(w, (today.d - 1) \div 7 + 1)]
      BY SMT DEF ymwd_from_days
    <3>2. weekday_indexed(w, (today.d - 1) \div 7 + 1) = [wd |-> w, index |-> i]
      BY <2>3, <2>5, <2>6, Indexed, SMT
    <3> HIDE DEF t, w, today, i
    <3> QED
      BY <3>1, <3>2, SMT
  <2>13. next = Of(i + 1)
    <3> HIDE DEF t, w, today, i
    <3>1. t.i.wd = w /\ t.i.index = i
      BY <2>12, SMT
    <3>2. weekday_indexed(w, i + 1) = [wd |-> w, index |-> i + 1]
      BY <2>5, <2>6, Indexed, SMT
    <3>3. next = [t EXCEPT !.i = weekday_indexed(w, i + 1)]
      BY <3>1, SMT
    <3> QED
      BY <2>12, <3>2, <3>3, SMT
  <2>14. ASSUME NEW j \in Int
         PROVE  ymwd_ok(Of(j)) <=> 1 <= j /\ (j <= 4 \/ ((d - 1) % 7) + (j - 1) * 7 + 1 <= length)
    <3> HIDE DEF w, today
    <3>1. Of(j).y = today.y /\ Of(j).m = today.m /\ Of(j).i.wd = w /\ Of(j).i.index = j
      BY SMT
    <3> HIDE DEF Of
    <3>2. ymwd_ok(Of(j)) <=>
            /\ year_ok(today.y) /\ month_ok(today.m) /\ weekday_ok(w) /\ j >= 1
            /\ \/ j <= 4
               \/ weekday_minus(w, weekday_from_days(first)) + (j - 1) * 7 + 1
                     <= last_day(today.y, today.m)
      BY <3>1, SMT DEF ymwd_ok
    <3> HIDE DEF first, length
    <3> QED
      BY <2>3, <2>5, <2>10, <3>2, SMT DEF weekday_ok
  <2>15. ymwd_to_days(Of(i)) = first + weekday_minus(w, weekday_from_days(first)) + (i - 1) * 7
    <3> HIDE DEF w, today, i
    <3>1. /\ Of(i).y = today.y /\ Of(i).m = today.m /\ Of(i).i.wd = w /\ Of(i).i.index = i
      BY SMT
    <3> HIDE DEF Of
    <3> QED
      BY <3>1, SMT DEF ymwd_to_days
  <2>16. ymwdl_to_days(today.y, today.m, w) = end - weekday_minus(weekday_from_days(end), w)
    BY SMT DEF ymwdl_to_days
  <2> HIDE DEF Of, t, next, first, end, isLast, w, length, today
  <2>17. ymwd_ok(t)
    BY <2>2, <2>4, <2>6, <2>12, <2>14, SMT
  <2>18. ymwd_to_days(t) = z
    BY <2>2, <2>8, <2>10, <2>12, <2>15, SMT
  <2>19. isLast <=> ymwdl_to_days(today.y, today.m, w) = z
    BY <2>2, <2>4, <2>7, <2>9, <2>11, <2>16, SMT
  <2>20. isLast <=> ~ymwd_ok(next)
    BY <2>2, <2>4, <2>6, <2>7, <2>13, <2>14, SMT
  <2> QED
    BY <2>17, <2>18, <2>19, <2>20, SMT DEF NthWeekday, date, wd, t, next, isLast, w, today
<1> QED
  BY <1>1, DaysInRange, PTL

-----------------------------------------------------------------------------
(* Months                                                                  *)

\* Moving by months is a division of the months since the year 0.
LEMMA MonthsPlus ==
  ASSUME NEW y \in Int, NEW m \in Int, NEW n \in Int
  PROVE  /\ year_month_plus(year_month(y, m), n)
               = [y |-> Short(y + (m - 1 + n) \div 12), m |-> ((m - 1 + n) % 12) + 1]
         /\ month_plus(m, n) = ((m - 1 + n) % 12) + 1
<1> DEFINE t == year_month(y, m)
           dmi == t.m - 1 + n
           dy == Quotient(IF dmi >= 0 THEN dmi ELSE dmi - 11, 12)
<1>1. year_month_plus(t, n) = year_month(year_plus(t.y, dy), month(dmi - dy * 12 + 1))
  BY SMT DEF year_month_plus
<1>2. t.y = y /\ t.m = m
  BY SMT DEF year_month
<1> HIDE DEF t
<1>3. dmi = m - 1 + n /\ dmi \in Int
  BY <1>2, SMT
<1> HIDE DEF dmi
<1>4. dy = dmi \div 12 /\ dy \in Int
  BY <1>3, SMT DEF Quotient
<1> HIDE DEF dy
<1>5. dmi - dy * 12 = dmi % 12 /\ 0 <= dmi % 12 /\ dmi % 12 <= 11 /\ dmi % 12 \in Int
  BY <1>3, <1>4, SMT
<1>6. month(dmi - dy * 12 + 1) = (dmi % 12) + 1
  BY <1>5, SMT DEF month, UChar
<1>7. year_plus(t.y, dy) = Short(y + dy)
  BY <1>2, SMT DEF year_plus, year
<1>8. year_month_plus(t, n) = [y |-> Short(y + dmi \div 12), m |-> (dmi % 12) + 1]
  BY <1>1, <1>4, <1>6, <1>7, SMT DEF year_month
<1>9. month_plus(m, n) = (dmi % 12) + 1
  <2> DEFINE mu == m + n - 1
             yr == Quotient(IF mu >= 0 THEN mu ELSE mu - 11, 12)
  <2>1. month_plus(m, n) = month(mu - yr * 12 + 1)
    BY SMT DEF month_plus
  <2>2. mu = dmi
    BY <1>3, SMT
  <2> HIDE DEF mu
  <2>3. yr = dy
    BY <2>2, <1>3, <1>4, SMT DEF Quotient
  <2> HIDE DEF yr
  <2> QED
    BY <2>1, <2>2, <2>3, <1>6, SMT
<1> QED
  BY <1>3, <1>8, <1>9, SMT DEF t

\* Narrowing leaves a year that fits alone, moves any other, and can be undone.
LEMMA Narrow ==
  ASSUME NEW q \in Int
  PROVE  /\ Short(q) \in Int /\ -32768 <= Short(q) /\ Short(q) <= 32767
         /\ Short(q) = q <=> -32768 <= q /\ q <= 32767
         /\ \A k \in Int : Short(Short(q) + k) = Short(q + k)
<1>1. Short(q) \in Int /\ -32768 <= Short(q) /\ Short(q) <= 32767
  BY SMT DEF Short
<1>2. Short(q) = q <=> -32768 <= q /\ q <= 32767
  BY SMT DEF Short
<1>3. ASSUME NEW k \in Int PROVE Short(Short(q) + k) = Short(q + k)
  BY SMT DEF Short
<1> QED
  BY <1>1, <1>2, <1>3, SMT

\* r is the month n months after m, q years later.
MonthsAre(m, n, q, r) ==
    /\ m \in Int /\ n \in Int /\ q \in Int /\ r \in Int /\ 1 <= m /\ m <= 12
    /\ q = (m - 1 + n) \div 12 /\ r = ((m - 1 + n) % 12) + 1

\* So a month n months later, or earlier, is another of q years away.
LEMMA MonthMoved ==
  ASSUME NEW y, NEW m, NEW n, NEW q, NEW r, y \in Int, MonthsAre(m, n, q, r)
  PROVE  /\ year_month_plus(year_month(y, m), n) = [y |-> Short(y + q), m |-> r]
         /\ month_plus(m, n) = r
<1>0. /\ m \in Int /\ n \in Int
      /\ q = (m - 1 + n) \div 12 /\ r = ((m - 1 + n) % 12) + 1
  BY SMT DEF MonthsAre
<1>1. /\ year_month_plus(year_month(y, m), n)
            = [y |-> Short(y + (m - 1 + n) \div 12), m |-> ((m - 1 + n) % 12) + 1]
      /\ month_plus(m, n) = ((m - 1 + n) % 12) + 1
  <2> HIDE <1>0
  <2>1. m \in Int /\ n \in Int
    BY <1>0, SMT
  <2> QED
    BY <2>1, MonthsPlus, Zenon
<1> QED
  BY <1>0, <1>1, SMT

\* The months of a date and of the one n months later, as numbers: going back
\* undoes the division, and the difference of the months is n up to whole years.
LEMMA MonthsMoved ==
  ASSUME NEW m \in Int, NEW n \in Int, NEW q \in Int, NEW r \in Int, MonthsAre(m, n, q, r)
  PROVE  /\ 1 <= r /\ r <= 12
         /\ MonthsAre(r, -n, -q, m)
         /\ q * 12 + r - m = n
         /\ month_minus(r, m) = n % 12
<1>0. /\ m \in Int /\ n \in Int /\ q \in Int /\ r \in Int /\ 1 <= m /\ m <= 12
      /\ q = (m - 1 + n) \div 12 /\ r = ((m - 1 + n) % 12) + 1
  BY SMT DEF MonthsAre
<1>1. m - 1 + n = q * 12 + r - 1 /\ 1 <= r /\ r <= 12
  BY <1>0, SMT
<1>2. r - 1 - n = (-q) * 12 + m - 1
  BY <1>0, <1>1, SMT
<1>3. (r - 1 - n) \div 12 = -q /\ (r - 1 - n) % 12 = m - 1
  BY <1>0, <1>2, SMT
<1>7. MonthsAre(r, -n, -q, m)
  BY <1>0, <1>1, <1>3, SMT DEF MonthsAre
<1>4. n = q * 12 + (r - m) /\ -11 <= r - m /\ r - m <= 11
  BY <1>0, <1>1, SMT
<1>5. n % 12 = IF 0 <= r - m THEN r - m ELSE r - m + 12
  <2>1. CASE 0 <= r - m
    BY <1>0, <1>4, <2>1, SMT
  <2>2. CASE ~(0 <= r - m)
    BY <1>0, <1>4, <2>2, SMT
  <2> QED
    BY <2>1, <2>2, SMT
<1>6. month_minus(r, m) = IF 0 <= r - m THEN r - m ELSE r - m + 12
  BY <1>0, <1>4, SMT DEF month_minus
<1> QED
  BY <1>0, <1>1, <1>4, <1>5, <1>6, <1>7, SMT

\* The year moves with the months: exactly if it fits, and back to itself.
LEMMA YearsMoved ==
  ASSUME NEW y \in Int, NEW q \in Int, -32768 <= y, y <= 32767
  PROVE  /\ Short(y + q) \in Int /\ -32768 <= Short(y + q) /\ Short(y + q) <= 32767
         /\ Short(y + q) = y + q <=> -32768 <= y + q /\ y + q <= 32767
         /\ Short(Short(y + q) + (-q)) = y
<1>1. y + q \in Int /\ -q \in Int /\ (y + q) + (-q) = y
  BY SMT
<1>2. Short(Short(y + q) + (-q)) = Short(y)
  BY <1>1, Narrow, SMT
<1>3. Short(y) = y
  BY Narrow, SMT
<1>4. /\ Short(y + q) \in Int /\ -32768 <= Short(y + q) /\ Short(y + q) <= 32767
      /\ Short(y + q) = y + q <=> -32768 <= y + q /\ y + q <= 32767
  BY <1>1, Narrow, SMT
<1> QED
  BY <1>2, <1>3, <1>4, SMT

\* No month is shorter than 28 days, so its last day is one of a year_month_day.
LEMMA LastIsOk ==
  ASSUME NEW y \in Int, NEW m \in Int, 1 <= m, m <= 12
  PROVE  last_day(y, m) \in Int /\ 1 <= last_day(y, m)
<1>1. m \in 1..12
  BY SMT
<1>2. Lengths[m] \in Int /\ 1 <= Lengths[m]
  BY <1>1, SMT DEF Lengths
<1> QED
  BY <1>2, SMT DEF last_day

\* Moving by months: what is added is the difference, if the year fits, and
\* moving back restores the date: for every day and every number of months.
THEOREM MonthsCorrect == Spec => []MonthsAddUp
<1>1. ASSUME InDays, NEW n \in Shifts PROVE AddsUp(n)
  <2> DEFINE today == date
             here == year_month(today.y, today.m)
             q == (today.m - 1 + n) \div 12
             r == ((today.m - 1 + n) % 12) + 1
             t == ymd_plus_months(today, n)
             there == year_month(t.y, t.m)
             back == ymd_plus_months(t, -n)
             last == ymdl_plus_months(here, n)
             years == (today.y * 12 + today.m - 1 + n) \div 12
             fits == -32768 <= years /\ years <= 32767
             diff == year_month_minus(there, here)
  <2>0. n \in Int
    BY ShiftsAssumption, SMT
  <2>1. AddsUp(n) <=>
          /\ fits <=> (diff = n)
          /\ t.m = month_plus(today.m, n) /\ month_minus(t.m, today.m) = n % 12
          /\ back = today
          /\ year_ok(t.y) => /\ ymd_ok(t) <=> t.d <= last_day(t.y, t.m)
                             /\ ymd_ok(last)
    BY SMT DEF AddsUp
  <2>2. today \in Date /\ ymd_ok(today) /\ InYears(today)
    BY <1>1, ToDaysOfFromDays, SMT DEF InDays, date
  <2>3. here.y = today.y /\ here.m = today.m /\ there.y = t.y /\ there.m = t.m
    BY SMT DEF year_month
  <2> HIDE DEF today
  <2>4. /\ today.y \in Int /\ today.m \in Int /\ today.d \in Int
        /\ -32767 <= today.y /\ today.y <= 32767 /\ 1 <= today.d
        /\ 1 <= today.m /\ today.m <= 12 /\ today = ymd(today.y, today.m, today.d)
    BY <2>2, SMT DEF Date, ymd_ok, month_ok, InYears, ymd, MinYear, MaxYear
  <2>5. /\ year_month_plus(year_month(today.y, today.m), n) = [y |-> Short(today.y + q), m |-> r]
        /\ month_plus(today.m, n) = r
    <3>1. q \in Int /\ r \in Int
      BY <2>0, <2>4, SMT
    <3>2. MonthsAre(today.m, n, q, r)
      BY <2>0, <2>4, <3>1, SMT DEF MonthsAre
    <3> HIDE DEF q, r
    <3> QED
      BY <2>4, <3>2, MonthMoved, SMT
  <2>6. t = ymd(Short(today.y + q), r, today.d)
    BY <2>5, SMT DEF ymd_plus_months
  <2>7. last = ymd(Short(today.y + q), r, last_day(Short(today.y + q), r))
    BY <2>5, SMT DEF ymdl_plus_months
  <2>8. q \in Int /\ r \in Int
    BY <2>0, <2>4, SMT
  <2>9. diff = (t.y - today.y) * 12 + (t.m - today.m)
    BY <2>3, SMT DEF year_month_minus
  <2> HIDE DEF t, last, here, there, diff
  <2>10. t.y = Short(today.y + q) /\ t.m = r /\ t.d = today.d
    BY <2>6, SMT DEF ymd
  <2>21. MonthsAre(today.m, n, q, r)
    BY <2>0, <2>4, <2>8, SMT DEF MonthsAre
  <2>11. /\ 1 <= r /\ r <= 12
         /\ MonthsAre(r, -n, -q, today.m)
         /\ q * 12 + r - today.m = n
         /\ month_minus(r, today.m) = n % 12
    <3> HIDE DEF q, r
    <3>1. today.m \in Int
      BY <2>4, SMT
    <3> QED
      BY <2>0, <2>8, <2>21, <3>1, MonthsMoved, Zenon
  <2>12. years = today.y + q
    BY <2>0, <2>4, SMT
  <2>13. fits <=> (-32768 <= today.y + q /\ today.y + q <= 32767)
    BY <2>12, SMT
  <2> HIDE DEF q, r, years, fits
  <2>14. /\ t.y \in Int /\ -32768 <= t.y /\ t.y <= 32767
         /\ t.y = today.y + q <=> -32768 <= today.y + q /\ today.y + q <= 32767
         /\ Short(t.y + (-q)) = today.y
    BY <2>4, <2>8, <2>10, YearsMoved, SMT
  <2>15. fits <=> (diff = n)
    BY <2>0, <2>4, <2>8, <2>9, <2>10, <2>11, <2>13, <2>14, SMT
  <2>16. back = today
    <3>3. year_month_plus(year_month(t.y, t.m), -n) = [y |-> today.y, m |-> today.m]
      BY <2>10, <2>11, <2>14, MonthMoved, SMT
    <3>4. back = ymd(today.y, today.m, t.d)
      BY <3>3, SMT DEF ymd_plus_months
    <3> QED
      BY <3>4, <2>4, <2>10, SMT
  <2>17. month_ok(t.m)
    BY <2>8, <2>10, <2>11, SMT DEF month_ok
  <2>18. ymd_ok(t) <=> year_ok(t.y) /\ t.d <= last_day(t.y, t.m)
    BY <2>4, <2>10, <2>17, SMT DEF ymd_ok
  <2>19. ymd_ok(last) <=> year_ok(t.y)
    <3>1. last.y = t.y /\ last.m = t.m /\ last.d = last_day(t.y, t.m)
      BY <2>7, <2>10, SMT DEF ymd
    <3>2. 1 <= last_day(t.y, t.m) /\ last_day(t.y, t.m) \in Int
      BY <2>8, <2>10, <2>11, <2>14, LastIsOk, SMT
    <3> QED
      BY <3>1, <3>2, <2>17, SMT DEF ymd_ok
  <2> QED
    BY <2>1, <2>5, <2>10, <2>11, <2>15, <2>16, <2>18, <2>19, SMT
<1>2. InDays => MonthsAddUp
  BY <1>1, SMT DEF MonthsAddUp
<1> QED
  BY <1>2, DaysInRange, PTL

-----------------------------------------------------------------------------
(* The days and the weeks of a year                                        *)

NewYear(y) == to_days(ymd(y, 1, 1))
YearDays(y) == IF is_leap(y) THEN 366 ELSE 365

\* A year begins 306 days after the March before it, where the last one ends.
LEMMA NewYears ==
  ASSUME NEW y \in Int
  PROVE  /\ NewYear(y) \in Int /\ NewYear(y) = Start(y - 1) + 306
         /\ NewYear(y + 1) = NewYear(y) + YearDays(y)
         /\ \A x \in Int : x < y => NewYear(x + 1) <= NewYear(y)
<1>1. ASSUME NEW x \in Int PROVE NewYear(x) = Start(x - 1) + 306
  <2>1. YearName(x - 1, 10) = x /\ MonthName(10) = 1 /\ x - 1 \in Int
    BY SMT DEF YearName, MonthName
  <2>2. to_days(ymd(YearName(x - 1, 10), MonthName(10), 1)) = DayNumber(x - 1, 10, 1)
    BY <2>1, ToDays, SMT
  <2>3. DayNumber(x - 1, 10, 1) = Start(x - 1) + 306
    BY <2>1, YearLength, SMT DEF DayNumber, FirstOf
  <2> QED
    BY <2>1, <2>2, <2>3, SMT DEF NewYear
<1>2. ASSUME NEW x \in Int
      PROVE  /\ Start(x - 1) \in Int
             /\ Start(x) = Start(x - 1) + YearDays(x)
  <2>1. x - 1 \in Int /\ (x - 1) + 1 = x
    BY SMT
  <2> QED
    BY <2>1, YearLength, SMT DEF YearDays
<1>3. NewYear(y) \in Int /\ NewYear(y) = Start(y - 1) + 306 /\ NewYear(y + 1) = Start(y) + 306
  <2>1. NewYear(y + 1) = Start((y + 1) - 1) + 306 /\ (y + 1) - 1 = y
    BY <1>1, SMT
  <2> QED
    BY <1>1, <1>2, <2>1, SMT
<1>4. NewYear(y + 1) = NewYear(y) + YearDays(y)
  BY <1>2, <1>3, SMT DEF YearDays
<1>5. ASSUME NEW x \in Int, x < y PROVE NewYear(x + 1) <= NewYear(y)
  <2>1. x - 1 \in Int /\ y - 1 \in Int /\ x - 1 < y - 1 /\ (x - 1) + 1 = x /\ (x + 1) - 1 = x
    BY <1>5, SMT
  <2>2. Start((x - 1) + 1) <= Start(y - 1)
    BY <2>1, YearsInOrder, SMT
  <2>3. NewYear(x + 1) = Start((x + 1) - 1) + 306
    BY <1>1, SMT
  <2> QED
    BY <1>2, <1>3, <2>1, <2>2, <2>3, SMT
<1> QED
  BY <1>3, <1>4, <1>5, SMT

\* The year that from_days finds is the one the day lies in.
LEMMA DayInYear ==
  ASSUME NEW n, IsDay(n)
  PROVE  LET y == from_days(n).y
         IN  y \in Int /\ MinYear <= y /\ y <= MaxYear /\ NewYear(y) <= n /\ n < NewYear(y + 1)
<1>1. PICK y \in Int, mp \in Int, d \in Int : DateOf(n, y, mp, d)
  BY DayIs, SMT
<1>2. /\ from_days(n).y = YearName(y, mp) /\ n = Start(y) + FirstOf(mp) + d - 1
      /\ 0 <= mp /\ mp <= 11 /\ 1 <= d /\ d <= MonthLength(y, mp)
      /\ MinYear <= YearName(y, mp) /\ YearName(y, mp) <= MaxYear
  BY <1>1, SMT DEF DateOf, DayNumber, IsDate, ymd
<1>3. /\ Start(y) \in Int /\ FirstOf(mp) \in Int /\ 0 <= FirstOf(mp)
      /\ FirstOf(mp) + MonthLength(y, mp) <= FirstOf(mp + 1) /\ FirstOf(mp + 1) \in Int
      /\ MonthLength(y, mp) \in Int
  <2>1. FirstOf(mp + 1) \in Int
    BY SMT DEF FirstOf
  <2> QED
    BY <1>2, <2>1, YearLength, Months, SMT
<1>4. NewYear(y + 1) = Start(y) + 306
  <2>1. y + 1 \in Int /\ (y + 1) - 1 = y
    BY SMT
  <2> QED
    BY <2>1, NewYears, SMT
<1>5. CASE mp < 10
  <2>1. YearName(y, mp) = y /\ FirstOf(mp + 1) <= 306
    BY <1>2, <1>5, SMT DEF YearName, FirstOf
  <2>2. NewYear(y) \in Int /\ NewYear(y + 1) = NewYear(y) + YearDays(y)
    BY NewYears, SMT
  <2>3. NewYear(y) <= Start(y)
    BY <1>3, <1>4, <2>2, SMT DEF YearDays
  <2> QED
    BY <1>2, <1>3, <1>4, <2>1, <2>2, <2>3, SMTT(30)
<1>6. CASE mp >= 10
  <2>1. YearName(y, mp) = y + 1 /\ y + 1 \in Int /\ 306 <= FirstOf(mp) /\ FirstOf(mp + 1) <= 367
    BY <1>2, <1>6, SMT DEF YearName, FirstOf
  <2>2. NewYear(y + 1 + 1) = NewYear(y + 1) + YearDays(y + 1) /\ NewYear(y + 1) \in Int
    BY <2>1, NewYears, SMT
  <2>3. 306 <= 306 + YearDays(y + 1) - 61 /\ YearDays(y + 1) \in Int
    BY SMT DEF YearDays
  <2>4. FirstOf(mp) + d - 1 < 367 /\ 306 <= FirstOf(mp) + d - 1
    BY <1>2, <1>3, <2>1, SMT
  <2>5. NewYear(y + 1) <= n /\ n < NewYear(y + 1 + 1)
    BY <1>2, <1>3, <1>4, <2>2, <2>3, <2>4, SMT
  <2> QED
    BY <1>2, <2>1, <2>5, SMT
<1> QED
  BY <1>2, <1>5, <1>6, SMT

\* The days of years that a year can hold.
LEMMA DaysOfYears ==
  ASSUME NEW a \in Int, NEW b \in Int, MinYear <= a, b <= MaxYear + 1,
         NEW n \in Int, NewYear(a) <= n, n < NewYear(b)
  PROVE  IsDay(n)
<1>1. FirstDay = NewYear(-32767)
  BY SMT DEF FirstDay, NewYear, MinYear
<1>2. NewYear(32768) = -12687428 + 23936166 /\ NewYear(-32767) = -12687428
  <2>1. \A x \in Int : NewYear(x) = Start(x - 1) + 306
    BY NewYears, SMT
  <2>2. Start(32767) = 11248432 /\ 32768 - 1 = 32767
    BY SMT DEF Start
  <2> QED
    BY <1>1, <2>1, <2>2, Ends, SMT
<1>3. \A x, y \in Int : x <= y => NewYear(x) <= NewYear(y) /\ NewYear(x) \in Int
  <2>1. ASSUME NEW x \in Int, NEW y \in Int, x <= y
        PROVE  NewYear(x) <= NewYear(y) /\ NewYear(x) \in Int
    <3>1. /\ NewYear(x) \in Int /\ NewYear(x + 1) = NewYear(x) + YearDays(x)
          /\ NewYear(y) \in Int /\ (x < y => NewYear(x + 1) <= NewYear(y))
      BY NewYears, SMT
    <3>2. YearDays(x) \in {365, 366}
      BY SMT DEF YearDays
    <3>3. CASE x = y
      BY <3>1, <3>3, SMT
    <3>4. CASE x < y
      BY <3>1, <3>2, <3>4, SMT
    <3> QED
      BY <2>1, <3>3, <3>4, SMT
  <2> QED
    BY <2>1, SMT
<1>4. -32767 <= a /\ b <= 32768
  BY SMT DEF MinYear, MaxYear
<1>5. NewYear(-32767) <= NewYear(a) /\ NewYear(b) <= NewYear(32768)
      /\ NewYear(a) \in Int /\ NewYear(b) \in Int
  BY <1>3, <1>4, SMT
<1> QED
  BY <1>1, <1>2, <1>5, Ends, SMT DEF IsDay

\* There is no other such year.
LEMMA YearOfDay ==
  ASSUME NEW y \in Int, MinYear <= y, y <= MaxYear,
         NEW n \in Int, NewYear(y) <= n, n < NewYear(y + 1)
  PROVE  IsDay(n) /\ from_days(n).y = y
<1>1. IsDay(n)
  <2>1. y + 1 \in Int /\ y + 1 <= MaxYear + 1
    BY SMT DEF MaxYear
  <2> QED
    BY <2>1, DaysOfYears, SMT
<1> DEFINE x == from_days(n).y
<1>2. x \in Int /\ NewYear(x) <= n /\ n < NewYear(x + 1)
  BY <1>1, DayInYear, SMT
<1> HIDE DEF x
<1>3. /\ NewYear(x) \in Int /\ NewYear(x + 1) \in Int
      /\ NewYear(y) \in Int /\ NewYear(y + 1) \in Int
  BY <1>2, NewYears, SMT
<1>4. ~(x < y) /\ ~(y < x)
  <2>1. x < y => NewYear(x + 1) <= NewYear(y)
    BY <1>2, NewYears, SMT
  <2>2. y < x => NewYear(y + 1) <= NewYear(x)
    BY <1>2, NewYears, SMT
  <2> QED
    BY <1>2, <1>3, <2>1, <2>2, SMT
<1> QED
  BY <1>1, <1>2, <1>4, SMT DEF x

\* The year of ISO's weeks begins with the Monday that is closest to its first
\* day, day 0 being a Thursday.
LEMMA IsoStartIs ==
  ASSUME NEW y \in Int, MinYear < y, y <= MaxYear
  PROVE  IsoStart(y) = 7 * ((NewYear(y) - 1) \div 7) + 4
<1> DEFINE end == to_days(ymd(y - 1, 12, 31))
           v == weekday_from_days(end)
<1>1. year_plus(y, -1) = y - 1
  BY SMT DEF year_plus, year, Short, MinYear, MaxYear
<1>2. last_day(y - 1, 12) = 31
  BY SMT DEF last_day, month_ok, Lengths
<1>3. IsoStart(y) = end - weekday_minus(v, 4) + weekday_minus(1, 4)
  BY <1>1, <1>2, SMT DEF IsoStart, ymwdl_to_days
<1>4. end = NewYear(y) - 1 /\ end \in Int
  <2>1. y - 1 \in Int /\ YearName(y - 1, 9) = y - 1 /\ MonthName(9) = 12
    BY SMT DEF YearName, MonthName
  <2>2. to_days(ymd(YearName(y - 1, 9), MonthName(9), 31)) = DayNumber(y - 1, 9, 31)
    BY <2>1, ToDays, SMT
  <2>3. Start(y - 1) \in Int /\ DayNumber(y - 1, 9, 31) = Start(y - 1) + 305
    BY <2>1, YearLength, SMT DEF DayNumber, FirstOf
  <2>4. NewYear(y) = Start(y - 1) + 306
    BY NewYears, SMT
  <2> QED
    BY <2>1, <2>2, <2>3, <2>4, SMT
<1> HIDE DEF end
<1>5. v = (end + 4) % 7 /\ v \in Int
  BY <1>4, Weekday, SMT
<1> HIDE DEF v
<1>6. weekday_minus(v, 4) = (v - 4) % 7 /\ weekday_minus(1, 4) = 4
  <2>1. \A a, b \in Int : weekday_minus(a, b) = (a - b) % 7
    BY WeekdayMinus, SMT
  <2>2. weekday_minus(1, 4) = 4
    BY SMT DEF weekday_minus, Weeks, Quotient
  <2> QED
    BY <1>5, <2>1, <2>2, SMT
<1>7. (((end + 4) % 7) - 4) % 7 = end % 7
  BY <1>4, SMT
<1>8. end - (end % 7) = 7 * (end \div 7) /\ end \div 7 \in Int /\ end % 7 \in Int
  BY <1>4, SMT
<1> QED
  BY <1>3, <1>4, <1>5, <1>6, <1>7, <1>8, SMT

\* The weeks that begin with the weekday w are counted from the first of them.
LEMMA FirstWeekIs ==
  ASSUME NEW y \in Int, NEW w \in Int, 0 <= w, w <= 1
  PROVE  FirstWeek(y, w) = NewYear(y) + ((w - NewYear(y) - 4) % 7)
<1> DEFINE v == weekday_from_days(NewYear(y))
<1>1. NewYear(y) \in Int
  BY NewYears, SMT
<1>2. FirstWeek(y, w) = NewYear(y) + weekday_minus(w, v) + (1 - 1) * 7
  <2>1. weekday_indexed(w, 1) = [wd |-> w, index |-> 1]
    BY SMT DEF weekday_indexed, Nibble
  <2> QED
    BY <2>1, SMT DEF FirstWeek, ymwd_to_days, NewYear
<1>3. v = (NewYear(y) + 4) % 7 /\ v \in Int
  BY <1>1, Weekday, SMT
<1> HIDE DEF v
<1>4. weekday_minus(w, v) = (w - v) % 7
  <2>1. \A a, b \in Int : weekday_minus(a, b) = (a - b) % 7
    BY WeekdayMinus, SMT
  <2>2. v \in Int
    BY <1>3
  <2> QED
    BY <2>1, <2>2, SMT
<1>5. (w - ((NewYear(y) + 4) % 7)) % 7 = (w - NewYear(y) - 4) % 7
  BY <1>1, SMT
<1>6. (w - NewYear(y) - 4) % 7 \in Int
  BY <1>1, SMT
<1> QED
  BY <1>1, <1>2, <1>3, <1>4, <1>5, <1>6, SMT

\* It begins within three days of the year, and 52 or 53 weeks before the next.
LEMMA IsoStarts ==
  ASSUME NEW y \in Int, MinYear < y, y <= MaxYear
  PROVE  /\ IsoStart(y) \in Int /\ NewYear(y) - 3 <= IsoStart(y) /\ IsoStart(y) <= NewYear(y) + 3
         /\ \A x \in Int : MinYear < x /\ x < y
              => IsoStart(x) + 364 <= IsoStart(y) /\ IsoStart(x) % 7 = IsoStart(y) % 7
<1>1. NewYear(y) \in Int /\ IsoStart(y) = 7 * ((NewYear(y) - 1) \div 7) + 4
  BY NewYears, IsoStartIs, SMT
<1>2. ASSUME NEW x \in Int, MinYear < x, x < y
      PROVE  IsoStart(x) + 364 <= IsoStart(y) /\ IsoStart(x) % 7 = IsoStart(y) % 7
  <2>1. x <= MaxYear
    BY <1>2, SMT DEF MaxYear
  <2>2. NewYear(x) \in Int /\ IsoStart(x) = 7 * ((NewYear(x) - 1) \div 7) + 4
    BY <1>2, <2>1, NewYears, IsoStartIs, SMT
  <2>3. NewYear(x) + 365 <= NewYear(y)
    <3>1. NewYear(x + 1) = NewYear(x) + YearDays(x) /\ NewYear(x + 1) <= NewYear(y)
      BY <1>2, NewYears, SMT
    <3> QED
      BY <1>1, <2>2, <3>1, SMT DEF YearDays
  <2>4. ASSUME NEW a \in Int, NEW b \in Int, a + 365 <= b
        PROVE  7 * ((a - 1) \div 7) + 4 + 364 <= 7 * ((b - 1) \div 7) + 4
    BY <2>4, SMT
  <2>5. ASSUME NEW a \in Int PROVE (7 * ((a - 1) \div 7) + 4) % 7 = 4
    BY SMT
  <2>6. IsoStart(x) + 364 <= IsoStart(y)
    BY <1>1, <2>2, <2>3, <2>4, SMT
  <2>7. IsoStart(x) % 7 = 4 /\ IsoStart(y) % 7 = 4
    BY <1>1, <2>2, <2>5, SMT
  <2> QED
    BY <2>6, <2>7, SMT
<1>3. ASSUME NEW a \in Int
      PROVE  LET b == 7 * ((a - 1) \div 7) + 4 IN b \in Int /\ a - 3 <= b /\ b <= a + 3
  BY SMT
<1> QED
  BY <1>1, <1>2, <1>3, SMT

LEMMA FirstWeeks ==
  ASSUME NEW y \in Int, NEW w \in Int, 0 <= w, w <= 1
  PROVE  FirstWeek(y, w) \in Int /\ NewYear(y) <= FirstWeek(y, w) /\ FirstWeek(y, w) <= NewYear(y) + 6
<1>1. NewYear(y) \in Int /\ FirstWeek(y, w) = NewYear(y) + ((w - NewYear(y) - 4) % 7)
  BY NewYears, FirstWeekIs, SMT
<1>2. \A a \in Int : a % 7 \in Int /\ 0 <= a % 7 /\ a % 7 <= 6
  BY SMT
<1>3. w - NewYear(y) - 4 \in Int
  BY <1>1, SMT
<1> QED
  BY <1>1, <1>2, <1>3, SMT

\* A date lies in its year.
LEMMA DateInYear ==
  ASSUME NEW t \in Date, ymd_ok(t), InYears(t)
  PROVE  /\ IsDay(to_days(t)) /\ from_days(to_days(t)) = t
         /\ NewYear(t.y) <= to_days(t) /\ to_days(t) < NewYear(t.y + 1)
<1>1. from_days(to_days(t)) = t
  BY FromDaysOfToDays, SMT
<1>2. month_ok(t.m) /\ t.d \in Int /\ 1 <= t.d /\ t.d <= last_day(t.y, t.m)
  BY SMT DEF ymd_ok, Date
<1>3. PICK y \in Int, mp \in Int : /\ 0 <= mp /\ mp <= 11 /\ t.y = YearName(y, mp)
                                   /\ to_days(t) = DayNumber(y, mp, t.d)
                                   /\ last_day(t.y, t.m) = MonthLength(y, mp)
  BY <1>2, DateIs, SMT
<1>4. IsDate(y, mp, t.d)
  BY <1>2, <1>3, SMT DEF IsDate
<1>5. FirstDay <= to_days(t) /\ to_days(t) <= LastDay
  BY <1>3, <1>4, YearsOfDays, SMT DEF InYears
<1>6. to_days(t) \in Int
  <2>1. Start(y) \in Int /\ FirstOf(mp) \in Int
    BY <1>3, YearLength, Months, SMT
  <2> QED
    BY <1>2, <1>3, <2>1, SMT DEF DayNumber
<1>7. IsDay(to_days(t))
  BY <1>5, <1>6, SMT DEF IsDay
<1> QED
  BY <1>1, <1>7, DayInYear, SMT
=============================================================================
