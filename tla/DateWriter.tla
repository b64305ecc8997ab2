---------------------------- MODULE DateWriter ----------------------------
(* to_stream of date.h: a format is interpreted one character at a time.    *)
(* "%" begins a command, "E" and "O" modify it, and every other character   *)
(* either ends it or stands for itself.  ONLY_C_LOCALE is 0; what the       *)
(* time_put facet writes is what it writes in the classic locale.           *)
EXTENDS DateStream

CONSTANT FracWidth          \* the digits of a fraction of a second
Frac == Ten(FracWidth)

VARIABLES fmt,              \* the format
          at,               \* the next character of it
          command,          \* a command has begun
          modified,         \* its modifier, "" if none
          fds,              \* the fields to write
          insert_negative,  \* the sign of a duration is still to be written
          out,              \* what has been written
          wfail             \* the output stream's failbit
wvars == <<fmt, at, command, modified, fds, insert_negative, out, wfail>>

\* utc: the abbreviation and the offset of UTC are given too, as for sys_time.
NoFields == [ymd |-> ymd(nanyear, 0, 0), wd |-> 8, tod |-> hh_mm_ss(0, Frac), has_tod |-> FALSE,
             utc |-> FALSE]

extract_weekday ==
    IF ymd_ok(fds.ymd) THEN weekday_from_days(to_days(fds.ymd)) ELSE fds.wd
HasWeekday ==
    IF ymd_ok(fds.ymd) THEN weekday_ok(fds.wd) => fds.wd = extract_weekday
    ELSE weekday_ok(fds.wd)
HasDate == ymd_ok(fds.ymd)

IsoYear(t) ==
    LET y == from_days(to_days(t) + 3).y
    IN IF to_days(t) < IsoStart(y) THEN year_plus(y, -1) ELSE y
IsoWeek(t) == (to_days(t) - IsoStart(IsoYear(t))) \div 7 + 1
WeekOfYear(t, w) ==
    IF to_days(t) < FirstWeek(t.y, w) THEN 0
    ELSE (to_days(t) - FirstWeek(t.y, w)) \div 7 + 1
DayOfYear(t) == to_days(t) - to_days(ymd(t.y, 1, 1)) + 1

-----------------------------------------------------------------------------
Writing(chars) == at <= Len(fmt) /\ fmt[at] \in chars /\ ~wfail
Char == fmt[at]
Advance == at' = at + 1 /\ UNCHANGED <<fmt, fds>>
EndCommand == command' = FALSE /\ modified' = ""
Literally(s) == out' = out \o s /\ UNCHANGED <<insert_negative, wfail>>

\* A character without a command, and one whose modifier it does not take.
Plain(chars) ==
    /\ Writing(chars) /\ ~command
    /\ Advance /\ Literally(<<Char>>) /\ UNCHANGED <<command, modified>>
Unmodifiable(chars, mods) ==
    /\ Writing(chars) /\ command /\ modified \notin mods
    /\ Advance /\ EndCommand /\ Literally(<<"%", modified, Char>>)

\* A conversion writes s if the fields have what it needs, and fails otherwise.
Writes(chars, mods, has, s) ==
    /\ Writing(chars) /\ command /\ modified \in mods
    /\ Advance /\ EndCommand
    /\ wfail' = ~has
    /\ out' = IF has THEN out \o s ELSE out
    /\ UNCHANGED insert_negative
\* The first field of a negative duration takes the sign.
WritesSigned(chars, mods, s) ==
    /\ Writing(chars) /\ command /\ modified \in mods
    /\ Advance /\ EndCommand
    /\ wfail' = ~fds.has_tod
    /\ out' = IF fds.has_tod
              THEN out \o (IF insert_negative THEN <<"-">> ELSE <<>>) \o s ELSE out
    /\ insert_negative' = (insert_negative /\ ~fds.has_tod)

Put_aA == Writes({"a", "A"}, {""}, HasWeekday, Names(Weekdays, extract_weekday))
Put_bBh == Writes({"b", "B", "h"}, {""}, month_ok(fds.ymd.m), Names(Months, fds.ymd.m - 1))
Put_C == Writes({"C"}, {"", "E"}, year_ok(fds.ymd.y),
                LET y == fds.ymd.y
                IN IF modified = "E" THEN Internal(y \div 100, 2)
                   ELSE IF y >= 0 THEN Digits(y \div 100, 2)
                   ELSE <<"-">> \o Digits(Quotient(-(y - 99), 100), 2))
Put_d == Writes({"d"}, {"", "O"}, day_ok(fds.ymd.d), Digits(fds.ymd.d, 2))
Put_e == Writes({"e"}, {"", "O"}, day_ok(fds.ymd.d), Filled(fds.ymd.d, 2, " "))
\* The year of %D keeps its sign, and the fill of %F's comes before it.
Put_D == Writes({"D"}, {""}, HasDate,
                LET t == fds.ymd
                IN Digits(t.m, 2) \o <<"/">> \o Digits(t.d, 2) \o <<"/">>
                   \o Right(t.y - 100 * Quotient(t.y, 100), 2))
Put_F == Writes({"F"}, {""}, HasDate,
                LET t == fds.ymd
                IN Right(t.y, 4) \o <<"-">> \o Digits(t.m, 2) \o <<"-">> \o Digits(t.d, 2))
Put_G == Writes({"G"}, {""}, HasDate, Internal(IsoYear(fds.ymd), 4))
Put_g == Writes({"g"}, {""}, HasDate, Digits(Size(IsoYear(fds.ymd)) % 100, 2))
Put_H == WritesSigned({"H"}, {"", "O"}, Digits(fds.tod.h, 2))
Put_I == WritesSigned({"I"}, {"", "O"}, Digits(make12(fds.tod.h), 2))
WholeDays == Quotient(to_duration(fds.tod, Frac), 86400 * Frac)
Put_j == Writes({"j"}, {""}, HasDate \/ fds.has_tod,
                IF HasDate THEN Digits(DayOfYear(fds.ymd), 3) ELSE Right(WholeDays, 3))
Put_m == Writes({"m"}, {"", "O"}, month_ok(fds.ymd.m), Digits(fds.ymd.m, 2))
Put_M == WritesSigned({"M"}, {"", "O"}, Digits(fds.tod.m, 2))
Put_n == Writes({"n"}, {""}, TRUE, <<"\n">>)
Put_p == Writes({"p"}, {""}, fds.has_tod, Names(Halves, IF fds.tod.h < 12 THEN 0 ELSE 1))
Put_Q == Writes({"Q"}, {""}, fds.has_tod, Internal(to_duration(fds.tod, Frac), 1))
Put_q == Writes({"q"}, {""}, fds.has_tod, <<"unit">>)
Put_R == Writes({"R"}, {""}, fds.has_tod,
                Digits(fds.tod.h, 2) \o <<":">> \o Digits(fds.tod.m, 2))
Seconds ==
    Digits(fds.tod.s.s, 2)
        \o IF FracWidth = 0 THEN <<>> ELSE <<".">> \o Digits(fds.tod.s.sub, FracWidth)
\* The facet is given whole seconds.
Put_S == WritesSigned({"S"}, {"", "O"}, IF modified = "" THEN Seconds ELSE Digits(fds.tod.s.s, 2))
Put_t == Writes({"t"}, {""}, TRUE, <<"\t">>)
Put_T == Writes({"T"}, {""}, fds.has_tod,
                (IF fds.tod.neg THEN <<"-">> ELSE <<>>)
                \o Digits(fds.tod.h, 2) \o <<":">> \o Digits(fds.tod.m, 2) \o <<":">> \o Seconds)
Put_u == Writes({"u"}, {"", "O"}, HasWeekday, Digits(iso_encoding(extract_weekday), 1))
Put_U == Writes({"U"}, {"", "O"}, HasDate, Digits(WeekOfYear(fds.ymd, 0), 2))
Put_V == Writes({"V"}, {"", "O"}, HasDate, Digits(IsoWeek(fds.ymd), 2))
\* Only %Ew, which is written as it is, needs a weekday nevertheless.
Put_w == Writes({"w"}, {"", "E", "O"}, HasWeekday,
                IF modified = "E" THEN <<"%", "E", "w">> ELSE Digits(extract_weekday, 1))
Put_W == Writes({"W"}, {"", "O"}, HasDate, Digits(WeekOfYear(fds.ymd, 1), 2))
Put_y == Writes({"y"}, {"", "E", "O"}, year_ok(fds.ymd.y), Digits((IF modified = "" THEN Size(fds.ymd.y) ELSE fds.ymd.y) % 100, 2))
Put_Y == Writes({"Y"}, {"", "E"}, year_ok(fds.ymd.y), Internal(fds.ymd.y, IF modified = "" THEN 4 ELSE 1))
Put_z == Writes({"z"}, {"", "E", "O"}, fds.utc,
                <<"+", "0", "0">> \o (IF modified = "" THEN <<>> ELSE <<":">>) \o <<"0", "0">>)
Put_Z == Writes({"Z"}, {""}, fds.utc, <<"UTC">>)

-----------------------------------------------------------------------------
Put_EO ==
    /\ Writing({"E", "O"}) /\ command /\ modified = ""
    /\ modified' = Char
    /\ Advance /\ UNCHANGED <<command, insert_negative, out, wfail>>
Put_percent ==
    /\ Writing({"%"})
    /\ Advance
    /\ IF command THEN EndCommand /\ Literally(IF modified = "" THEN <<"%">> ELSE <<"%", modified, "%">>)
       ELSE command' = TRUE /\ UNCHANGED <<modified, insert_negative, out, wfail>>

Conversions == {"a", "A", "b", "B", "h", "C", "d", "e", "D", "F", "g", "G", "H", "I", "j", "m",
                "M", "n", "p", "Q", "q", "R", "S", "t", "T", "u", "U", "V", "w", "W", "y", "Y",
                "z", "Z"}
\* What does not take a modifier is written as it is.
Put_modified ==
    \/ Unmodifiable({"a", "A", "b", "B", "h", "D", "F", "g", "G", "j", "n", "p", "Q", "q", "R",
                     "t", "T", "Z", "E", "O"}, {""})
    \/ Unmodifiable({"d", "e", "H", "I", "m", "M", "S", "u", "U", "V", "W"}, {"", "O"})
    \/ Unmodifiable({"C", "Y"}, {"", "E"})
Put_plain == Plain(Conversions \cup {"E", "O"})
Put_default ==
    /\ at <= Len(fmt) /\ fmt[at] \notin Conversions \cup {"E", "O", "%"} /\ ~wfail
    /\ Advance /\ EndCommand
    /\ Literally((IF command THEN <<"%">> ELSE <<>>)
                 \o (IF modified # "" THEN <<modified>> ELSE <<>>) \o <<Char>>)
\* The format has ended within a command.
Put_end ==
    /\ at > Len(fmt) /\ command /\ ~wfail
    /\ EndCommand
    /\ Literally(<<"%">> \o (IF modified # "" THEN <<modified>> ELSE <<>>))
    /\ UNCHANGED <<fmt, at, fds>>

Written == wfail \/ (at > Len(fmt) /\ ~command)
to_stream ==
    \/ Put_aA \/ Put_bBh \/ Put_C \/ Put_d \/ Put_e \/ Put_D \/ Put_F \/ Put_G \/ Put_g
    \/ Put_H \/ Put_I \/ Put_j \/ Put_m \/ Put_M \/ Put_n \/ Put_p \/ Put_Q \/ Put_q \/ Put_R
    \/ Put_S \/ Put_t \/ Put_T \/ Put_u \/ Put_U \/ Put_V \/ Put_w \/ Put_W \/ Put_y \/ Put_Y
    \/ Put_z \/ Put_Z \/ Put_EO \/ Put_percent \/ Put_modified \/ Put_plain \/ Put_default
    \/ Put_end
=============================================================================
