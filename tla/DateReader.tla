---------------------------- MODULE DateReader ----------------------------
(* from_stream of date.h: the format that to_stream interprets, read        *)
(* backwards.  What the commands find is collected in fields, in any order  *)
(* and with repetitions; in the end a date and a time are made of them, if  *)
(* they fit together.                                                       *)
EXTENDS DateStream

CONSTANTS FracWidth,        \* the digits of a fraction of a second
          PmHour            \* the hour the time_get facet makes of 1 when it reads PM by itself

ASSUME DigitsAssumption == FracWidth \in Nat /\ PmHour \in Int

Frac == Ten(FracWidth)

VARIABLES fmt, at, command, modified,   \* as in DateWriter
          width,                        \* the width of the command, -1 if none
          found,                        \* the fields, not_a[f] if not found
          input,                        \* the input stream
          got                           \* the fields<Duration> that are returned
rvars == <<fmt, at, command, modified, width, found, input, got>>

MinInt == -2147483647 - 1
not_a == [Y |-> -32768, y |-> 100, g |-> 100, G |-> -32768, C |-> -327, m |-> 0, d |-> 0,
          j |-> -1, wd |-> 8, H |-> MinInt, I |-> 0, p |-> -1, M |-> MinInt, s |-> MinInt,
          U |-> 100, V |-> 100, W |-> 100, z |-> MinInt, Z |-> <<>>]
Has(fd, f) == fd[f] # not_a[f]

-----------------------------------------------------------------------------
Reading(chars) == at <= Len(fmt) /\ fmt[at] \in chars /\ ~input.fail
Char == fmt[at]
Advance == at' = at + 1 /\ UNCHANGED <<fmt, got>>
EndCommand == command' = FALSE /\ modified' = "" /\ width' = -1
Optional(c) == IF c = "" THEN <<>> ELSE <<c>>
WidthDigits == IF width = -1 THEN <<>> ELSE Digits(width, 1)
Width(n) == IF width = -1 THEN n ELSE width

Plain(chars) ==
    /\ Reading(chars) /\ ~command
    /\ Advance /\ input' = read_char(input, Char)
    /\ UNCHANGED <<command, modified, width, found>>
Unmodifiable(chars, mods) ==
    /\ Reading(chars) /\ command /\ modified \notin mods
    /\ Advance /\ EndCommand
    /\ input' = read_chars(input, <<"%">> \o WidthDigits \o <<modified, Char>>)
    /\ UNCHANGED found

\* A command reads from the stream and sets fields: s is [fd, st].
Reads(chars, mods, s) ==
    /\ Reading(chars) /\ command /\ modified \in mods
    /\ Advance /\ EndCommand
    /\ found' = s.fd /\ input' = s.st
Set(f, r) == checked_set(found, f, r.x, not_a, r.st)
AndSet(s, f, x) == checked_set(s.fd, f, x, not_a, s.st)

\* A name is read as a whole by the time_get facet.
read_name(names) ==
    IF input.fail \/ AtEnd(input) \/ Head(input.rest) \notin Range(names)
    THEN [st |-> Failed(input), x |-> 0]
    ELSE [st |-> Drop(input, 1), x |-> (CHOOSE i \in 1..Len(names) : names[i] = Head(input.rest)) - 1]
FailUnless(r, ok) == IF ok THEN r ELSE [r EXCEPT !.st = Failed(@)]
\* Numbers with separators between them: from one, read_char(s) and the next.
Next2(st, c, M) == read_unsigned(read_char(st, c), 1, M)
SecondsWidth == IF FracWidth = 0 THEN 2 ELSE 3 + FracWidth

\* With a modifier the facet reads a number, within the range of its tm.
facet(n, range) ==
    LET r == read_unsigned(input, 1, n)
    IN FailUnless([r EXCEPT !.st = Peeked(@)], r.x \in range)

Get_aA == Reads({"a", "A"}, {""}, Set("wd", read_name(Weekdays)))
Get_uw ==
    Reads({"u", "w"}, {"", "O"},
          LET r == IF modified = "" THEN read_unsigned(input, 1, Width(1)) ELSE facet(1, 0..7)
          IN IF Char = "u" THEN Set("wd", FailUnless([r EXCEPT !.x = IF @ = 7 THEN 0 ELSE @], r.x \in 1..7))
             ELSE Set("wd", FailUnless(r, r.x \in 0..6)))
Get_bBh == Reads({"b", "B", "h"}, {""}, LET r == read_name(Months) IN Set("m", [r EXCEPT !.x = @ + 1]))
Get_C == Reads({"C"}, {"", "E", "O"}, Set("C", IF modified = "" THEN read_signed(input, 1, Width(2)) ELSE facet(2, 0..99)))
Get_D ==
    Reads({"D"}, {""},
          LET m == read_unsigned(input, 1, 2)
              d == Next2(m.st, "/", 2)
              y == read_signed(read_char(d.st, "/"), 1, 2)
          IN AndSet(AndSet(Set("y", y), "m", m.x), "d", d.x))
Get_F ==
    Reads({"F"}, {""},
          LET y == read_signed(input, 1, Width(4))
              m == Next2(y.st, "-", 2)
              d == Next2(m.st, "-", 2)
          IN AndSet(AndSet(Set("Y", [st |-> d.st, x |-> y.x]), "m", m.x), "d", d.x))
Get_de == Reads({"d", "e"}, {"", "O"}, Set("d", IF modified = "" THEN read_signed(input, 1, Width(2)) ELSE facet(2, 1..31)))
Get_H == Reads({"H"}, {"", "O"}, Set("H", IF modified = "" THEN read_unsigned(input, 1, Width(2)) ELSE facet(2, 0..23)))
Get_I == Reads({"I"}, {""}, LET r == read_signed(input, 1, Width(2)) IN Set("I", FailUnless(r, r.x \in 1..12)))
Get_j == Reads({"j"}, {""}, Set("j", read_unsigned(input, 1, Width(3))))
Get_M == Reads({"M"}, {"", "O"}, Set("M", IF modified = "" THEN read_unsigned(input, 1, Width(2)) ELSE facet(2, 0..59)))
Get_m == Reads({"m"}, {"", "O"}, Set("m", IF modified = "" THEN read_signed(input, 1, Width(2)) ELSE facet(2, 1..12)))
\* The facet reads AM or PM into a tm whose hour is 1: 13 is PM.
Get_p ==
    Reads({"p"}, {""},
          LET r == read_name(Halves)
              hour == IF r.x = 1 THEN PmHour ELSE 1
          IN Set("p", [r EXCEPT !.x = IF hour = 1 THEN 0 ELSE IF hour = 13 THEN 1 ELSE not_a.p]))
Get_R ==
    Reads({"R"}, {""},
          LET h == read_unsigned(input, 1, 2)
              m == Next2(h.st, ":", 2)
          IN AndSet(Set("H", [st |-> m.st, x |-> h.x]), "M", m.x))
Get_S ==
    Reads({"S"}, {"", "O"},
          Set("s", IF modified = "" THEN read_seconds(input, FracWidth, Width(SecondsWidth))
                   ELSE LET r == facet(2, 0..60) IN [r EXCEPT !.x = @ * Frac]))
Get_T ==
    Reads({"T"}, {""},
          LET h == read_unsigned(input, 1, 2)
              m == Next2(h.st, ":", 2)
              s == read_seconds(read_char(m.st, ":"), FracWidth, SecondsWidth)
          IN AndSet(AndSet(Set("H", [st |-> s.st, x |-> h.x]), "M", m.x), "s", s.x))
FacetYears == 0..9999
Get_Y ==
    Reads({"Y"}, {"", "E"},
          Set("Y", IF modified = "" THEN read_signed(input, 1, Width(4)) ELSE facet(4, FacetYears)))
\* With a modifier it is the whole year that is set.
Get_y ==
    Reads({"y"}, {"", "E", "O"},
          IF modified = "" THEN Set("y", read_unsigned(input, 1, Width(2)))
          ELSE LET r == facet(2, 0..99)
               IN Set("Y", [r EXCEPT !.x = @ + (IF @ >= 69 THEN 1900 ELSE 2000)]))
Get_g == Reads({"g"}, {""}, Set("g", read_unsigned(input, 1, Width(2))))
Get_G == Reads({"G"}, {""}, Set("G", read_signed(input, 1, Width(4))))
Get_U == Reads({"U"}, {""}, Set("U", read_unsigned(input, 1, Width(2))))
Get_V == Reads({"V"}, {""}, Set("V", read_unsigned(input, 1, Width(2))))
Get_W == Reads({"W"}, {""}, Set("W", read_unsigned(input, 1, Width(2))))

\* The sign of an offset counts for its minutes too; they may be left out.
read_offset ==
    LET neg == ~AtEnd(input) /\ Head(input.rest) = "-"
        h == read_signed(input, IF modified = "" THEN 2 ELSE 1, 2)
        st == IF Good(h.st) THEN Peeked(h.st) ELSE h.st
        more == Good(st) /\ IF modified = "" THEN IsDigit(Head(st.rest)) ELSE Head(st.rest) = ":"
        m == IF more THEN read_unsigned(IF modified = "" THEN st ELSE Drop(st, 1), 2, 2)
             ELSE [st |-> st, x |-> 0]
        minutes == Size(h.x) * 60 + m.x
    IN [st |-> m.st, x |-> IF neg THEN -minutes ELSE minutes]
Get_z == Reads({"z"}, {"", "E", "O"}, Set("z", read_offset))
Get_Z ==
    Reads({"Z"}, {""},
          LET zone(c) == IsDigit(c) \/ c \in {"UTC", "/", "-", "+"} \cup Range(Weekdays) \cup Range(Months) \cup Range(Halves)
              p == IF Good(input) THEN Prefix(input, zone, Len(input.rest)) ELSE <<>>
          IN Set("Z", [st |-> After(input, Len(p), 1, Len(p) + 1), x |-> p]))

-----------------------------------------------------------------------------
IsSpace(c) == c \in {" ", "\n", "\t"}
\* %n is one white space character, %t is one or none.  At the end of the text
\* the command is not ended.
Get_nt ==
    /\ Reading({"n", "t"}) /\ command /\ modified = ""
    /\ Advance /\ UNCHANGED found
    /\ IF AtEnd(input) \/ ~Good(input)
       THEN /\ input' = IF Char = "n" \/ ~Good(input) THEN Failed(Peeked(input)) ELSE Peeked(input)
            /\ UNCHANGED <<command, modified, width>>
       ELSE /\ input' = IF IsSpace(Head(input.rest)) THEN Drop(input, 1)
                        ELSE IF Char = "n" THEN Failed(input) ELSE input
            /\ EndCommand
Get_EO ==
    /\ Reading({"E", "O"}) /\ command /\ modified = ""
    /\ Advance /\ modified' = Char /\ UNCHANGED <<command, width, found, input>>
Get_percent ==
    /\ Reading({"%"})
    /\ Advance /\ UNCHANGED found
    /\ IF command
       THEN /\ EndCommand
            /\ input' = read_chars(input, IF modified = "" THEN <<"%">>
                                          ELSE <<"%">> \o WidthDigits \o <<modified, "%">>)
       ELSE command' = TRUE /\ UNCHANGED <<modified, width, input>>

Conversions == {"a", "A", "b", "B", "h", "C", "d", "e", "D", "F", "g", "G", "H", "I", "j", "m",
                "M", "n", "p", "R", "S", "t", "T", "u", "U", "V", "w", "W", "y", "Y", "z", "Z"}
Get_modified ==
    \/ Unmodifiable({"a", "A", "b", "B", "h", "D", "F", "g", "G", "I", "j", "n", "p", "R", "t",
                     "T", "U", "V", "W", "Z", "E", "O"}, {""})
    \/ Unmodifiable({"d", "e", "H", "m", "M", "S", "u", "w"}, {"", "O"})
    \/ Unmodifiable({"Y"}, {"", "E"})
Get_plain == Plain(Conversions \cup {"E", "O"})

Other == at <= Len(fmt) /\ fmt[at] \notin Conversions \cup {"E", "O", "%"} /\ ~input.fail
\* All the digits of a width are taken at once.
Get_width ==
    /\ Other /\ command /\ width = -1 /\ modified = "" /\ IsDigit(Char)
    /\ LET rest == SubSeq(fmt, at, Len(fmt))
           digits == Prefix(Input(rest), IsDigit, Len(rest))
       IN width' = Number(digits) /\ at' = at + Len(digits)
    /\ UNCHANGED <<fmt, got, command, modified, found, input>>
Get_unknown ==
    /\ Other /\ command /\ ~(width = -1 /\ modified = "" /\ IsDigit(Char))
    /\ Advance /\ EndCommand
    /\ input' = read_chars(input, <<"%">> \o WidthDigits \o Optional(modified) \o <<Char>>)
    /\ UNCHANGED found
\* A white space in the format is any number of them in the text.
Get_literal ==
    /\ Other /\ ~command
    /\ Advance /\ UNCHANGED <<command, modified, width, found>>
    /\ input' = IF ~IsSpace(Char) THEN read_char(input, Char)
                ELSE IF Good(input)
                THEN LET n == Len(Prefix(input, IsSpace, Len(input.rest)))
                     IN IF n = Len(input.rest) THEN Peeked(Drop(input, n)) ELSE Drop(input, n)
                ELSE input
\* The format has ended within a command.
Get_end ==
    /\ at > Len(fmt) /\ command /\ Good(input)
    /\ input' = read_chars(input, <<"%">> \o WidthDigits \o Optional(modified))
    /\ EndCommand /\ UNCHANGED <<fmt, at, found, got>>

-----------------------------------------------------------------------------
(* What was found is made to fit together: f are the fields, ok says that   *)
(* they do (it is the code's goto broken that they do not), computed that a *)
(* week and its day have given the date.                                    *)
Need(f, cond) == [f EXCEPT !.ok = @ /\ cond]

\* The year of two digits and the century; without one it is 1969 to 2068.
\* Fault: the years of two digits begin with 70.
Century_From70(f, two, full) ==
    IF Has(f, "C") THEN f.C ELSE IF f[two] > 69 THEN 19 ELSE 20

Century(f, two, full) ==
    IF Has(f, "C") THEN f.C
    ELSE IF Has(f, full) THEN Quotient(IF f[full] >= 0 THEN f[full] ELSE f[full] - 100, 100)
    ELSE IF f[two] >= 69 THEN 19 ELSE 20
JoinYear(c, y) == IF c >= 0 THEN 100 * c + y ELSE 100 * (c + 1) - (IF y = 0 THEN 100 ELSE y)
FitYear(f, two, full) ==
    IF ~Has(f, two) THEN f
    ELSE LET c == Century(f, two, full)
             y == JoinYear(c, f[two])
         IN Need([f EXCEPT !.C = c, ![full] = y],
                 f[two] \in 0..99 /\ (Has(f, full) => f[full] = y))
LimitYear(f) == IF f.Y \in MinYear..MaxYear THEN f ELSE [f EXCEPT !.Y = not_a.Y]

FitPart(f, part, have, x) ==
    IF Has(f, part) THEN Need(f, have = x) ELSE [f EXCEPT ![part] = x]
FitMonthDay(f, t) == FitPart(FitPart(f, "m", month(f.m), t.m), "d", day(f.d), t.d)
FitDate(f, t) == [FitMonthDay(FitPart(f, "Y", year(f.Y), t.y), t) EXCEPT !.computed = TRUE]

FitIsoWeek(f) ==
    IF Has(f, "G") /\ Has(f, "V") /\ Has(f, "wd")
    THEN FitDate(f, from_days(IsoStart(f.G) + 7 * (f.V - 1) + weekday_minus(f.wd, 1)))
    ELSE f
\* Week U begins with Sunday, w = 0, and week W with Monday, w = 1.
FitWeek(f, week, w) ==
    IF Has(f, "Y") /\ Has(f, week) /\ Has(f, "wd")
    THEN FitDate(f, from_days(FirstWeek(year(f.Y), w) + 7 * (f[week] - 1) + weekday_minus(f.wd, w)))
    ELSE f
\* Of the day of the year, the month and the day must fit, the year need not.
FitDayOfYear(f) ==
    IF Has(f, "j") /\ Has(f, "Y")
    THEN [FitMonthDay(f, from_days(to_days(ymd(year(f.Y), 1, 1)) + f.j - 1)) EXCEPT !.j = not_a.j]
    ELSE f
DateOf(f) == ymd(year(f.Y), month(f.m), day(f.d))

CheckWeekday(f) ==
    LET w == weekday_from_days(to_days(DateOf(f)))
    IN IF Has(f, "wd") THEN Need(f, f.wd = w) ELSE [f EXCEPT !.wd = w]
\* Fault: the ISO year is that of the date.
CheckIsoWeek_SameYear(f) ==
    LET n == to_days(DateOf(f))
    IN Need(f, /\ Has(f, "G") => f.G = f.Y
               /\ Has(f, "V") => f.V = Quotient(n - IsoStart(f.Y), 7) + 1)

CheckIsoWeek(f) ==
    IF ~(Has(f, "G") \/ Has(f, "V")) THEN f
    ELSE LET n == to_days(DateOf(f))
             trial == from_days(n + 3).y
             G == IF n < IsoStart(trial) THEN year_plus(trial, -1) ELSE trial
         IN Need(f, /\ Has(f, "G") => f.G = G
                    /\ Has(f, "V") => f.V = Quotient(n - IsoStart(G), 7) + 1)
CheckWeek(f, week, w) ==
    Need(f, Has(f, week)
              => f[week] = (to_days(DateOf(f)) - FirstWeek(DateOf(f).y, w)) \div 7 + 1)
CheckDate(f) ==
    IF ~ymd_ok(DateOf(f)) THEN f
    ELSE LET h == CheckWeekday(f)
         IN IF h.computed THEN h
            ELSE CheckWeek(CheckWeek(CheckIsoWeek(h), "U", 0), "W", 1)

\* The hour of twelve, with the half of the day or only beside the hour: then
\* I must be H or H + 12, which leaves the hours of the afternoon out.
\* Fault: twelve is an hour like the others.
FitHour_TwelveIsNoon(f) ==
    IF Has(f, "I") /\ Has(f, "p") THEN FitPart(f, "H", f.H, f.I + 12 * f.p) ELSE f

FitHour(f) ==
    IF ~Has(f, "I") THEN f
    ELSE LET h == Need(f, f.I \in 1..12)
             full == f.I + 12 * (IF f.I = 12 THEN f.p - 1 ELSE f.p)
         IN IF Has(f, "p")
            THEN FitPart(h, "H", f.H, full)
            ELSE Need(h, Has(f, "H") => f.H \in IF f.I = 12 THEN {0, 12} ELSE {f.I, f.I - 12})

NoTime == hh_mm_ss(0, Frac)
TimeOf(f) ==
    LET t == IF Has(f, "H") THEN hh_mm_ss(f.H * 3600 * Frac, Frac) ELSE NoTime
    IN [t EXCEPT !.h = @ + (IF Has(f, "j") THEN 24 * f.j ELSE 0),
                 !.m = IF Has(f, "M") THEN f.M ELSE @,
                 !.s = IF Has(f, "s") THEN decimal_format_seconds(f.s, Frac) ELSE @]
Collected ==
    [f \in DOMAIN not_a \cup {"ok", "computed"} |-> IF f \in DOMAIN not_a THEN found[f] ELSE f = "ok"]
Fitted ==
    LET years == LimitYear(FitYear(FitYear(Collected, "y", "Y"), "g", "G"))
        weeks == FitWeek(FitWeek(FitIsoWeek(years), "U", 0), "W", 1)
    IN FitHour(CheckDate(FitDayOfYear(weeks)))

\* Fields that nothing is read into, or that do not fit together.
Nothing == [ymd |-> ymd(nanyear, 0, 0), wd |-> 8, tod |-> NoTime, has_tod |-> FALSE,
            offset |-> not_a.z, fail |-> TRUE]
Unread == [Nothing EXCEPT !.fail = FALSE]
\* The loop is over: at the end of the format, or as the stream has failed.
Stopped == input.fail \/ (at > Len(fmt) /\ ~(command /\ Good(input)))
\* Fault: what was found of a text that cannot be read is returned.
Outcome_FailedToo ==
    LET f == Fitted
    IN IF ~f.ok THEN Nothing
       ELSE [ymd |-> DateOf(f), wd |-> weekday(f.wd), tod |-> TimeOf(f),
             has_tod |-> \E x \in {"H", "M", "s", "j"} : Has(f, x),
             offset |-> f.z, fail |-> FALSE]

Outcome ==
    LET f == Fitted
    IN IF input.fail \/ ~f.ok THEN Nothing
       ELSE [ymd |-> DateOf(f), wd |-> weekday(f.wd), tod |-> TimeOf(f),
             has_tod |-> \E x \in {"H", "M", "s", "j"} : Has(f, x),
             offset |-> f.z, fail |-> FALSE]
Get_fields ==
    /\ got = Unread /\ Stopped /\ got' = Outcome
    /\ UNCHANGED <<fmt, at, command, modified, width, found, input>>

from_stream ==
    \/ Get_aA \/ Get_uw \/ Get_bBh \/ Get_C \/ Get_D \/ Get_F \/ Get_de \/ Get_H \/ Get_I
    \/ Get_j \/ Get_M \/ Get_m \/ Get_p \/ Get_R \/ Get_S \/ Get_T \/ Get_Y \/ Get_y \/ Get_g
    \/ Get_G \/ Get_U \/ Get_V \/ Get_W \/ Get_z \/ Get_Z \/ Get_nt \/ Get_EO \/ Get_percent
    \/ Get_modified \/ Get_plain \/ Get_width \/ Get_unknown \/ Get_literal \/ Get_end
    \/ Get_fields
=============================================================================
