------------------------------ MODULE DateText ------------------------------
(* A value of date.h is written with a format (date::format), the text is   *)
(* perhaps damaged on its way, it is read with the same format              *)
(* (date::parse), and if it is accepted, what was read is written again.    *)
EXTENDS DateReader

CONSTANTS Requests,         \* what is written: [kind, fmt, value] records
          Damage            \* the text may be damaged: TRUE or FALSE

Kinds == {"year", "month", "day", "weekday", "year_month", "month_day", "year_month_day",
          "duration", "local_time", "sys_time"}
ASSUME RequestsAssumption ==
    \A r \in Requests : /\ r.kind \in Kinds /\ r.fmt \in Seq(STRING)
                        /\ r.value \in [ymd : [y : Int, m : Int, d : Int], wd : Int, n : Int]

VARIABLES phase,            \* "write", "sent", "read", "rewrite" or "done"
          request,          \* the one of Requests
          text,             \* the text that was written
          damaged,          \* it has been damaged
          taken,            \* the value that was read, NoValue if none
          fds, insert_negative, out, wfail      \* see DateWriter
vars == <<phase, request, text, damaged, taken, fmt, at, command, modified, width,
          fds, insert_negative, out, wfail, found, input, got>>

Writer == INSTANCE DateWriter

\* A value of every kind: the parts it does not have are not ok().
NoValue == [ymd |-> ymd(nanyear, 0, 0), wd |-> 8, n |-> 0]
HasTime(kind) == kind \in {"duration", "local_time", "sys_time"}

\* The fields that a value is written from.
FieldsOf(kind, v) ==
    [ymd |-> v.ymd, wd |-> v.wd, tod |-> hh_mm_ss(v.n, Frac), has_tod |-> HasTime(kind),
     utc |-> kind = "sys_time"]

\* The fields that must be found for a value of a kind, and what it takes of
\* them.  A year_month does not ask for its year.
Accepts(kind) ==
    /\ ~got.fail
    /\ kind = "year" => year_ok(got.ymd.y)
    /\ kind \in {"month", "year_month", "month_day"} => month_ok(got.ymd.m)
    /\ kind \in {"day", "month_day"} => day_ok(got.ymd.d)
    /\ kind = "weekday" => weekday_ok(got.wd)
    /\ kind = "year_month_day" => ymd_ok(got.ymd)
    /\ kind = "duration" => got.has_tod
    /\ kind \in {"local_time", "sys_time"}
          => ymd_ok(got.ymd) /\ in_conventional_range(got.tod, Frac)
Take(kind) ==
    LET t == got.ymd
        keepY == kind \in {"year", "year_month", "year_month_day"}
        keepM == kind \in {"month", "year_month", "month_day", "year_month_day"}
        keepD == kind \in {"day", "month_day", "year_month_day"}
        offset == IF kind = "sys_time" /\ got.offset # not_a.z THEN got.offset * 60 * Frac ELSE 0
        n == to_duration(got.tod, Frac) - offset
        whole == 86400 * Frac
    IN IF kind = "duration" THEN [NoValue EXCEPT !.n = n]
       ELSE IF kind = "weekday" THEN [NoValue EXCEPT !.wd = got.wd]
       ELSE IF HasTime(kind)
       THEN [NoValue EXCEPT !.ymd = from_days(to_days(t) + n \div whole), !.n = n % whole]
       ELSE [NoValue EXCEPT !.ymd = ymd(IF keepY THEN t.y ELSE nanyear, IF keepM THEN t.m ELSE 0,
                                        IF keepD THEN t.d ELSE 0)]

-----------------------------------------------------------------------------
Init ==
    /\ request \in Requests
    /\ fmt = request.fmt /\ fds = FieldsOf(request.kind, request.value)
    /\ insert_negative = (fds.has_tod /\ fds.tod.neg)
    /\ phase = "write" /\ at = 1 /\ command = FALSE /\ modified = ""
    /\ out = <<>> /\ wfail = FALSE
    /\ text = <<>> /\ damaged = FALSE /\ taken = NoValue
    /\ width = -1 /\ found = not_a /\ input = Input(<<>>) /\ got = Unread

Write ==
    /\ phase \in {"write", "rewrite"} /\ Writer!to_stream
    /\ UNCHANGED <<phase, request, text, damaged, taken, width, found, input, got>>

Sent ==
    /\ phase = "write" /\ Writer!Written
    /\ phase' = IF wfail THEN "done" ELSE "sent"
    /\ text' = out
    /\ UNCHANGED <<request, damaged, taken, fmt, at, command, modified, width, fds,
                   insert_negative, out, wfail, found, input, got>>

\* One digit of the text becomes another.
Slip ==
    /\ Damage /\ phase = "sent" /\ ~damaged
    /\ \E i \in 1..Len(text) :
          /\ IsDigit(text[i])
          /\ text' = [text EXCEPT ![i] = Digit[((DigitValue(@) + 1) % 10) + 1]]
    /\ damaged' = TRUE
    /\ UNCHANGED <<phase, request, taken, fmt, at, command, modified, width, fds,
                   insert_negative, out, wfail, found, input, got>>

Begin ==
    /\ phase = "sent"
    /\ phase' = "read" /\ at' = 1 /\ input' = Input(text)
    /\ UNCHANGED <<request, text, damaged, taken, fmt, command, modified, width, fds,
                   insert_negative, out, wfail, found, got>>

Read ==
    /\ phase = "read" /\ from_stream
    /\ UNCHANGED <<phase, request, text, damaged, taken, fds, insert_negative, out, wfail>>

Received ==
    /\ phase = "read" /\ got # Unread
    /\ IF Accepts(request.kind)
       THEN /\ phase' = "rewrite" /\ taken' = Take(request.kind)
            /\ fds' = FieldsOf(request.kind, taken')
            /\ insert_negative' = (fds'.has_tod /\ fds'.tod.neg)
            /\ at' = 1 /\ command' = FALSE /\ modified' = "" /\ width' = -1
            /\ out' = <<>> /\ wfail' = FALSE
            /\ UNCHANGED <<request, text, damaged, fmt, found, input, got>>
       ELSE /\ phase' = "done"
            /\ UNCHANGED <<request, text, damaged, taken, fmt, at, command, modified, width, fds,
                           insert_negative, out, wfail, found, input, got>>

Rewritten ==
    /\ phase = "rewrite" /\ Writer!Written
    /\ phase' = "done"
    /\ UNCHANGED <<request, text, damaged, taken, fmt, at, command, modified, width, fds,
                   insert_negative, out, wfail, found, input, got>>

Done == phase = "done" /\ UNCHANGED vars

Next == Write \/ Sent \/ Slip \/ Begin \/ Read \/ Received \/ Rewritten \/ Done
Spec == Init /\ [][Next]_vars

-----------------------------------------------------------------------------
Ended == phase = "done" /\ text # <<>> /\ ~wfail
Accepted == Ended /\ got # Unread /\ Accepts(request.kind)
Uses(chars) == \E i \in 1..Len(fmt) : fmt[i] \in chars
After2(c, d) == \E i \in 2..Len(fmt) : fmt[i-1] = c /\ fmt[i] = d

(* The streams carry what their commands make of them, what is still to be  *)
(* read is an end of the text, and a stream that has failed gives no value: *)
(* neither a text that does not follow the format nor fields that do not    *)
(* fit together.                                                            *)
TypeOK ==
    /\ phase \in {"write", "sent", "read", "rewrite", "done"}
    /\ request.kind \in Kinds /\ at \in 1..(Len(fmt) + 1)
    /\ command \in BOOLEAN /\ modified \in {"", "E", "O"} /\ (modified # "" => command)
    /\ width \in Nat \cup {-1} /\ (width # -1 => command)
    /\ {insert_negative, wfail, damaged, input.fail, input.eof} \subseteq BOOLEAN
    /\ \A i \in 1..Len(input.rest) :
          input.rest[i] = text[Len(text) - Len(input.rest) + i]
    /\ got = Unread \/ input.fail \/ got.fail => taken = NoValue

(* What a format writes it reads, and says again the same: the limits are   *)
(*   - years of more than four digits without a width, and negative ones    *)
(*     with %F (the fill is written before the sign), %D or %E; and of      *)
(*     those that end in 00, %Y and %y together, as %y is counted down from *)
(*     the century before;                                                  *)
(*   - durations that are negative, or longer than a day;                   *)
(*   - %I without %p, which forgets the half of the day, or, beside %H,     *)
(*     is compared with H + 12 where the hour is I + 12;                    *)
(*   - %e, whose space is only read after a white space of the format;      *)
(*   - what is read literally: %Q, %q, %OU, %OV, %OW, and what is written   *)
(*     literally: a width and %OC;                                          *)
(*   - dates that do not exist, which the parts of a format do not notice.  *)
SaysTheYear == request.kind \in {"year", "year_month", "year_month_day", "local_time", "sys_time"}
YearFits ==
    LET y == request.value.ymd.y
    IN \/ y \in 0..9999
       \/ y \in -9999..-1 /\ ~Uses({"F", "D", "E"}) /\ (Uses({"Y"}) /\ Uses({"y"}) => y % 100 # 0)
       \/ ~Uses({"Y", "y", "C", "F", "D", "G", "g"})
HourFits ==
    /\ request.value.n \in 0..(86400 * Frac - 1)
    /\ Uses({"I"}) /\ ~Uses({"p"}) => request.value.n < 43200 * Frac /\ Uses({"H", "T", "R"})
Readable ==
    /\ ~Uses({"Q", "q"} \cup Range(Digit))
    /\ \A c \in {"U", "V", "W", "C"} : ~After2("O", c)
    /\ request.kind = "year_month_day" => ymd_ok(request.value.ymd)
    /\ Uses({"e"}) => request.value.ymd.d >= 10 \/ \E i \in 3..Len(fmt) : fmt[i] = "e" /\ fmt[i-2] = " "
WrittenIsRead ==
    Ended /\ ~damaged /\ Readable /\ (HasTime(request.kind) => HourFits) /\ (SaysTheYear => YearFits)
        => Accepted /\ out = text

-----------------------------------------------------------------------------
(* Every field that was found is true of the date that is returned, however *)
(* redundant it was.  Not looked at are                                     *)
(*   - the century, if no year of two digits goes with it;                  *)
(*   - the year, if the day of the year lies beyond it;                     *)
(*   - the ISO year and week, if %U or %W and a weekday make the date, and  *)
(*     whether the ISO year has that many weeks, if they make it.           *)
Found(f) == Has(found, f)
Says(f, t) ==
    CASE f = "Y" -> t.y
      [] f = "y" -> Size(t.y) % 100
      [] f = "C" -> (IF Found("y") THEN t.y ELSE Writer!IsoYear(t)) \div 100
      [] f = "m" -> t.m
      [] f = "d" -> t.d
      [] f = "j" -> Writer!DayOfYear(t)
      [] f = "wd" -> weekday_from_days(to_days(t))
      [] f = "G" -> Writer!IsoYear(t)
      [] f = "g" -> Size(Writer!IsoYear(t)) % 100
      [] f = "V" -> Writer!IsoWeek(t)
      [] f = "U" -> Writer!WeekOfYear(t, 0)
      [] f = "W" -> Writer!WeekOfYear(t, 1)
ByWeek == Found("wd") /\ (Found("U") \/ Found("W"))
NoSuchWeek(t) == Found("V") /\ Found("wd") /\ found.V \notin 1..52 /\ found.V # Writer!IsoWeek(t)
NotLookedAt(f, t) ==
    \/ f = "C" /\ ~Found("y") /\ ~Found("g")
    \/ f = "j" /\ found.j \notin 1..(IF is_leap(t.y) THEN 366 ELSE 365)
    \/ f \in {"C", "G", "g", "V"} /\ (ByWeek \/ NoSuchWeek(t))
FoundIsTrue ==
    Accepted /\ request.kind \in {"year_month_day", "local_time", "sys_time"}
        => \A f \in {"Y", "y", "C", "m", "d", "j", "wd", "G", "g", "V", "U", "W"} :
              Found(f) => found[f] = Says(f, got.ymd) \/ NotLookedAt(f, got.ymd)

(* So is every field of the time, and it is a time of the day unless it is a *)
(* duration; the day of the year counts for the time if there is no year.    *)
(* Not looked at is the hour of twelve, if neither the half of the day nor   *)
(* the hour goes with it, and an hour that no int can hold, which only a     *)
(* width of ten digits lets in: if it becomes a negative one, so does the    *)
(* whole time.                                                               *)
TimeIsTrue ==
    Accepted /\ HasTime(request.kind) /\ (Found("H") => found.H >= 0) =>
        LET t == got.tod
            hour == t.h - (IF Found("j") /\ ~year_ok(got.ymd.y) THEN 24 * found.j ELSE 0)
        IN /\ Found("H") => hour = found.H
           /\ Found("M") => t.m = found.M
           /\ Found("s") => t.s.s * Frac + t.s.sub = found.s
           /\ Found("I") /\ (Found("p") \/ Found("H")) => make12(hour) = found.I
           /\ Found("I") /\ Found("p") => is_pm(hour) = (found.p = 1) /\ hour = make24(found.I, found.p = 1)
           /\ request.kind # "duration" => taken.n \in 0..(86400 * Frac - 1)
=============================================================================
