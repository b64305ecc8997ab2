---------------------------- MODULE DateStream ----------------------------
(* The character streams date.h writes to and reads from.  A character is a *)
(* string: a digit, a sign, or a name that the locale's facets write and    *)
(* read as a whole.  An input stream is what is left of its text and its    *)
(* failbit and eofbit.                                                      *)
EXTENDS Date, SequencesExt

Digit == <<"0", "1", "2", "3", "4", "5", "6", "7", "8", "9">>
IsDigit(c) == c \in Range(Digit)
DigitValue(c) == (CHOOSE i \in 1..10 : Digit[i] = c) - 1
Number(s) ==
    LET upTo[n \in 0..Len(s)] == IF n = 0 THEN 0 ELSE 10 * upTo[n - 1] + DigitValue(s[n])
    IN upTo[Len(s)]
\* 10 to the n-th.
Ten(n) == LET power[k \in 0..n] == IF k = 0 THEN 1 ELSE 10 * power[k - 1] IN power[n]

Size(n) == IF n < 0 THEN -n ELSE n
\* An int of 32 bits.
AsInt(n) ==
    IF Size(n) <= 2147483647 THEN n
    ELSE ((n + 32768 * 65536) % (65536 * 65536)) - 32768 * 65536

\* n >= 0 in decimal, filled up on the left to a width of w.
Filled(n, w, fill) ==
    LET k == CHOOSE k \in 1..(Size(n) + 1) : Ten(k) > n /\ (k = 1 \/ Ten(k - 1) <= n)
        r == IF w > k THEN w ELSE k
    IN [i \in 1..r |-> IF i <= r - k THEN fill ELSE Digit[((n \div Ten(r - i)) % 10) + 1]]
Digits(n, w) == Filled(n, w, "0")
Sign(n) == IF n < 0 THEN <<"-">> ELSE <<>>

\* Formatted output with std::ios::internal, and with std::ios::right, which
\* fills up before the sign.
Internal(n, w) == Sign(n) \o Digits(Size(n), w)
Right(n, w) ==
    IF n >= 0 THEN Digits(n, w)
    ELSE LET s == Internal(n, 1)
         IN [i \in 1..(w - Len(s)) |-> "0"] \o s

Names(kind, n) == <<kind[n + 1]>>
Weekdays == <<"Sun", "Mon", "Tue", "Wed", "Thu", "Fri", "Sat">>
Months == <<"Jan", "Feb", "Mar", "Apr", "May", "Jun", "Jul", "Aug", "Sep", "Oct", "Nov", "Dec">>
Halves == <<"AM", "PM">>

-----------------------------------------------------------------------------
Input(text) == [rest |-> text, fail |-> FALSE, eof |-> FALSE]
Failed(st) == [st EXCEPT !.fail = TRUE]
Good(st) == ~st.fail /\ ~st.eof
AtEnd(st) == st.rest = <<>>
Drop(st, n) == [st EXCEPT !.rest = SubSeq(@, n + 1, Len(@))]
\* peek() at the end sets the eofbit.
Peeked(st) == IF AtEnd(st) THEN [st EXCEPT !.eof = TRUE] ELSE st

\* read(is, CharT)
read_char(st, c) ==
    IF st.fail THEN st
    ELSE IF AtEnd(st) THEN [st EXCEPT !.fail = TRUE, !.eof = TRUE]
    ELSE IF Head(st.rest) # c THEN Failed(st)
    ELSE Drop(st, 1)
\* One after the other.
read_chars(st, cs) ==
    LET upTo[n \in 0..Len(cs)] == IF n = 0 THEN st ELSE read_char(upTo[n - 1], cs[n])
    IN upTo[Len(cs)]

\* The characters of a set in front of the stream, at most M of them.
Prefix(st, C(_), M) ==
    LET long == {n \in 1..Len(st.rest) : n <= M /\ \A i \in 1..n : C(st.rest[i])}
    IN SubSeq(st.rest, 1, IF long = {} THEN 0 ELSE Max(long))
\* A character is counted before the count is compared with M: 0 is no limit
\* but for a text that is longer than any here.
Limit(M) == IF M = 0 THEN 2147483647 ELSE M
After(st, n, m, M) ==
    LET rest == Drop(st, n)
        seen == IF n < Limit(M) THEN Peeked(rest) ELSE rest
    IN IF n < m THEN Failed(seen) ELSE seen

read_unsigned(st, m, M) ==
    IF st.fail THEN [st |-> st, x |-> 0]
    ELSE LET p == Prefix(st, IsDigit, Limit(M))
         IN [st |-> After(st, Len(p), m, M), x |-> AsInt(Number(p))]

read_signed(st, m, M) ==
    IF st.fail THEN [st |-> st, x |-> 0]
    ELSE IF AtEnd(st) \/ ~(IsDigit(Head(st.rest)) \/ Head(st.rest) \in {"-", "+"})
         THEN [st |-> Failed(Peeked(st)), x |-> 0]
    ELSE LET c == Head(st.rest)
             r == read_unsigned(IF IsDigit(c) THEN st ELSE Drop(st, 1), m, M)
         IN IF r.st.fail THEN [r EXCEPT !.x = 0]
            ELSE IF c = "-" THEN [r EXCEPT !.x = AsInt(-@)] ELSE r

\* A number of seconds, rounded to units of 1/10^w: one decimal point is part
\* of it.
read_seconds(st, w, M) ==
    IF st.fail THEN [st |-> st, x |-> 0]
    ELSE LET p == Prefix(st, LAMBDA c : IsDigit(c) \/ c = ".", Limit(M))
             points == {i \in 1..Len(p) : p[i] = "."}
             dot == Min(points \cup {Len(p) + 1})
             n == Min((points \ {dot}) \cup {Len(p) + 1}) - 1
             decimals == SubSeq(p, dot + 1, n)
             unit == Ten(Len(decimals))
             x == Number(SubSeq(p, 1, dot - 1) \o decimals) * Ten(w)
             q == x \div unit
             twice == 2 * (x % unit)
         IN [st |-> After(st, n, 1, M),
             x |-> IF twice > unit \/ (twice = unit /\ q % 2 = 1) THEN q + 1 ELSE q]

-----------------------------------------------------------------------------
\* A field that is found twice must be found with the same value.
checked_set(fd, f, x, not_a, st) ==
    IF st.fail THEN [fd |-> fd, st |-> st]
    ELSE IF fd[f] = not_a[f] THEN [fd |-> [fd EXCEPT ![f] = x], st |-> st]
    ELSE [fd |-> fd, st |-> IF fd[f] = x THEN st ELSE Failed(st)]
=============================================================================
