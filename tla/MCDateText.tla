----------------------------- MODULE MCDateText -----------------------------
EXTENDS DateText

Ask(kind, formats, values) == [kind : {kind}, fmt : formats, value : values]
Dated(dates) == {[NoValue EXCEPT !.ymd = t] : t \in dates}
\* The commands cs, with a separator between them.
By(sep, cs) == Tail(FlattenSeq([i \in 1..Len(cs) |-> <<sep, "%", cs[i]>>]))

\* A date said in each way there is, and once more by another field: at the
\* turn of a year, whose weeks belong to the next year or to the last one.
Turns == {ymd(2024, 2, 29), ymd(2024, 12, 30), ymd(2021, 1, 3), ymd(2023, 12, 31),
          ymd(1969, 1, 1), ymd(2016, 1, 1)}
Ways == {<<"%", "F">>, By("-", <<"Y", "j">>), By("-", <<"G", "V", "u">>), By(" ", <<"Y", "U", "w">>),
         By(" ", <<"Y", "W", "a">>), By("", <<"y", "C", "m", "d">>), <<"%", "D">>}
Again == {<<" ", "%", x>> : x \in {"a", "j", "V", "U", "W", "C", "y", "g", "G", "b", "d"}}

\* Years before 1, of three and of five digits.
FarOff == {ymd(0, 1, 1), ymd(-1, 12, 31), ymd(-100, 3, 1), ymd(-123, 1, 2), ymd(99, 12, 31),
           ymd(1234, 5, 6), ymd(12345, 1, 1), ymd(-32766, 1, 1), ymd(2023, 2, 29)}
\* Modifiers, widths, unknown commands, white space and other characters.
Modified == {<<"%", "E", "Y", " ", "%", "O", "m", "%", "O", "d">>, <<"%", "E", "y", "-", "%", "b", " ", "%", "e">>,
             By(" ", <<"Y", "y", "m", "d">>)}
Tails == {<<"%", "%">>, <<"%", "n">>, <<"%", "t", "-">>, <<"%", "t">>, <<"%", "E">>, <<"%">>,
          <<"%", "O", "%">>, <<"%", "O", "U">>, <<"%", "O", "V">>, <<"%", "O", "W">>, <<"%", "O", "y">>,
          <<"%", "E", "k">>, <<"%", "k">>, <<"Y">>, <<"%", "E", "O">>, <<"%", "5", "k">>,
          <<" ", " ", "x">>, <<"\n">>, <<"%", "2">>, <<"%", "5", "O", "y">>, <<"%", "1", "2", "Y">>,
          <<"%", "E", "d">>, <<"%", "O", "Y">>, <<"%", "E", "a">>, <<"%", "O", "C">>}

\* Midnight, noon, the afternoon, the last moment of a day.
Moments == {0, 467999, 540007, 863999}
Clocks == {By(":", <<"H", "M", "S">>), <<"%", "T">>, <<"%", "R">>, By(" ", <<"I", "M", "p">>),
           <<"%", "O", "H", "%", "O", "M", "%", "O", "S">>, By(" ", <<"H", "I">>), By(" ", <<"H", "I", "p">>),
           <<"%", "I">>, By(" ", <<"j", "T">>), By(" ", <<"T", "H">>)}
Zones == {<<>>, <<" ", "%", "z">>, <<" ", "%", "E", "z">>, <<"%", "Z">>}

MCRequests ==
    Ask("year_month_day", Ways \cup {w \o a : w \in Ways, a \in Again}, Dated(Turns))
    \cup Ask("year_month_day", Ways \cup Modified, Dated(FarOff))
    \cup Ask("year_month_day", {<<"%", "F">> \o t : t \in Tails}, Dated({ymd(2024, 2, 29)}))
    \cup Ask("duration", Clocks \cup {By("", <<"Q", "q">>)},
             {[NoValue EXCEPT !.n = n] : n \in Moments \cup {864000, 3600000, -1, -36000}})
    \cup Ask("sys_time", {<<"%", "F", " ">> \o c \o z : c \in Clocks, z \in Zones},
             {[NoValue EXCEPT !.ymd = ymd(2024, 2, 29), !.n = n] : n \in Moments})
    \cup Ask("local_time", {<<"%", "D", " ">> \o c \o z : c \in Clocks, z \in Zones},
             {[NoValue EXCEPT !.ymd = ymd(2024, 12, 31), !.n = n] : n \in {540007}})
    \cup Ask("year", {<<"%", "Y">>, By("", <<"C", "y">>), <<"%", "G">>},
             Dated({ymd(y, 0, 0) : y \in {2024, 0, -1, 5, nanyear}}))
    \cup Ask("month", {<<"%", "m">>, <<"%", "B">>}, Dated({ymd(nanyear, m, 0) : m \in {1, 12}}))
    \cup Ask("day", {<<"%", "d">>, <<"%", "e">>}, Dated({ymd(nanyear, 0, d) : d \in {1, 31}}))
    \cup Ask("weekday", {<<"%", "A">>, <<"%", "u">>, <<"%", "w">>, <<"%", "O", "w">>,
                      <<"%", "E", "w">>},
             {[NoValue EXCEPT !.wd = w] : w \in {0, 6, 8}})
    \cup Ask("year_month", {By("-", <<"Y", "m">>), By(" ", <<"b", "y">>), <<"%", "h">>},
             Dated({ymd(y, m, 0) : y \in {2024, -5}, m \in {1, 12}}))
    \cup Ask("month_day", {By("/", <<"m", "d">>), By(" ", <<"b", "e">>)}, Dated({ymd(nanyear, 2, 9)}))
=============================================================================
