---------------------------- MODULE MCCalendar ----------------------------
EXTENDS Calendar

\* A whole era from 1600-03-01, in steps of five years that are walked side by
\* side, the turn of the years 0 and 1, and the first and the last days whose
\* year a short can hold.
MCWalks == {<<-135080 + 1826 * i, -133254 + 1826 * i>> : i \in 0..80}
           \cup {<<-719900, -719000>>, <<-12687428, -12686700>>, <<11248000, 11248737>>}
MCShifts == {-25, 1, 11}
=============================================================================
