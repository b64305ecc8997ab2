---------------------------- MODULE RecordParser ----------------------------
(***************************************************************************)
(* parse_ignoring: the grammar of parser.h applied to one line, and the    *)
(* record that goes to the script, filled or not.                          *)
(*                                                                         *)
(* A rule takes a position in the line and gives the one after what it has *)
(* matched, Failed if it does not match, and what it has written into its  *)
(* attribute by then, which a failure does not take back.  Of the record,  *)
(* the model has what make_log_binding shows to the script.                *)
(***************************************************************************)
EXTENDS CombatLog, FiniteSetsExt

VARIABLES
  entry,   \* what the game has written, or meant to write
  damage,  \* the token of it that is missing or wrong, 0 for none
  line,    \* what the reader has read
  rule,    \* the part of rule line that is next
  first,   \* position in the line
  records, \* the record in the making
  result   \* of parse_ignoring

vars == <<entry, damage, line, rule, first, records, result>>

Failed == 0

\* Record's members after default-initialisation, and after {}.
Fields(x, b) ==
  [who     |-> [is_player |-> FALSE, name |-> <<>>],
   target  |-> [is_player |-> FALSE, name |-> <<>>],
   ability |-> [name |-> <<>>, id |-> x],
   type    |-> [name |-> <<>>, id |-> x],
   action  |-> [name |-> <<>>, id |-> x],
   amount  |-> [value |-> x, is_critical |-> b]]
Default == Fields(Unset, Unset)
Zeroed  == Fields("0", FALSE)

Numbers == {Small, Big}

-----------------------------------------------------------------------------
(* Parsers                                                                 *)

At(i) == IF i \in 1..Len(line) THEN line[i] ELSE "end"

\* 'c'; what follows something that has failed fails.
Lit(c, i) == IF At(i) = c THEN i + 1 ELSE Failed

\* *(char_ - stops): up to the first of them, or the end of the line.
Until(stops, i) == Min({j \in i..(Len(line) + 1) : At(j) \in stops \cup {"end"}})

Chars(i, j) == SubSeq(line, i, j - 1)

id(i) == IF At(i) = "lbrace" /\ At(i + 1) \in Numbers /\ At(i + 2) = "rbrace" THEN i + 3 ELSE Failed

\* The number of an id that ends before i.
IdBefore(i) == At(i - 2)

\* Fault: a name ends at a colon.
name_Colon(i) == Until({"lbrace", "]", ":"}, i)

name(i) == Until({"lbrace", "]"}, i)

NameId(i) == id(name(i))

\* The first of two positions that has not failed.
Else(i, j) == IF i # Failed THEN i ELSE j

\* a || b: a and then, perhaps, b; or b.
character(i, attr) ==
  LET open  == Lit("[", i)
      start == Else(Lit("@", open), open)
      end   == name(start)
      long  == IF At(id(end)) = ":" /\ At(id(end) + 1) \in Numbers THEN id(end) + 2 ELSE Failed
      either == IF long # Failed THEN Else(NameId(long), long) ELSE Else(NameId(end), end)
  IN IF open = Failed
     THEN [first |-> Failed, attr |-> attr]
     ELSE [first |-> Lit("]", either),
           attr  |-> [is_player |-> start # open, name |-> Chars(start, end)]]

\* An optional part writes all of its attribute or nothing.
ability(i, attr) ==
  LET open == Lit("[", i)
      end  == NameId(open)
  IN IF open = Failed \/ end = Failed
     THEN [first |-> Lit("]", open), attr |-> attr]
     ELSE [first |-> Lit("]", end),
           attr  |-> [name |-> Chars(open, name(open)), id |-> IdBefore(end)]]

\* A sequence has written the name when its id fails.
Pair(start, end, attr) ==
  [first |-> id(end),
   attr  |-> [name |-> Chars(start, end),
              id   |-> IF id(end) = Failed THEN attr.id ELSE IdBefore(id(end))]]

type(i, attr) ==
  LET start == Lit("[", i)
  IN IF start = Failed THEN [first |-> Failed, attr |-> attr]
     ELSE Pair(start, Until(Tokens \ {Word}, start), attr)

action(i, attr) ==
  LET start == Lit("colon_blank", i)
      pair  == Pair(start, Until({"lbrace"}, start), attr)
  IN IF start = Failed THEN [first |-> Failed, attr |-> attr]
     ELSE [pair EXCEPT !.first = Lit("]", @)]

\* *(as_string[+(char_ - '{')] >> id)
AmountTypes[i \in Nat] ==
  LET end == Until({"lbrace"}, i)
  IN IF end > i /\ id(end) # Failed THEN AmountTypes[id(end)] ELSE i

amount(i, attr) ==
  LET open   == Lit("(", i)
      star   == Lit("*", open + 1)
      number == open # Failed /\ At(open) = Small
      end    == IF number THEN AmountTypes[Else(star, open + 1)] ELSE open
  IN [first |-> IF open = Failed THEN Failed ELSE Lit(")", Until({")"}, end)),
      attr  |-> IF number THEN [value |-> Small, is_critical |-> star # Failed] ELSE attr]

\* The parsers of rule line, in the record's order.
Parse(part, i) ==
  CASE part = "ability" -> ability(i, records.ability)
    [] part = "type"    -> type(i, records.type)
    [] part = "action"  -> action(i, records.action)
    [] part = "amount"  -> amount(i, records.amount)
    [] OTHER            -> character(i, records[part])

-----------------------------------------------------------------------------
(* parse_ignoring                                                          *)

Part == Parts[rule]

\* Fault: a part that does not match is taken for an optional one.
Moves_GoesOn(to) ==
  /\ first' = Else(to, first) /\ result' = "parsing" /\ rule' = rule + 1
  /\ UNCHANGED <<entry, damage, line>>

\* The rest of rule line comes next, or the whole of it fails.
Moves(to) ==
  /\ first' = to
  /\ \/ to = Failed /\ result' = "unparsed" /\ UNCHANGED rule
     \/ to # Failed /\ result' = "parsing" /\ rule' = rule + 1
  /\ UNCHANGED <<entry, damage, line>>

\* '[' >> stream >> ']': the time is not shown to the script.
ParseTime ==
  /\ result = "parsing" /\ Part = "time"
  /\ Moves(IF At(first) = "[" /\ At(first + 1) = Stamp THEN Lit("]", first + 2) ELSE Failed)
  /\ UNCHANGED records

ParsePart ==
  /\ result = "parsing" /\ Part \notin {"time", "threat"}
  /\ Moves(Parse(Part, first).first)
  /\ records' = [records EXCEPT ![Part] = Parse(Part, first).attr]

\* seek[eoi]: whatever follows is passed over.
Seek ==
  /\ result = "parsing" /\ Part = "threat"
  /\ result' = "parsed" /\ first' = Len(line) + 1
  /\ UNCHANGED <<entry, damage, line, rule, records>>

\* An exception that is not the grammar's: memory is exhausted.
Catch ==
  /\ result = "parsing"
  /\ result' = "thrown" /\ records' = Zeroed
  /\ UNCHANGED <<entry, damage, line, rule, first>>

Init ==
  /\ entry \in Entries
  /\ \/ damage = 0 /\ line = Text(entry)
     \/ damage \in 1..Len(Text(entry)) /\ line \in Damaged(Text(entry), damage)
  /\ rule = 1 /\ first = 1 /\ records = Default /\ result = "parsing"

Next == ParseTime \/ ParsePart \/ Seek \/ Catch

Spec == Init /\ [][Next]_vars

-----------------------------------------------------------------------------
(* Properties                                                              *)

Shown == DOMAIN Default

\* A line of the game is parsed, and every member the script sees has the
\* line's value; what the line does not have stays as it was (parser.h:98-107).
GameLinesAreRead ==
  damage = 0 /\ result \in {"parsed", "unparsed"} =>
    result = "parsed" /\ \A p \in Shown : records[p] = entry[p].means

\* The record of a damaged line goes to the script too, whatever the result
\* (parser.h:164-171).  Nothing it holds is taken from the wrong place: if the
\* line was parsed, the members of the other parts are the line's, and if it
\* was not, those of the parts before the damage.
DamageIsContained ==
  damage # 0 /\ result \in {"parsed", "unparsed"} =>
    \A n \in 1..Len(Parts) :
      Parts[n] \in Shown /\ (n < PartAt(entry, damage) \/ (result = "parsed" /\ n # PartAt(entry, damage)))
        => records[Parts[n]] = entry[Parts[n]].means

\* What the script may read without having been written, when the line was
\* parsed: the id of an ability without a name, and an amount, both members
\* or none (record.h:48-50, 128-129; swtor.lua reads ability.id of any record).
InitialisedIfParsed ==
  result = "parsed" =>
    /\ records.type.id # Unset /\ records.action.id # Unset
    /\ records.ability.id = Unset => records.ability.name = <<>>
    /\ records.amount.value = Unset <=> records.amount.is_critical = Unset
=============================================================================
