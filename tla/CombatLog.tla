----------------------------- MODULE CombatLog ------------------------------
(***************************************************************************)
(* The lines of the game's combat log, as the rules of parser.h and        *)
(* record.h describe them: each part of a line with what it means to the   *)
(* script.  A line is a sequence of tokens, one for each character that    *)
(* the rules name; braces and the colon with a blank after it are spelled  *)
(* out, and other blanks between tokens are left out.                      *)
(***************************************************************************)
EXTENDS Naturals, Sequences, SequencesExt

CONSTANTS
  Stamp,   \* a time of day
  Word,    \* letters only
  Name,    \* a name with other characters
  Small,   \* a number that fits an int
  Big,     \* a number that fits an unsigned long long only
  Unset    \* a variable that has not been initialised

Marks  == {"[", "]", "lbrace", "rbrace", "(", ")", "<", ">", "@", ":", "colon_blank", "*"}
Tokens == Marks \cup {Stamp, Word, Name, Small, Big}

ASSUME TokensAssumption ==
  /\ Stamp \notin Marks /\ Word \notin Marks /\ Name \notin Marks
  /\ Small \notin Marks /\ Big \notin Marks
  /\ Stamp \notin {Word, Name, Small, Big} /\ Word \notin {Name, Small, Big}
  /\ Name \notin {Small, Big} /\ Small # Big
  /\ Unset \notin Tokens /\ Unset \notin BOOLEAN
  /\ "end" \notin Tokens     \* what the parser sees behind the line

Id(n) == <<"lbrace", n, "rbrace">>

\* A player, a player's companion, a non-player, nobody.
Characters ==
  { [text  |-> <<"[", "@", Name, "]">>,
     means |-> [is_player |-> TRUE, name |-> <<Name>>]],
    [text  |-> <<"[", "@", Name, ":", Word>> \o Id(Big) \o <<"]">>,
     means |-> [is_player |-> TRUE, name |-> <<Name, ":", Word>>]],
    [text  |-> <<"[", Word>> \o Id(Big) \o <<":", Big, "]">>,
     means |-> [is_player |-> FALSE, name |-> <<Word>>]],
    [text  |-> <<"[", "]">>,
     means |-> [is_player |-> FALSE, name |-> <<>>]] }

Abilities ==
  { [text  |-> <<"[", Name>> \o Id(Big) \o <<"]">>, means |-> [name |-> <<Name>>, id |-> Big]],
    [text  |-> <<"[", "]">>, means |-> [name |-> <<>>, id |-> Unset]] }

Types ==
  { [text |-> <<"[", Word>> \o Id(Small), means |-> [name |-> <<Word>>, id |-> Small]] }

Actions ==
  { [text |-> <<"colon_blank", Name, Word>> \o Id(Big) \o <<"]">>,
     means |-> [name |-> <<Name, Word>>, id |-> Big]] }

\* No amount, one that is not a number, a number, a critical one, one with
\* its types.
Amounts ==
  { [text |-> <<"(", ")">>, means |-> [value |-> Unset, is_critical |-> Unset]],
    [text |-> <<"(", Word>> \o Id(Big) \o <<")">>,
     means |-> [value |-> Unset, is_critical |-> Unset]],
    [text |-> <<"(", Small, ")">>, means |-> [value |-> Small, is_critical |-> FALSE]],
    [text |-> <<"(", Small, "*", Word>> \o Id(Big) \o <<")">>,
     means |-> [value |-> Small, is_critical |-> TRUE]],
    [text |-> <<"(", Small, Word>> \o Id(Big) \o <<Name>> \o Id(Small) \o <<")">>,
     means |-> [value |-> Small, is_critical |-> FALSE]] }

Threats == { [text |-> <<>>, means |-> {}], [text |-> <<"<", Small, ">">>, means |-> {}] }

Parts == <<"time", "who", "target", "ability", "type", "action", "amount", "threat">>

Entries ==
  [time : {[text |-> <<"[", Stamp, "]">>, means |-> {}]},
   who : Characters, target : Characters, ability : Abilities,
   type : Types, action : Actions, amount : Amounts, threat : Threats]

\* The text of entry e, and that up to the end of the n-th part.
Text(e) ==
  e.time.text \o e.who.text \o e.target.text \o e.ability.text \o e.type.text \o
  e.action.text \o e.amount.text \o e.threat.text
TextUpTo(e, n) == FlattenSeq([k \in 1..n |-> e[Parts[k]].text])

\* The part of entry e that its i-th token belongs to.
PartAt(e, i) ==
  CHOOSE n \in 1..Len(Parts) : Len(TextUpTo(e, n)) >= i /\ \A m \in 1..(n - 1) : Len(TextUpTo(e, m)) < i

\* A line that is not what the game should have written: a token is missing,
\* or another one is in its place.
Damaged(text, i) ==
  {RemoveAt(text, i)} \cup {ReplaceAt(text, i, t) : t \in Tokens \ {text[i]}}
=============================================================================
