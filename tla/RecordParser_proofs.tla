------------------------ MODULE RecordParser_proofs -------------------------
(***************************************************************************)
(* What the script reads of a parsed line has been written, whatever the   *)
(* line is: the ids of type and action always, those of an ability unless  *)
(* it has no name, and an amount's two members or none.  And what the game *)
(* writes is read as it means it: each part stands in the line where the   *)
(* parser is when it comes to it.                                          *)
(***************************************************************************)
EXTENDS RecordParser, SequenceTheorems, WellFoundedInduction, TLAPS

\* A line is a sequence of tokens, and the record has the members it shows.
TypeOK ==
  /\ line \in Seq(Tokens)
  /\ rule \in 1..Len(Parts)
  /\ result = "parsed" => rule = Len(Parts)
  /\ DOMAIN records = Shown

\* What an optional part leaves: an ability without an id has no name, and an
\* amount has both its members or none.
AbilityWhole(attr) == attr.id = Unset => attr.name = <<>>
AmountWhole(attr)  == attr.value = Unset <=> attr.is_critical = Unset

\* The parts that have been parsed have written what they must.
Written ==
  result \in {"parsing", "parsed"} =>
    /\ rule > 5 => records.type.id # Unset
    /\ rule > 6 => records.action.id # Unset
    /\ AbilityWhole(records.ability)
    /\ AmountWhole(records.amount)

IInv == TypeOK /\ Written

-----------------------------------------------------------------------------
(* Lines                                                                   *)

\* The marks, and the tokens.
LEMMA TokensAre ==
  /\ "[" \in Marks /\ "]" \in Marks /\ "lbrace" \in Marks /\ "rbrace" \in Marks
  /\ "(" \in Marks /\ ")" \in Marks /\ "<" \in Marks /\ ">" \in Marks
  /\ "@" \in Marks /\ ":" \in Marks /\ "colon_blank" \in Marks /\ "*" \in Marks
  /\ "end" \notin Marks /\ Marks \subseteq Tokens
  /\ Stamp \in Tokens /\ Word \in Tokens /\ Name \in Tokens
  /\ Small \in Tokens /\ Big \in Tokens
BY DEF Marks, Tokens

\* The texts of the parts are made of tokens.
LEMMA TextsOfParts ==
  /\ \A c \in Characters : c.text \in Seq(Tokens)
  /\ \A c \in Abilities : c.text \in Seq(Tokens)
  /\ \A c \in Types : c.text \in Seq(Tokens)
  /\ \A c \in Actions : c.text \in Seq(Tokens)
  /\ \A c \in Amounts : c.text \in Seq(Tokens)
  /\ \A c \in Threats : c.text \in Seq(Tokens)
<1>1. "lbrace" \in Tokens /\ "rbrace" \in Tokens /\ "[" \in Tokens /\ "]" \in Tokens /\ ":" \in Tokens
      /\ "(" \in Tokens /\ ")" \in Tokens /\ "<" \in Tokens /\ ">" \in Tokens
      /\ "@" \in Tokens /\ "colon_blank" \in Tokens /\ "*" \in Tokens
      /\ Word \in Tokens /\ Name \in Tokens /\ Small \in Tokens /\ Big \in Tokens
  BY TokensAre
<1>2. ASSUME NEW n \in Tokens PROVE Id(n) \in Seq(Tokens)
  BY <1>1, SMT DEF Id
<1>3. ASSUME NEW c \in Characters PROVE c.text \in Seq(Tokens)
  <2> DEFINE t1 == <<"[", "@", Name, "]">>
             t2 == <<"[", "@", Name, ":", Word>> \o Id(Big) \o <<"]">>
             t3 == <<"[", Word>> \o Id(Big) \o <<":", Big, "]">>
             t4 == <<"[", "]">>
  <2>1. PICK r1, r2, r3, r4 :
          c \in { [text |-> t1, means |-> r1], [text |-> t2, means |-> r2],
                  [text |-> t3, means |-> r3], [text |-> t4, means |-> r4] }
    BY Zenon DEF Characters
  <2>2. t1 \in Seq(Tokens) /\ t2 \in Seq(Tokens) /\ t3 \in Seq(Tokens) /\ t4 \in Seq(Tokens)
    BY <1>1, <1>2, SMT
  <2> HIDE DEF t1, t2, t3, t4
  <2> QED
    BY <2>1, <2>2
<1>4. ASSUME NEW c \in Abilities PROVE c.text \in Seq(Tokens)
  <2>1. c.text = <<"[", Name>> \o Id(Big) \o <<"]">> \/ c.text = <<"[", "]">>
    BY DEF Abilities
  <2>2. <<"[", Name>> \o Id(Big) \o <<"]">> \in Seq(Tokens) /\ <<"[", "]">> \in Seq(Tokens)
    BY <1>1, <1>2, SMT
  <2> QED
    BY <2>1, <2>2
<1>5. ASSUME NEW c \in Types PROVE c.text \in Seq(Tokens)
  <2>1. c.text = <<"[", Word>> \o Id(Small)
    BY DEF Types
  <2> QED
    BY <1>1, <1>2, <2>1, SMT
<1>6. ASSUME NEW c \in Actions PROVE c.text \in Seq(Tokens)
  <2>1. c.text = <<"colon_blank", Name, Word>> \o Id(Big) \o <<"]">>
    BY DEF Actions
  <2> QED
    BY <1>1, <1>2, <2>1, SMT
<1>7. ASSUME NEW c \in Amounts PROVE c.text \in Seq(Tokens)
  <2> DEFINE t1 == <<"(", ")">>
             t2 == <<"(", Word>> \o Id(Big) \o <<")">>
             t3 == <<"(", Small, ")">>
             t4 == <<"(", Small, "*", Word>> \o Id(Big) \o <<")">>
             t5 == <<"(", Small, Word>> \o Id(Big) \o <<Name>> \o Id(Small) \o <<")">>
  <2>1. PICK r1, r2, r3, r4, r5 :
          c \in { [text |-> t1, means |-> r1], [text |-> t2, means |-> r2],
                  [text |-> t3, means |-> r3], [text |-> t4, means |-> r4],
                  [text |-> t5, means |-> r5] }
    BY Zenon DEF Amounts
  <2>2. t1 \in Seq(Tokens) /\ t2 \in Seq(Tokens) /\ t3 \in Seq(Tokens)
        /\ t4 \in Seq(Tokens) /\ t5 \in Seq(Tokens)
    BY <1>1, <1>2, SMT
  <2> HIDE DEF t1, t2, t3, t4, t5
  <2> QED
    BY <2>1, <2>2
<1>8. ASSUME NEW c \in Threats PROVE c.text \in Seq(Tokens)
  <2>1. c.text = <<>> \/ c.text = <<"<", Small, ">">>
    BY DEF Threats
  <2>2. <<>> \in Seq(Tokens) /\ <<"<", Small, ">">> \in Seq(Tokens)
    BY <1>1, SMT
  <2> QED
    BY <2>1, <2>2
<1> QED
  BY <1>3, <1>4, <1>5, <1>6, <1>7, <1>8

\* So is the text of an entry.
LEMMA TextOfEntry ==
  ASSUME NEW e \in Entries
  PROVE  Text(e) \in Seq(Tokens)
<1>1. e.time.text = <<"[", Stamp, "]">>
  BY DEF Entries
<1>2. e.time.text \in Seq(Tokens)
  BY <1>1 DEF Tokens, Marks
<1>3. /\ e.who \in Characters /\ e.target \in Characters /\ e.ability \in Abilities
      /\ e.type \in Types /\ e.action \in Actions /\ e.amount \in Amounts
      /\ e.threat \in Threats
  BY DEF Entries
<1>4. /\ e.who.text \in Seq(Tokens) /\ e.target.text \in Seq(Tokens)
      /\ e.ability.text \in Seq(Tokens) /\ e.type.text \in Seq(Tokens)
      /\ e.action.text \in Seq(Tokens) /\ e.amount.text \in Seq(Tokens)
      /\ e.threat.text \in Seq(Tokens)
  BY <1>3, TextsOfParts
<1> QED
  BY <1>2, <1>4 DEF Text

\* And what is left of it when a token is damaged.
LEMMA DamagedText ==
  ASSUME NEW text \in Seq(Tokens), NEW i \in 1..Len(text), NEW s \in Damaged(text, i)
  PROVE  s \in Seq(Tokens)
<1>1. CASE s = RemoveAt(text, i)
  BY <1>1 DEF RemoveAt
<1>2. ASSUME NEW t \in Tokens, s = ReplaceAt(text, i, t) PROVE s \in Seq(Tokens)
  BY <1>2, ExceptSeq DEF ReplaceAt
<1> QED
  BY <1>1, <1>2 DEF Damaged

-----------------------------------------------------------------------------
(* Parsers                                                                 *)

\* A parser that goes up to a character stays within the line.
LEMMA UntilIs ==
  ASSUME line \in Seq(Tokens), NEW i \in 1..(Len(line) + 1), NEW stops
  PROVE  Until(stops, i) \in i..(Len(line) + 1)
<1> DEFINE Stops == {j \in i..(Len(line) + 1) : At(j) \in stops \cup {"end"}}
           Less == {pair \in Nat \X Nat : pair[1] < pair[2]}
<1>1. Len(line) + 1 \in Stops /\ Stops \subseteq Nat
  BY DEF At
<1>2. IsWellFoundedOn(Less, Nat)
  BY NatLessThanWellFounded DEF OpToRel
<1> HIDE DEF Less
<1>3. PICK k \in Stops : \A j \in Stops : <<j, k>> \notin Less
  <2> HIDE DEF Stops
  <2> QED
    BY <1>1, <1>2, WFMin
<1>4. ASSUME NEW j \in Stops PROVE k <= j
  <2>1. j \in Nat /\ k \in Nat /\ <<j, k>> \notin Less
    BY <1>3
  <2> QED
    BY <2>1 DEF Less
<1>5. Until(stops, i) = Min(Stops)
  BY DEF Until
<1> HIDE DEF Stops
<1>6. Min(Stops) \in Stops
  BY <1>4 DEF Min
<1> QED
  BY <1>5, <1>6 DEF Stops

\* What a literal matches is in the line.
LEMMA LitIs ==
  ASSUME line \in Seq(Tokens), NEW c \in Marks, NEW i, Lit(c, i) # Failed
  PROVE  i \in 1..Len(line) /\ Lit(c, i) = i + 1
<1>1. At(i) = c /\ Lit(c, i) = i + 1
  BY DEF Lit
<1>2. c # "end"
  BY TokensAre
<1> QED
  BY <1>1, <1>2 DEF At

\* The number that an id has is not an uninitialised one.
LEMMA IdIs ==
  ASSUME NEW i \in Int, id(i) # Failed
  PROVE  IdBefore(id(i)) # Unset
<1>1. id(i) = i + 3 /\ At(i + 1) \in Numbers
  BY DEF id
<1>2. (i + 3) - 2 = i + 1
  OBVIOUS
<1>3. IdBefore(id(i)) = At(i + 1)
  BY <1>1, <1>2 DEF IdBefore
<1>4. Numbers \subseteq Tokens
  BY DEF Numbers, Tokens
<1> QED
  BY <1>1, <1>3, <1>4, TokensAssumption

\* A pair that matches has written its id.
LEMMA PairWrites ==
  ASSUME line \in Seq(Tokens), NEW start \in 1..(Len(line) + 1), NEW stops, NEW attr,
         Pair(start, Until(stops, start), attr).first # Failed
  PROVE  Pair(start, Until(stops, start), attr).attr.id # Unset
<1>1. Until(stops, start) \in Int
  BY UntilIs
<1>2. id(Until(stops, start)) # Failed
  BY DEF Pair
<1> QED
  BY <1>1, <1>2, IdIs DEF Pair

LEMMA TypeWrites ==
  ASSUME line \in Seq(Tokens), NEW i, NEW attr, type(i, attr).first # Failed
  PROVE  type(i, attr).attr.id # Unset
<1> DEFINE start == Lit("[", i)
           stops == Tokens \ {Word}
           pair == Pair(start, Until(stops, start), attr)
<1>1. type(i, attr) = IF start = Failed THEN [first |-> Failed, attr |-> attr] ELSE pair
  BY DEF type
<1> HIDE DEF pair
<1>2. start # Failed /\ type(i, attr) = pair
  BY <1>1
<1>3. start \in 1..(Len(line) + 1)
  BY <1>2, LitIs, TokensAre
<1> HIDE DEF start, stops
<1> QED
  BY <1>2, <1>3, PairWrites DEF pair

LEMMA ActionWrites ==
  ASSUME line \in Seq(Tokens), NEW i, NEW attr, action(i, attr).first # Failed
  PROVE  action(i, attr).attr.id # Unset
<1> DEFINE start == Lit("colon_blank", i)
           stops == {"lbrace"}
           pair == Pair(start, Until(stops, start), attr)
<1>1. action(i, attr) = IF start = Failed THEN [first |-> Failed, attr |-> attr]
                        ELSE [pair EXCEPT !.first = Lit("]", @)]
  BY DEF action
<1>4. pair = [first |-> pair.first, attr |-> pair.attr]
  BY DEF Pair
<1> HIDE DEF pair
<1>2. start # Failed
  BY <1>1
<1>3. start \in 1..(Len(line) + 1)
  BY <1>2, LitIs, TokensAre
<1>5. action(i, attr).first = Lit("]", pair.first) /\ action(i, attr).attr = pair.attr
  BY <1>1, <1>2, <1>4
<1>6. pair.first # Failed
  <2>1. pair.first \in 1..Len(line)
    BY <1>5, LitIs, TokensAre
  <2> QED
    BY <2>1 DEF Failed
<1> HIDE DEF start, stops
<1> QED
  BY <1>3, <1>5, <1>6, PairWrites DEF pair

\* An optional ability writes both its members or none.
LEMMA AbilityWrites ==
  ASSUME line \in Seq(Tokens), NEW i, NEW attr, AbilityWhole(attr)
  PROVE  AbilityWhole(ability(i, attr).attr)
<1> DEFINE open == Lit("[", i)
           end == NameId(open)
<1>1. CASE open = Failed \/ end = Failed
  BY <1>1 DEF ability
<1>2. CASE open # Failed /\ end # Failed
  <2>1. ability(i, attr).attr = [name |-> Chars(open, name(open)), id |-> IdBefore(end)]
    BY <1>2 DEF ability
  <2>2. open \in 1..(Len(line) + 1)
    BY <1>2, LitIs, TokensAre
  <2> HIDE DEF open
  <2>3. name(open) \in Int
    BY <2>2, UntilIs DEF name
  <2>4. IdBefore(end) # Unset
    BY <1>2, <2>3, IdIs DEF NameId
  <2> HIDE DEF end
  <2> QED
    BY <2>1, <2>4 DEF AbilityWhole
<1> QED
  BY <1>1, <1>2

\* So does an optional number.
LEMMA AmountWrites ==
  ASSUME NEW i, NEW attr, AmountWhole(attr)
  PROVE  AmountWhole(amount(i, attr).attr)
<1> DEFINE open == Lit("(", i)
           star == Lit("*", open + 1)
           number == open # Failed /\ At(open) = Small
           critical == star # Failed
<1>1. amount(i, attr).attr = IF number THEN [value |-> Small, is_critical |-> critical] ELSE attr
  BY DEF amount
<1>2. critical \in BOOLEAN
  OBVIOUS
<1>3. Small # Unset
  BY TokensAssumption DEF Tokens
<1> HIDE DEF number, critical
<1> QED
  BY <1>1, <1>2, <1>3, TokensAssumption DEF AmountWhole

-----------------------------------------------------------------------------
(* Steps                                                                   *)

\* A part of the record is parsed.
LEMMA PartStep == IInv /\ ParsePart => IInv'
<1> SUFFICES ASSUME IInv, ParsePart PROVE IInv'
  OBVIOUS
<1> DEFINE p == Parts[rule]
           parsed == Parse(p, first)
<1>1. /\ result = "parsing" /\ p \notin {"time", "threat"}
      /\ records' = [records EXCEPT ![p] = parsed.attr] /\ UNCHANGED line
      /\ \/ parsed.first = Failed /\ result' = "unparsed" /\ UNCHANGED rule
         \/ parsed.first # Failed /\ result' = "parsing" /\ rule' = rule + 1
  BY DEF ParsePart, Moves, Part
<1>2. /\ rule \in 2..7 /\ Len(Parts) = 8
      /\ rule = 2 => p = "who"
      /\ rule = 3 => p = "target"
      /\ rule = 4 => p = "ability"
      /\ rule = 5 => p = "type"
      /\ rule = 6 => p = "action"
      /\ rule = 7 => p = "amount"
  BY <1>1 DEF IInv, TypeOK, Parts
<1>3. DOMAIN records = {"who", "target", "ability", "type", "action", "amount"}
  BY DEF IInv, TypeOK, Shown, Default, Fields
<1>4. line \in Seq(Tokens)
  BY DEF IInv, TypeOK
<1>5. /\ rule = 4 => parsed = ability(first, records.ability)
      /\ rule = 5 => parsed = type(first, records.type)
      /\ rule = 6 => parsed = action(first, records.action)
      /\ rule = 7 => parsed = amount(first, records.amount)
  <2>1. /\ Parse("ability", first) = ability(first, records.ability)
        /\ Parse("type", first) = type(first, records.type)
        /\ Parse("action", first) = action(first, records.action)
        /\ Parse("amount", first) = amount(first, records.amount)
    BY DEF Parse
  <2> QED
    BY <1>2, <2>1
<1> HIDE DEF p, parsed
<1>6. /\ records'.ability = IF rule = 4 THEN parsed.attr ELSE records.ability
      /\ records'.type = IF rule = 5 THEN parsed.attr ELSE records.type
      /\ records'.action = IF rule = 6 THEN parsed.attr ELSE records.action
      /\ records'.amount = IF rule = 7 THEN parsed.attr ELSE records.amount
  BY <1>1, <1>2, <1>3, SMT
<1>7. TypeOK'
  BY <1>1, <1>2, <1>3 DEF IInv, TypeOK
<1>8. ASSUME result' = "parsing" PROVE Written'
  <2>1. /\ rule > 5 => records.type.id # Unset
        /\ rule > 6 => records.action.id # Unset
        /\ AbilityWhole(records.ability) /\ AmountWhole(records.amount)
    BY <1>1 DEF IInv, Written
  <2>2. rule' = rule + 1 /\ parsed.first # Failed
    BY <1>1, <1>8
  <2>3. AbilityWhole(records'.ability)
    <3>1. CASE rule = 4
      BY <1>4, <1>5, <1>6, <2>1, <3>1, AbilityWrites
    <3>2. CASE rule # 4
      BY <1>2, <1>6, <2>1, <3>2
    <3> QED
      BY <3>1, <3>2
  <2>4. AmountWhole(records'.amount)
    <3>1. CASE rule = 7
      BY <1>5, <1>6, <2>1, <3>1, AmountWrites
    <3>2. CASE rule # 7
      BY <1>2, <1>6, <2>1, <3>2
    <3> QED
      BY <3>1, <3>2
  <2>5. rule' > 5 => records'.type.id # Unset
    <3>1. CASE rule = 5
      BY <1>4, <1>5, <1>6, <2>2, <3>1, TypeWrites
    <3>2. CASE rule # 5
      BY <1>2, <1>6, <2>1, <2>2, <3>2
    <3> QED
      BY <3>1, <3>2
  <2>6. rule' > 6 => records'.action.id # Unset
    <3>1. CASE rule = 6
      BY <1>4, <1>5, <1>6, <2>2, <3>1, ActionWrites
    <3>2. CASE rule # 6
      BY <1>2, <1>6, <2>1, <2>2, <3>2
    <3> QED
      BY <3>1, <3>2
  <2> QED
    BY <2>3, <2>4, <2>5, <2>6 DEF Written
<1>9. result' = "unparsed" => Written'
  BY DEF Written
<1> QED
  BY <1>1, <1>7, <1>8, <1>9 DEF IInv

\* The inductive invariant.
THEOREM Invariance == Spec => []IInv
<1>1. Init => IInv
  <2> SUFFICES ASSUME Init PROVE IInv
    OBVIOUS
  <2>1. line \in Seq(Tokens)
    BY TextOfEntry, DamagedText DEF Init
  <2>2. TypeOK
    BY <2>1 DEF Init, TypeOK, Parts, Shown
  <2>3. AbilityWhole(Default.ability) /\ AmountWhole(Default.amount)
    BY DEF AbilityWhole, AmountWhole, Default, Fields
  <2>4. Written
    BY <2>3 DEF Init, Written
  <2> QED
    BY <2>2, <2>4 DEF IInv
<1>2. IInv /\ [Next]_vars => IInv'
  <2> SUFFICES ASSUME IInv, [Next]_vars PROVE IInv'
    OBVIOUS
  <2>1. CASE ParseTime
    <3>1. rule = 1 /\ Len(Parts) = 8
      BY <2>1 DEF ParseTime, Part, Parts, IInv, TypeOK
    <3> QED
      BY <2>1, <3>1 DEF ParseTime, Moves, IInv, TypeOK, Written
  <2>2. CASE ParsePart
    BY <2>2, PartStep
  <2>3. CASE Seek
    <3>1. rule = 8 /\ Len(Parts) = 8
      BY <2>3 DEF Seek, Part, Parts, IInv, TypeOK
    <3> QED
      BY <2>3, <3>1 DEF Seek, IInv, TypeOK, Written
  <2>4. CASE Catch
    BY <2>4 DEF Catch, IInv, TypeOK, Written, Shown, Zeroed, Default, Fields
  <2>5. CASE UNCHANGED vars
    BY <2>5 DEF vars, IInv, TypeOK, Written, AbilityWhole, AmountWhole
  <2> QED
    BY <2>1, <2>2, <2>3, <2>4, <2>5 DEF Next
<1> QED
  BY <1>1, <1>2, PTL DEF Spec

\* A parsed line leaves no id of type or action unwritten, none of an ability
\* that has a name, and no half of an amount (record.h:48-50, 128-129,
\* parser.h:76-92).
THEOREM ParsedIsInitialised == Spec => []InitialisedIfParsed
<1>1. IInv => InitialisedIfParsed
  <2>1. Len(Parts) = 8
    BY DEF Parts
  <2> QED
    BY <2>1 DEF IInv, TypeOK, Written, InitialisedIfParsed, AbilityWhole, AmountWhole
<1> QED
  BY <1>1, Invariance, PTL

-----------------------------------------------------------------------------
(* Parts, wherever in a line they stand                                    *)

\* The tokens differ from the marks and from one another.
LEMMA TokensDiffer ==
  /\ Stamp \notin Marks /\ Word \notin Marks /\ Name \notin Marks /\ Small \notin Marks /\ Big \notin Marks
  /\ Stamp # Word /\ Word # Name /\ Word # Small /\ Word # Big /\ Name # Small /\ Name # Big
  /\ Small # Big
  /\ "end" \notin Tokens /\ Marks \subseteq Tokens
BY TokensAssumption DEF Tokens

\* Text stands in the line from i on.
Stands(text, i) == \A k \in 1..Len(text) : At(i + k - 1) = text[k]

\* A token is where the line has one.
LEMMA InLine ==
  ASSUME NEW i, At(i) \in Tokens
  PROVE  i \in 1..Len(line) /\ line[i] = At(i)
BY TokensDiffer DEF At

\* The least of a set of integers.
LEMMA MinIs ==
  ASSUME NEW S \in SUBSET Int, NEW k \in S, \A j \in S : k <= j
  PROVE  Min(S) = k
<1>1. ASSUME NEW x \in S, \A y \in S : x <= y PROVE x = k
  <2>1. x \in Int /\ k \in Int /\ x <= k /\ k <= x
    BY <1>1
  <2> QED
    BY <2>1
<1> QED
  BY <1>1 DEF Min

\* A run of characters ends at the first stop.
LEMMA UntilAt ==
  ASSUME line \in Seq(Tokens), NEW i \in Int, NEW j \in Int, 1 <= i, i <= j, NEW stops,
         \A k \in Int : i <= k /\ k < j => At(k) \in Tokens \ stops,
         At(j) \in stops \cup {"end"}, j <= Len(line) + 1
  PROVE  Until(stops, i) = j
<1> DEFINE Stops == {k \in i..(Len(line) + 1) : At(k) \in stops \cup {"end"}}
<1>1. Len(line) \in Nat
  OBVIOUS
<1>2. j \in Stops /\ Stops \in SUBSET Int
  BY <1>1
<1>3. ASSUME NEW k \in Stops PROVE j <= k
  <2>1. k \in Int /\ i <= k /\ At(k) \notin Tokens \ stops
    BY <1>1, <1>3, TokensDiffer
  <2> QED
    BY <2>1
<1> HIDE DEF Stops
<1>4. Min(Stops) = j
  BY <1>2, <1>3, MinIs
<1> QED
  BY <1>4 DEF Until, Stops

\* Up to a token that is one of the stops, over none, one, two or three others.
LEMMA UntilNext ==
  ASSUME line \in Seq(Tokens), NEW i \in Nat, 1 <= i, NEW stops
  PROVE  /\ At(i) \in Tokens \cap stops => Until(stops, i) = i
         /\ At(i) \in Tokens \ stops =>
              /\ At(i + 1) \in Tokens \cap stops => Until(stops, i) = i + 1
              /\ At(i + 1) \in Tokens \ stops =>
                   /\ At(i + 2) \in Tokens \cap stops => Until(stops, i) = i + 2
                   /\ At(i + 2) \in Tokens \ stops /\ At(i + 3) \in Tokens \cap stops
                        => Until(stops, i) = i + 3
<1>1. ASSUME NEW n \in 0..3, At(i + n) \in Tokens \cap stops,
             \A k \in 0..3 : k < n => At(i + k) \in Tokens \ stops
      PROVE  Until(stops, i) = i + n
  <2>1. i + n \in 1..Len(line) /\ Len(line) \in Nat
    BY <1>1, InLine
  <2>2. ASSUME NEW k \in Int, i <= k, k < i + n PROVE At(k) \in Tokens \ stops
    <3>1. k - i \in 0..3 /\ k - i < n /\ i + (k - i) = k
      BY <2>2
    <3> QED
      BY <1>1, <3>1
  <2> QED
    BY <1>1, <2>1, <2>2, UntilAt
<1>2. i + 0 = i
  OBVIOUS
<1>3. At(i) \in Tokens \cap stops => Until(stops, i) = i
  BY <1>1, <1>2
<1>4. ASSUME At(i) \in Tokens \ stops, At(i + 1) \in Tokens \cap stops PROVE Until(stops, i) = i + 1
  <2>1. \A k \in 0..3 : k < 1 => At(i + k) \in Tokens \ stops
    BY <1>2, <1>4
  <2> QED
    BY <1>1, <1>4, <2>1
<1>5. ASSUME At(i) \in Tokens \ stops, At(i + 1) \in Tokens \ stops, At(i + 2) \in Tokens \cap stops
      PROVE  Until(stops, i) = i + 2
  <2>1. \A k \in 0..3 : k < 2 => k = 0 \/ k = 1
    OBVIOUS
  <2>2. \A k \in 0..3 : k < 2 => At(i + k) \in Tokens \ stops
    BY <1>2, <1>5, <2>1
  <2> QED
    BY <1>1, <1>5, <2>2
<1>6. ASSUME At(i) \in Tokens \ stops, At(i + 1) \in Tokens \ stops, At(i + 2) \in Tokens \ stops,
             At(i + 3) \in Tokens \cap stops
      PROVE  Until(stops, i) = i + 3
  <2>1. \A k \in 0..3 : k < 3 => k = 0 \/ k = 1 \/ k = 2
    OBVIOUS
  <2>2. \A k \in 0..3 : k < 3 => At(i + k) \in Tokens \ stops
    BY <1>2, <1>6, <2>1
  <2> QED
    BY <1>1, <1>6, <2>2
<1> QED
  BY <1>3, <1>4, <1>5, <1>6

\* One token, and the position behind it.
LEMMA LitAt == ASSUME NEW i, NEW c PROVE Lit(c, i) = IF At(i) = c THEN i + 1 ELSE Failed
BY DEF Lit

\* An id, and the number in it; nothing else is one.
LEMMA IdAt ==
  ASSUME NEW i \in Nat
  PROVE  /\ At(i) = "lbrace" /\ At(i + 1) \in Numbers /\ At(i + 2) = "rbrace"
              => id(i) = i + 3 /\ id(i) # Failed /\ IdBefore(id(i)) = At(i + 1)
         /\ At(i) # "lbrace" => id(i) = Failed
<1>1. (i + 3) - 2 = i + 1 /\ i + 3 # 0
  OBVIOUS
<1> QED
  BY <1>1 DEF id, IdBefore, Failed

\* Up to three tokens from i on.
LEMMA CharsAre ==
  ASSUME line \in Seq(Tokens), NEW i \in Nat, 1 <= i
  PROVE  /\ Chars(i, i) = <<>>
         /\ At(i) \in Tokens =>
              /\ Chars(i, i + 1) = <<At(i)>>
              /\ At(i + 1) \in Tokens =>
                   /\ Chars(i, i + 2) = <<At(i), At(i + 1)>>
                   /\ At(i + 2) \in Tokens => Chars(i, i + 3) = <<At(i), At(i + 1), At(i + 2)>>
<1>1. /\ (i + 1) - 1 = i /\ (i + 2) - 1 = i + 1 /\ (i + 3) - 1 = i + 2
      /\ i - 1 \in Int /\ i - 1 < i
  OBVIOUS
<1>2. Chars(i, i) = <<>>
  BY <1>1, SubSeqEmpty DEF Chars
<1>3. ASSUME At(i) \in Tokens PROVE SubSeq(line, i, i) = <<At(i)>>
  <2>1. i \in 1..Len(line) /\ line[i] = At(i)
    BY <1>3, InLine
  <2> DEFINE s == SubSeq(line, i, i)
             u == <<At(i)>>
  <2>2. s \in Seq(Tokens) /\ Len(s) = 1 /\ \A k \in 1..1 : s[k] = line[i + k - 1]
    <3>1. \A k \in i..(i) : line[k] \in Tokens
      BY <2>1
    <3>2. s \in Seq(Tokens) /\ Len(s) = 1
      BY <3>1, SubSeqProperties
    <3>3. \A k \in 1..1 : s[k] = line[i + k - 1]
      BY <3>1, <3>2, SubSeqProperties
    <3> QED
      BY <3>2, <3>3
  <2>3. u \in Seq(Tokens) /\ Len(u) = 1
    BY <1>3
  <2>4. \A k \in 1..1 : s[k] = u[k]
    BY <2>1, <2>2
  <2> HIDE DEF s, u
  <2>5. s = u
    BY <2>2, <2>3, <2>4, SeqEqual
  <2> QED
    BY <2>5 DEF s, u
<1>4. ASSUME At(i) \in Tokens, At(i + 1) \in Tokens PROVE SubSeq(line, i, i + 1) = <<At(i), At(i + 1)>>
  <2>1. i \in 1..Len(line) /\ line[i] = At(i) /\ i + 1 \in 1..Len(line) /\ line[i + 1] = At(i + 1)
    BY <1>4, InLine
  <2> DEFINE s == SubSeq(line, i, i + 1)
             u == <<At(i), At(i + 1)>>
  <2>2. s \in Seq(Tokens) /\ Len(s) = 2 /\ \A k \in 1..2 : s[k] = line[i + k - 1]
    <3>1. \A k \in i..(i + 1) : line[k] \in Tokens
      BY <2>1
    <3>2. s \in Seq(Tokens) /\ Len(s) = 2
      BY <3>1, SubSeqProperties
    <3>3. \A k \in 1..2 : s[k] = line[i + k - 1]
      BY <3>1, <3>2, SubSeqProperties
    <3> QED
      BY <3>2, <3>3
  <2>3. u \in Seq(Tokens) /\ Len(u) = 2
    BY <1>4
  <2>4. \A k \in 1..2 : s[k] = u[k]
    BY <2>1, <2>2
  <2> HIDE DEF s, u
  <2>5. s = u
    BY <2>2, <2>3, <2>4, SeqEqual
  <2> QED
    BY <2>5 DEF s, u
<1>5. ASSUME At(i) \in Tokens, At(i + 1) \in Tokens, At(i + 2) \in Tokens
      PROVE  SubSeq(line, i, i + 2) = <<At(i), At(i + 1), At(i + 2)>>
  <2>1. /\ i \in 1..Len(line) /\ line[i] = At(i) /\ i + 1 \in 1..Len(line) /\ line[i + 1] = At(i + 1)
        /\ i + 2 \in 1..Len(line) /\ line[i + 2] = At(i + 2)
    BY <1>5, InLine
  <2> DEFINE s == SubSeq(line, i, i + 2)
             u == <<At(i), At(i + 1), At(i + 2)>>
  <2>2. s \in Seq(Tokens) /\ Len(s) = 3 /\ \A k \in 1..3 : s[k] = line[i + k - 1]
    <3>1. \A k \in i..(i + 2) : line[k] \in Tokens
      BY <2>1
    <3>2. s \in Seq(Tokens) /\ Len(s) = 3
      BY <3>1, SubSeqProperties
    <3>3. \A k \in 1..3 : s[k] = line[i + k - 1]
      BY <3>1, <3>2, SubSeqProperties
    <3> QED
      BY <3>2, <3>3
  <2>3. u \in Seq(Tokens) /\ Len(u) = 3
    BY <1>5
  <2>4. \A k \in 1..3 : s[k] = u[k]
    BY <2>1, <2>2
  <2> HIDE DEF s, u
  <2>5. s = u
    BY <2>2, <2>3, <2>4, SeqEqual
  <2> QED
    BY <2>5 DEF s, u
<1> QED
  BY <1>1, <1>2, <1>3, <1>4, <1>5 DEF Chars

\* Nothing stands where something has failed.
LEMMA AtNothing == At(Failed) = "end" /\ "end" \notin Marks
BY TokensAre DEF At, Failed

\* name and id, where the name ends.
LEMMA NameEnds ==
  ASSUME line \in Seq(Tokens), NEW i \in Nat, 1 <= i
  PROVE  /\ At(i) = "]" => name(i) = i
         /\ At(i) \in {Name, Word, ":"} /\ At(i + 1) \in {"]", "lbrace"} => name(i) = i + 1
         /\ At(i) = Name /\ At(i + 1) = ":" /\ At(i + 2) = Word /\ At(i + 3) = "lbrace"
              => name(i) = i + 3
<1> DEFINE stops == {"lbrace", "]"}
<1>1. stops \subseteq Tokens /\ {Name, Word, ":"} \subseteq Tokens \ stops
  BY TokensAre, TokensDiffer
<1> HIDE DEF stops
<1>2. /\ At(i) \in stops => Until(stops, i) = i
      /\ At(i) \in Tokens \ stops /\ At(i + 1) \in stops => Until(stops, i) = i + 1
      /\ (/\ At(i) \in Tokens \ stops /\ At(i + 1) \in Tokens \ stops
          /\ At(i + 2) \in Tokens \ stops /\ At(i + 3) \in stops)
           => Until(stops, i) = i + 3
  <2>1. /\ At(i) \in Tokens \cap stops => Until(stops, i) = i
        /\ At(i) \in Tokens \ stops =>
             /\ At(i + 1) \in Tokens \cap stops => Until(stops, i) = i + 1
             /\ At(i + 1) \in Tokens \ stops =>
                  /\ At(i + 2) \in Tokens \cap stops => Until(stops, i) = i + 2
                  /\ At(i + 2) \in Tokens \ stops /\ At(i + 3) \in Tokens \cap stops
                       => Until(stops, i) = i + 3
    BY UntilNext
  <2>2. \A x \in stops : x \in Tokens \cap stops
    BY <1>1
  <2>3. At(i) \in stops => Until(stops, i) = i
    BY <2>1, <2>2
  <2>4. At(i) \in Tokens \ stops /\ At(i + 1) \in stops => Until(stops, i) = i + 1
    BY <2>1, <2>2
  <2>5. ASSUME At(i) \in Tokens \ stops, At(i + 1) \in Tokens \ stops,
               At(i + 2) \in Tokens \ stops, At(i + 3) \in stops
        PROVE  Until(stops, i) = i + 3
    <3>1. At(i + 3) \in Tokens \cap stops
      BY <2>2, <2>5
    <3>2. At(i + 2) \in Tokens \ stops /\ At(i + 3) \in Tokens \cap stops => Until(stops, i) = i + 3
      BY <2>1, <2>5
    <3> QED
      BY <2>5, <3>1, <3>2
  <2> QED
    BY <2>3, <2>4, <2>5
<1>3. "]" \in stops /\ "lbrace" \in stops
  BY DEF stops
<1> QED
  BY <1>1, <1>2, <1>3 DEF name, stops

\* A player.
LEMMA PlayerIs ==
  ASSUME line \in Seq(Tokens), NEW i \in Nat, 1 <= i, NEW attr,
         At(i) = "[", At(i + 1) = "@", At(i + 2) = Name, At(i + 3) = "]"
  PROVE  character(i, attr) = [first |-> i + 4, attr |-> [is_player |-> TRUE, name |-> <<Name>>]]
<1>1. Lit("[", i) = i + 1 /\ i + 1 # Failed /\ Lit("@", i + 1) = i + 2 /\ i + 2 # Failed /\ i + 3 # Failed
  BY LitAt DEF Failed
<1>2. name(i + 2) = i + 3 /\ name(i + 3) = i + 3 /\ id(i + 3) = Failed
  BY NameEnds, IdAt
<1>3. Lit("]", i + 3) = i + 4 /\ Chars(i + 2, i + 3) = <<Name>>
  BY LitAt, CharsAre, TokensAre
<1>4. Else(Lit("@", i + 1), i + 1) = i + 2 /\ Else(NameId(i + 3), i + 3) = i + 3
  BY <1>1, <1>2 DEF Else, NameId
<1>5. At(id(i + 3)) # ":"
  BY <1>2, AtNothing, TokensAre
<1>6. i + 2 # i + 1
  OBVIOUS
<1> QED
  BY <1>1, <1>2, <1>3, <1>4, <1>5, <1>6 DEF character

\* A player's companion.
LEMMA CompanionIs ==
  ASSUME line \in Seq(Tokens), NEW i \in Nat, 1 <= i, NEW attr,
         At(i) = "[", At(i + 1) = "@", At(i + 2) = Name, At(i + 3) = ":", At(i + 4) = Word,
         At(i + 5) = "lbrace", At(i + 6) = Big, At(i + 7) = "rbrace", At(i + 8) = "]"
  PROVE  character(i, attr) = [first |-> i + 9, attr |-> [is_player |-> TRUE, name |-> <<Name, ":", Word>>]]
<1>1. Lit("[", i) = i + 1 /\ i + 1 # Failed /\ Lit("@", i + 1) = i + 2 /\ i + 2 # Failed /\ i + 8 # Failed
  BY LitAt DEF Failed
<1>2. name(i + 2) = i + 5 /\ name(i + 5) = i + 5 /\ id(i + 5) = i + 8
  <2>1. name(i + 2) = i + 5
    <3>1. i + 2 \in Nat /\ 1 <= i + 2 /\ (i + 2) + 1 = i + 3 /\ (i + 2) + 2 = i + 4 /\ (i + 2) + 3 = i + 5
      OBVIOUS
    <3> QED
      BY <3>1, NameEnds
  <2>2. id(i + 5) = i + 8
    <3>1. i + 5 \in Nat /\ (i + 5) + 1 = i + 6 /\ (i + 5) + 2 = i + 7 /\ (i + 5) + 3 = i + 8
      OBVIOUS
    <3> QED
      BY <3>1, IdAt DEF Numbers
  <2>3. name(i + 5) = i + 5
    <3>1. Until({"lbrace", "]"}, i + 5) = i + 5
      BY UntilNext, TokensAre
    <3> QED
      BY <3>1 DEF name
  <2> QED
    BY <2>1, <2>2, <2>3
<1>3. Lit("]", i + 8) = i + 9 /\ Chars(i + 2, i + 5) = <<Name, ":", Word>>
  <2>1. i + 2 \in Nat /\ 1 <= i + 2 /\ (i + 2) + 1 = i + 3 /\ (i + 2) + 2 = i + 4 /\ (i + 2) + 3 = i + 5
    OBVIOUS
  <2>2. Chars(i + 2, i + 5) = <<Name, ":", Word>>
    BY <2>1, CharsAre, TokensAre
  <2> QED
    BY <2>2, LitAt
<1>4. Else(Lit("@", i + 1), i + 1) = i + 2 /\ Else(NameId(i + 5), i + 5) = i + 8
  BY <1>1, <1>2 DEF Else, NameId
<1>5. At(id(i + 5)) # ":"
  BY <1>2
<1>6. i + 2 # i + 1
  OBVIOUS
<1> QED
  BY <1>1, <1>2, <1>3, <1>4, <1>5, <1>6 DEF character

\* A character that is no player.
LEMMA OtherIs ==
  ASSUME line \in Seq(Tokens), NEW i \in Nat, 1 <= i, NEW attr,
         At(i) = "[", At(i + 1) = Word, At(i + 2) = "lbrace", At(i + 3) = Big, At(i + 4) = "rbrace",
         At(i + 5) = ":", At(i + 6) = Big, At(i + 7) = "]"
  PROVE  character(i, attr) = [first |-> i + 8, attr |-> [is_player |-> FALSE, name |-> <<Word>>]]
<1>1. Lit("[", i) = i + 1 /\ i + 1 # Failed /\ Lit("@", i + 1) = Failed /\ i + 7 # Failed
  BY LitAt, TokensDiffer, TokensAre DEF Failed
<1>2. name(i + 1) = i + 2 /\ id(i + 2) = i + 5 /\ name(i + 7) = i + 7 /\ id(i + 7) = Failed
  <2>1. name(i + 1) = i + 2
    <3>1. i + 1 \in Nat /\ 1 <= i + 1 /\ (i + 1) + 1 = i + 2
      OBVIOUS
    <3> QED
      BY <3>1, NameEnds
  <2>2. id(i + 2) = i + 5
    <3>1. i + 2 \in Nat /\ (i + 2) + 1 = i + 3 /\ (i + 2) + 2 = i + 4 /\ (i + 2) + 3 = i + 5
      OBVIOUS
    <3> QED
      BY <3>1, IdAt DEF Numbers
  <2>3. name(i + 7) = i + 7 /\ id(i + 7) = Failed
    BY NameEnds, IdAt
  <2> QED
    BY <2>1, <2>2, <2>3
<1>3. Lit("]", i + 7) = i + 8 /\ Chars(i + 1, i + 2) = <<Word>>
  <2>1. i + 1 \in Nat /\ 1 <= i + 1 /\ (i + 1) + 1 = i + 2
    OBVIOUS
  <2> QED
    BY <2>1, LitAt, CharsAre, TokensAre
<1>4. Else(Lit("@", i + 1), i + 1) = i + 1 /\ Else(NameId(i + 7), i + 7) = i + 7
  BY <1>1, <1>2 DEF Else, NameId
<1>5. At(id(i + 2)) = ":" /\ At(id(i + 2) + 1) \in Numbers /\ id(i + 2) + 2 = i + 7
  <2>1. (i + 5) + 1 = i + 6 /\ (i + 5) + 2 = i + 7
    OBVIOUS
  <2> QED
    BY <1>2, <2>1 DEF Numbers
<1> QED
  BY <1>1, <1>2, <1>3, <1>4, <1>5 DEF character

\* Nobody.
LEMMA NobodyIs ==
  ASSUME line \in Seq(Tokens), NEW i \in Nat, 1 <= i, NEW attr, At(i) = "[", At(i + 1) = "]"
  PROVE  character(i, attr) = [first |-> i + 2, attr |-> [is_player |-> FALSE, name |-> <<>>]]
<1>1. Lit("[", i) = i + 1 /\ i + 1 # Failed /\ Lit("@", i + 1) = Failed
  BY LitAt DEF Failed
<1>2. name(i + 1) = i + 1 /\ id(i + 1) = Failed
  BY NameEnds, IdAt
<1>3. Lit("]", i + 1) = i + 2 /\ Chars(i + 1, i + 1) = <<>>
  BY LitAt, CharsAre
<1>4. Else(Lit("@", i + 1), i + 1) = i + 1 /\ Else(NameId(i + 1), i + 1) = i + 1
  BY <1>1, <1>2 DEF Else, NameId
<1>5. At(id(i + 1)) # ":"
  BY <1>2, AtNothing, TokensAre
<1> QED
  BY <1>1, <1>2, <1>3, <1>4, <1>5 DEF character

\* An ability, and none.
LEMMA AbilityIs ==
  ASSUME line \in Seq(Tokens), NEW i \in Nat, 1 <= i, NEW attr, At(i) = "["
  PROVE  /\ (/\ At(i + 1) = Name /\ At(i + 2) = "lbrace" /\ At(i + 3) = Big /\ At(i + 4) = "rbrace"
             /\ At(i + 5) = "]")
            => ability(i, attr) = [first |-> i + 6, attr |-> [name |-> <<Name>>, id |-> Big]]
         /\ At(i + 1) = "]" => ability(i, attr) = [first |-> i + 2, attr |-> attr]
<1>1. Lit("[", i) = i + 1 /\ i + 1 # Failed
  BY LitAt DEF Failed
<1>2. ASSUME At(i + 1) = Name, At(i + 2) = "lbrace", At(i + 3) = Big, At(i + 4) = "rbrace", At(i + 5) = "]"
      PROVE  ability(i, attr) = [first |-> i + 6, attr |-> [name |-> <<Name>>, id |-> Big]]
  <2>1. /\ i + 1 \in Nat /\ 1 <= i + 1 /\ (i + 1) + 1 = i + 2 /\ i + 5 # Failed
        /\ i + 2 \in Nat /\ (i + 2) + 1 = i + 3 /\ (i + 2) + 2 = i + 4 /\ (i + 2) + 3 = i + 5
    BY DEF Failed
  <2>2. name(i + 1) = i + 2 /\ Chars(i + 1, i + 2) = <<Name>>
    BY <1>2, <2>1, NameEnds, CharsAre, TokensAre
  <2>3. id(i + 2) = i + 5 /\ IdBefore(i + 5) = Big
    BY <1>2, <2>1, IdAt DEF Numbers
  <2>4. NameId(i + 1) = i + 5 /\ Lit("]", i + 5) = i + 6
    BY <1>2, <2>2, <2>3, LitAt DEF NameId
  <2> QED
    BY <1>1, <2>1, <2>2, <2>3, <2>4 DEF ability
<1>3. ASSUME At(i + 1) = "]" PROVE ability(i, attr) = [first |-> i + 2, attr |-> attr]
  <2>1. NameId(i + 1) = Failed /\ Lit("]", i + 1) = i + 2
    BY <1>3, NameEnds, IdAt, LitAt DEF NameId
  <2> QED
    BY <1>1, <2>1 DEF ability
<1> QED
  BY <1>2, <1>3

\* A type.
LEMMA TypeIs ==
  ASSUME line \in Seq(Tokens), NEW i \in Nat, 1 <= i, NEW attr,
         At(i) = "[", At(i + 1) = Word, At(i + 2) = "lbrace", At(i + 3) = Small, At(i + 4) = "rbrace"
  PROVE  type(i, attr) = [first |-> i + 5, attr |-> [name |-> <<Word>>, id |-> Small]]
<1>1. Lit("[", i) = i + 1 /\ i + 1 # Failed
  BY LitAt DEF Failed
<1>2. /\ i + 1 \in Nat /\ 1 <= i + 1 /\ (i + 1) + 1 = i + 2 /\ i + 5 # Failed
      /\ i + 2 \in Nat /\ (i + 2) + 1 = i + 3 /\ (i + 2) + 2 = i + 4 /\ (i + 2) + 3 = i + 5
  BY DEF Failed
<1>3. Until(Tokens \ {Word}, i + 1) = i + 2
  <2> DEFINE stops == Tokens \ {Word}
  <2>1. Word \in Tokens \ stops /\ "lbrace" \in Tokens \cap stops
    BY TokensAre, TokensDiffer
  <2> HIDE DEF stops
  <2>2. Until(stops, i + 1) = (i + 1) + 1
    BY <1>2, <2>1, UntilNext
  <2> QED
    BY <1>2, <2>2 DEF stops
<1>4. Chars(i + 1, i + 2) = <<Word>> /\ id(i + 2) = i + 5 /\ IdBefore(i + 5) = Small
  BY <1>2, CharsAre, IdAt, TokensAre DEF Numbers
<1> QED
  BY <1>1, <1>2, <1>3, <1>4 DEF type, Pair

\* An action.
LEMMA ActionIs ==
  ASSUME line \in Seq(Tokens), NEW i \in Nat, 1 <= i, NEW attr,
         At(i) = "colon_blank", At(i + 1) = Name, At(i + 2) = Word, At(i + 3) = "lbrace",
         At(i + 4) = Big, At(i + 5) = "rbrace", At(i + 6) = "]"
  PROVE  action(i, attr) = [first |-> i + 7, attr |-> [name |-> <<Name, Word>>, id |-> Big]]
<1>1. Lit("colon_blank", i) = i + 1 /\ i + 1 # Failed
  BY LitAt DEF Failed
<1>2. /\ i + 1 \in Nat /\ 1 <= i + 1 /\ (i + 1) + 1 = i + 2 /\ (i + 1) + 2 = i + 3 /\ i + 6 # Failed
      /\ i + 3 \in Nat /\ (i + 3) + 1 = i + 4 /\ (i + 3) + 2 = i + 5 /\ (i + 3) + 3 = i + 6
  BY DEF Failed
<1>3. Until({"lbrace"}, i + 1) = i + 3
  <2> DEFINE stops == {"lbrace"}
  <2>1. {Name, Word} \subseteq Tokens \ stops /\ "lbrace" \in Tokens \cap stops
    BY TokensAre, TokensDiffer
  <2> HIDE DEF stops
  <2>2. Until(stops, i + 1) = (i + 1) + 2
    BY <1>2, <2>1, UntilNext
  <2> QED
    BY <1>2, <2>2 DEF stops
<1>4. Chars(i + 1, i + 3) = <<Name, Word>> /\ id(i + 3) = i + 6 /\ IdBefore(i + 6) = Big
  BY <1>2, CharsAre, IdAt, TokensAre DEF Numbers
<1>5. Pair(i + 1, i + 3, attr) = [first |-> i + 6, attr |-> [name |-> <<Name, Word>>, id |-> Big]]
  BY <1>2, <1>4 DEF Pair
<1>6. Lit("]", i + 6) = i + 7
  BY LitAt
<1> DEFINE pair == Pair(i + 1, Until({"lbrace"}, i + 1), attr)
<1>7. pair = [first |-> i + 6, attr |-> [name |-> <<Name, Word>>, id |-> Big]]
  BY <1>3, <1>5
<1> HIDE DEF pair
<1>8. [pair EXCEPT !.first = Lit("]", @)] = [first |-> i + 7, attr |-> [name |-> <<Name, Word>>, id |-> Big]]
  <2>1. pair.first = i + 6
    BY <1>7
  <2>2. Lit("]", pair.first) = i + 7
    BY <1>6, <2>1
  <2>3. [pair EXCEPT !.first = Lit("]", @)] = [pair EXCEPT !.first = i + 7]
    BY <2>2
  <2> DEFINE name2 == [name |-> <<Name, Word>>, id |-> Big]
  <2>4. pair = [first |-> i + 6, attr |-> name2]
    BY <1>7
  <2> HIDE DEF name2
  <2>5. [pair EXCEPT !.first = i + 7] = [first |-> i + 7, attr |-> name2]
    BY <2>4
  <2> QED
    BY <2>3, <2>5 DEF name2
<1>9. action(i, attr) = [pair EXCEPT !.first = Lit("]", @)]
  BY <1>1 DEF action, pair
<1> QED
  BY <1>8, <1>9

-----------------------------------------------------------------------------
(* The types of an amount                                                  *)

Typed(i) == Until({"lbrace"}, i) > i /\ id(Until({"lbrace"}, i)) # Failed
Behind(i) == id(Until({"lbrace"}, i))

\* The positions that one gets to from i, type by type.
Reached(i) == {j \in Nat : \A S \in SUBSET Nat :
                 i \in S /\ (\A k \in S : Typed(k) => Behind(k) \in S) => j \in S}

\* An id that matches stands in the line.
LEMMA IdBehind ==
  ASSUME line \in Seq(Tokens), NEW i \in Nat, id(Until({"lbrace"}, i)) # Failed
  PROVE  /\ Behind(i) \in Nat
         /\ Until({"lbrace"}, i) \in 1..Len(line) /\ At(Until({"lbrace"}, i)) = "lbrace"
<1> DEFINE end == Until({"lbrace"}, i)
<1>1. At(end) = "lbrace" /\ id(end) = end + 3
  BY DEF id
<1> HIDE DEF end
<1>2. end \in 1..Len(line)
  BY <1>1, TokensAre, InLine
<1>3. Len(line) \in Nat
  OBVIOUS
<1>4. end + 3 \in Nat
  BY <1>2, <1>3
<1> QED
  BY <1>1, <1>2, <1>4 DEF end, Behind

\* The recursion has a solution: the last position that one gets to.
LEMMA AmountTypesAre ==
  ASSUME line \in Seq(Tokens), NEW i \in Nat
  PROVE  AmountTypes[i] = IF Typed(i) THEN AmountTypes[Behind(i)] ELSE i
<1> DEFINE Ends(n) == {j \in Reached(n) : ~Typed(j)}
           f == [n \in Nat |-> CHOOSE j : j \in Ends(n)]
<1>1. ASSUME NEW n \in Nat, Typed(n) PROVE Behind(n) \in Nat
  BY <1>1, IdBehind DEF Typed
<1>2. ASSUME NEW n \in Nat, ~Typed(n) PROVE f[n] = n
  <2>1. n \in Reached(n)
    BY DEF Reached
  <2>2. ASSUME NEW j \in Reached(n) PROVE j = n
    <3>1. n \in {n} /\ {n} \in SUBSET Nat /\ \A k \in {n} : Typed(k) => Behind(k) \in {n}
      BY <1>2
    <3>2. j \in {n}
      BY <2>2, <3>1 DEF Reached
    <3> QED
      BY <3>2
  <2>3. Ends(n) = {n}
    BY <1>2, <2>1, <2>2
  <2> QED
    BY <2>3
<1>3. ASSUME NEW n \in Nat, Typed(n) PROVE f[n] = f[Behind(n)]
  <2>1. Behind(n) \in Nat
    BY <1>1, <1>3
  <2>2. ASSUME NEW j \in Reached(Behind(n)) PROVE j \in Reached(n)
    <3>1. j \in Nat
      BY <2>2 DEF Reached
    <3>2. ASSUME NEW S \in SUBSET Nat, n \in S, \A k \in S : Typed(k) => Behind(k) \in S PROVE j \in S
      <4>1. Behind(n) \in S
        BY <1>3, <3>2
      <4> QED
        BY <2>2, <3>2, <4>1 DEF Reached
    <3> QED
      BY <3>1, <3>2 DEF Reached
  <2>3. ASSUME NEW j \in Reached(n), j # n PROVE j \in Reached(Behind(n))
    <3>1. j \in Nat
      BY <2>3 DEF Reached
    <3>2. ASSUME NEW S \in SUBSET Nat, Behind(n) \in S, \A k \in S : Typed(k) => Behind(k) \in S PROVE j \in S
      <4> DEFINE R == S \cup {n}
      <4>1. R \in SUBSET Nat /\ n \in R /\ \A k \in R : Typed(k) => Behind(k) \in R
        BY <3>2
      <4> HIDE DEF R
      <4>2. j \in R
        BY <2>3, <4>1 DEF Reached
      <4> QED
        BY <2>3, <4>2 DEF R
    <3> QED
      BY <3>1, <3>2 DEF Reached
  <2>4. Ends(n) = Ends(Behind(n))
    BY <1>3, <2>2, <2>3
  <2> HIDE DEF Last
  <2> QED
    BY <2>1, <2>4
<1> HIDE DEF f
<1>4. f = [n \in Nat |-> IF Typed(n) THEN f[Behind(n)] ELSE n]
  <2> DEFINE g == [n \in Nat |-> IF Typed(n) THEN f[Behind(n)] ELSE n]
  <2>1. \A n \in Nat : f[n] = g[n]
    BY <1>2, <1>3
  <2>2. f = [n \in Nat |-> f[n]]
    BY DEF f
  <2>3. f = g
    BY <2>1, <2>2
  <2> QED
    BY <2>3
<1>5. AmountTypes = [n \in Nat |-> IF Typed(n) THEN AmountTypes[Behind(n)] ELSE n]
  BY <1>4 DEF AmountTypes, Typed, Behind
<1> QED
  BY <1>5

-----------------------------------------------------------------------------
(* Parts as the game writes them                                           *)

\* The tokens of a text, one by one.
LEMMA TextsAre ==
  /\ \A c \in Characters :
       \/ c = [text |-> <<"[", "@", Name, "]">>, means |-> [is_player |-> TRUE, name |-> <<Name>>]]
       \/ c = [text |-> <<"[", "@", Name, ":", Word, "lbrace", Big, "rbrace", "]">>,
               means |-> [is_player |-> TRUE, name |-> <<Name, ":", Word>>]]
       \/ c = [text |-> <<"[", Word, "lbrace", Big, "rbrace", ":", Big, "]">>,
               means |-> [is_player |-> FALSE, name |-> <<Word>>]]
       \/ c = [text |-> <<"[", "]">>, means |-> [is_player |-> FALSE, name |-> <<>>]]
  /\ \A c \in Abilities :
       \/ c = [text |-> <<"[", Name, "lbrace", Big, "rbrace", "]">>, means |-> [name |-> <<Name>>, id |-> Big]]
       \/ c = [text |-> <<"[", "]">>, means |-> [name |-> <<>>, id |-> Unset]]
  /\ \A c \in Types :
       c = [text |-> <<"[", Word, "lbrace", Small, "rbrace">>, means |-> [name |-> <<Word>>, id |-> Small]]
  /\ \A c \in Actions :
       c = [text |-> <<"colon_blank", Name, Word, "lbrace", Big, "rbrace", "]">>,
            means |-> [name |-> <<Name, Word>>, id |-> Big]]
  /\ \A c \in Amounts :
       \/ c = [text |-> <<"(", ")">>, means |-> [value |-> Unset, is_critical |-> Unset]]
       \/ c = [text |-> <<"(", Word, "lbrace", Big, "rbrace", ")">>,
               means |-> [value |-> Unset, is_critical |-> Unset]]
       \/ c = [text |-> <<"(", Small, ")">>, means |-> [value |-> Small, is_critical |-> FALSE]]
       \/ c = [text |-> <<"(", Small, "*", Word, "lbrace", Big, "rbrace", ")">>,
               means |-> [value |-> Small, is_critical |-> TRUE]]
       \/ c = [text |-> <<"(", Small, Word, "lbrace", Big, "rbrace", Name, "lbrace", Small, "rbrace", ")">>,
               means |-> [value |-> Small, is_critical |-> FALSE]]
<1>1. <<"[", "@", Name, ":", Word>> \o Id(Big) \o <<"]">>
        = <<"[", "@", Name, ":", Word, "lbrace", Big, "rbrace", "]">>
  <2> DEFINE s == <<"[", "@", Name, ":", Word>> \o Id(Big) \o <<"]">>
             u == <<"[", "@", Name, ":", Word, "lbrace", Big, "rbrace", "]">>
  <2>1. s \in Seq(Tokens) /\ u \in Seq(Tokens) /\ Len(s) = 9 /\ Len(u) = 9
    BY TokensAre, SMT DEF Id
  <2>2. \A k \in 1..9 : s[k] = u[k]
    BY SMT DEF Id
  <2> HIDE DEF s, u
  <2>3. s = u
    BY <2>1, <2>2, SeqEqual
  <2> QED
    BY <2>3 DEF s, u
<1>2. <<"[", Word>> \o Id(Big) \o <<":", Big, "]">>
        = <<"[", Word, "lbrace", Big, "rbrace", ":", Big, "]">>
  <2> DEFINE s == <<"[", Word>> \o Id(Big) \o <<":", Big, "]">>
             u == <<"[", Word, "lbrace", Big, "rbrace", ":", Big, "]">>
  <2>1. s \in Seq(Tokens) /\ u \in Seq(Tokens) /\ Len(s) = 8 /\ Len(u) = 8
    BY TokensAre, SMT DEF Id
  <2>2. \A k \in 1..8 : s[k] = u[k]
    BY SMT DEF Id
  <2> HIDE DEF s, u
  <2>3. s = u
    BY <2>1, <2>2, SeqEqual
  <2> QED
    BY <2>3 DEF s, u
<1>3. <<"[", Name>> \o Id(Big) \o <<"]">>
        = <<"[", Name, "lbrace", Big, "rbrace", "]">>
  <2> DEFINE s == <<"[", Name>> \o Id(Big) \o <<"]">>
             u == <<"[", Name, "lbrace", Big, "rbrace", "]">>
  <2>1. s \in Seq(Tokens) /\ u \in Seq(Tokens) /\ Len(s) = 6 /\ Len(u) = 6
    BY TokensAre, SMT DEF Id
  <2>2. \A k \in 1..6 : s[k] = u[k]
    BY SMT DEF Id
  <2> HIDE DEF s, u
  <2>3. s = u
    BY <2>1, <2>2, SeqEqual
  <2> QED
    BY <2>3 DEF s, u
<1>4. <<"[", Word>> \o Id(Small)
        = <<"[", Word, "lbrace", Small, "rbrace">>
  <2> DEFINE s == <<"[", Word>> \o Id(Small)
             u == <<"[", Word, "lbrace", Small, "rbrace">>
  <2>1. s \in Seq(Tokens) /\ u \in Seq(Tokens) /\ Len(s) = 5 /\ Len(u) = 5
    BY TokensAre, SMT DEF Id
  <2>2. \A k \in 1..5 : s[k] = u[k]
    BY SMT DEF Id
  <2> HIDE DEF s, u
  <2>3. s = u
    BY <2>1, <2>2, SeqEqual
  <2> QED
    BY <2>3 DEF s, u
<1>5. <<"colon_blank", Name, Word>> \o Id(Big) \o <<"]">>
        = <<"colon_blank", Name, Word, "lbrace", Big, "rbrace", "]">>
  <2> DEFINE s == <<"colon_blank", Name, Word>> \o Id(Big) \o <<"]">>
             u == <<"colon_blank", Name, Word, "lbrace", Big, "rbrace", "]">>
  <2>1. s \in Seq(Tokens) /\ u \in Seq(Tokens) /\ Len(s) = 7 /\ Len(u) = 7
    BY TokensAre, SMT DEF Id
  <2>2. \A k \in 1..7 : s[k] = u[k]
    BY SMT DEF Id
  <2> HIDE DEF s, u
  <2>3. s = u
    BY <2>1, <2>2, SeqEqual
  <2> QED
    BY <2>3 DEF s, u
<1>6. <<"(", Word>> \o Id(Big) \o <<")">>
        = <<"(", Word, "lbrace", Big, "rbrace", ")">>
  <2> DEFINE s == <<"(", Word>> \o Id(Big) \o <<")">>
             u == <<"(", Word, "lbrace", Big, "rbrace", ")">>
  <2>1. s \in Seq(Tokens) /\ u \in Seq(Tokens) /\ Len(s) = 6 /\ Len(u) = 6
    BY TokensAre, SMT DEF Id
  <2>2. \A k \in 1..6 : s[k] = u[k]
    BY SMT DEF Id
  <2> HIDE DEF s, u
  <2>3. s = u
    BY <2>1, <2>2, SeqEqual
  <2> QED
    BY <2>3 DEF s, u
<1>7. <<"(", Small, "*", Word>> \o Id(Big) \o <<")">>
        = <<"(", Small, "*", Word, "lbrace", Big, "rbrace", ")">>
  <2> DEFINE s == <<"(", Small, "*", Word>> \o Id(Big) \o <<")">>
             u == <<"(", Small, "*", Word, "lbrace", Big, "rbrace", ")">>
  <2>1. s \in Seq(Tokens) /\ u \in Seq(Tokens) /\ Len(s) = 8 /\ Len(u) = 8
    BY TokensAre, SMT DEF Id
  <2>2. \A k \in 1..8 : s[k] = u[k]
    BY SMT DEF Id
  <2> HIDE DEF s, u
  <2>3. s = u
    BY <2>1, <2>2, SeqEqual
  <2> QED
    BY <2>3 DEF s, u
<1>8. <<"(", Small, Word>> \o Id(Big) \o <<Name>> \o Id(Small) \o <<")">>
        = <<"(", Small, Word, "lbrace", Big, "rbrace", Name, "lbrace", Small, "rbrace", ")">>
  <2> DEFINE s == <<"(", Small, Word>> \o Id(Big) \o <<Name>> \o Id(Small) \o <<")">>
             u == <<"(", Small, Word, "lbrace", Big, "rbrace", Name, "lbrace", Small, "rbrace", ")">>
  <2>1. s \in Seq(Tokens) /\ u \in Seq(Tokens) /\ Len(s) = 11 /\ Len(u) = 11
    BY TokensAre, SMT DEF Id
  <2>2. \A k \in 1..11 : s[k] = u[k]
    BY SMT DEF Id
  <2> HIDE DEF s, u
  <2>3. s = u
    BY <2>1, <2>2, SeqEqual
  <2> QED
    BY <2>3 DEF s, u
<1> QED
  BY <1>1, <1>2, <1>3, <1>4, <1>5, <1>6, <1>7, <1>8, Zenon DEF Characters, Abilities, Types, Actions, Amounts

\* A character that stands in the line is read as what it means.
LEMMA CharacterRead ==
  ASSUME line \in Seq(Tokens), NEW i \in Nat, 1 <= i, NEW attr, NEW c \in Characters, Stands(c.text, i)
  PROVE  character(i, attr) = [first |-> i + Len(c.text), attr |-> c.means]
<1>1. CASE c = [text |-> <<"[", "@", Name, "]">>, means |-> [is_player |-> TRUE, name |-> <<Name>>]]
  <2>1. Len(c.text) = 4 /\ At(i) = "[" /\ At(i + 1) = "@" /\ At(i + 2) = Name /\ At(i + 3) = "]"
    BY <1>1 DEF Stands
  <2> QED
    BY <1>1, <2>1, PlayerIs
<1>2. CASE c = [text |-> <<"[", "@", Name, ":", Word, "lbrace", Big, "rbrace", "]">>,
               means |-> [is_player |-> TRUE, name |-> <<Name, ":", Word>>]]
  <2>1. /\ Len(c.text) = 9 /\ At(i) = "[" /\ At(i + 1) = "@" /\ At(i + 2) = Name /\ At(i + 3) = ":"
        /\ At(i + 4) = Word /\ At(i + 5) = "lbrace" /\ At(i + 6) = Big /\ At(i + 7) = "rbrace"
        /\ At(i + 8) = "]"
    BY <1>2 DEF Stands
  <2> QED
    BY <1>2, <2>1, CompanionIs
<1>3. CASE c = [text |-> <<"[", Word, "lbrace", Big, "rbrace", ":", Big, "]">>,
               means |-> [is_player |-> FALSE, name |-> <<Word>>]]
  <2>1. /\ Len(c.text) = 8 /\ At(i) = "[" /\ At(i + 1) = Word /\ At(i + 2) = "lbrace" /\ At(i + 3) = Big
        /\ At(i + 4) = "rbrace" /\ At(i + 5) = ":" /\ At(i + 6) = Big /\ At(i + 7) = "]"
    BY <1>3 DEF Stands
  <2> QED
    BY <1>3, <2>1, OtherIs
<1>4. CASE c = [text |-> <<"[", "]">>, means |-> [is_player |-> FALSE, name |-> <<>>]]
  <2>1. Len(c.text) = 2 /\ At(i) = "[" /\ At(i + 1) = "]"
    BY <1>4 DEF Stands
  <2> QED
    BY <1>4, <2>1, NobodyIs
<1> QED
  BY <1>1, <1>2, <1>3, <1>4, TextsAre, Zenon

\* An ability, or none: its members stay as they were.
LEMMA AbilityRead ==
  ASSUME line \in Seq(Tokens), NEW i \in Nat, 1 <= i, NEW c \in Abilities, Stands(c.text, i)
  PROVE  ability(i, Default.ability) = [first |-> i + Len(c.text), attr |-> c.means]
<1>1. CASE c = [text |-> <<"[", Name, "lbrace", Big, "rbrace", "]">>, means |-> [name |-> <<Name>>, id |-> Big]]
  <2>1. /\ Len(c.text) = 6 /\ At(i) = "[" /\ At(i + 1) = Name /\ At(i + 2) = "lbrace" /\ At(i + 3) = Big
        /\ At(i + 4) = "rbrace" /\ At(i + 5) = "]"
    BY <1>1 DEF Stands
  <2> QED
    BY <1>1, <2>1, AbilityIs
<1>2. CASE c = [text |-> <<"[", "]">>, means |-> [name |-> <<>>, id |-> Unset]]
  <2>1. Len(c.text) = 2 /\ At(i) = "[" /\ At(i + 1) = "]"
    BY <1>2 DEF Stands
  <2>2. Default.ability = [name |-> <<>>, id |-> Unset]
    BY DEF Default, Fields
  <2> QED
    BY <1>2, <2>1, <2>2, AbilityIs
<1> QED
  BY <1>1, <1>2, TextsAre, Zenon

\* A type, as the line has it.
LEMMA TypeRead ==
  ASSUME line \in Seq(Tokens), NEW i \in Nat, 1 <= i, NEW attr, NEW c \in Types, Stands(c.text, i)
  PROVE  type(i, attr) = [first |-> i + Len(c.text), attr |-> c.means]
<1>1. c = [text |-> <<"[", Word, "lbrace", Small, "rbrace">>, means |-> [name |-> <<Word>>, id |-> Small]]
  BY TextsAre, Zenon
<1>2. /\ Len(c.text) = 5 /\ At(i) = "[" /\ At(i + 1) = Word /\ At(i + 2) = "lbrace" /\ At(i + 3) = Small
      /\ At(i + 4) = "rbrace"
  BY <1>1 DEF Stands
<1> QED
  BY <1>1, <1>2, TypeIs

\* An action, up to the bracket that the type has left open.
LEMMA ActionRead ==
  ASSUME line \in Seq(Tokens), NEW i \in Nat, 1 <= i, NEW attr, NEW c \in Actions, Stands(c.text, i)
  PROVE  action(i, attr) = [first |-> i + Len(c.text), attr |-> c.means]
<1>1. c = [text |-> <<"colon_blank", Name, Word, "lbrace", Big, "rbrace", "]">>,
           means |-> [name |-> <<Name, Word>>, id |-> Big]]
  BY TextsAre, Zenon
<1>2. /\ Len(c.text) = 7 /\ At(i) = "colon_blank" /\ At(i + 1) = Name /\ At(i + 2) = Word
      /\ At(i + 3) = "lbrace" /\ At(i + 4) = Big /\ At(i + 5) = "rbrace" /\ At(i + 6) = "]"
  BY <1>1 DEF Stands
<1> QED
  BY <1>1, <1>2, ActionIs

\* No type follows where no brace does.
LEMMA NoTypes ==
  ASSUME line \in Seq(Tokens), NEW i \in Nat, \A k \in Nat : k >= i => At(k) # "lbrace"
  PROVE  AmountTypes[i] = i
<1>1. ~Typed(i)
  <2> DEFINE end == Until({"lbrace"}, i)
  <2>1. ASSUME end > i, id(end) # Failed PROVE FALSE
    <3>1. end \in 1..Len(line) /\ At(end) = "lbrace"
      BY <2>1, IdBehind
    <3>2. end \in Nat /\ end >= i
      <4>1. Len(line) \in Nat
        OBVIOUS
      <4> HIDE DEF end
      <4> QED
        BY <2>1, <3>1, <4>1
    <3> QED
      BY <3>1, <3>2
  <2> QED
    BY <2>1 DEF Typed
<1> QED
  BY <1>1, AmountTypesAre

\* One type, a name and an id.
LEMMA OneType ==
  ASSUME line \in Seq(Tokens), NEW i \in Nat, 1 <= i, At(i) \in {Word, Name}, At(i + 1) = "lbrace",
         At(i + 2) \in Numbers, At(i + 3) = "rbrace"
  PROVE  AmountTypes[i] = AmountTypes[i + 4]
<1>1. Until({"lbrace"}, i) = i + 1
  <2>1. At(i) \in Tokens \ {"lbrace"} /\ At(i + 1) \in Tokens \cap {"lbrace"}
    BY TokensAre, TokensDiffer
  <2> QED
    BY <2>1, UntilNext
<1>2. id(i + 1) = i + 4 /\ i + 4 # Failed
  <2>1. i + 1 \in Nat /\ (i + 1) + 1 = i + 2 /\ (i + 1) + 2 = i + 3 /\ (i + 1) + 3 = i + 4 /\ i + 4 # Failed
    BY DEF Failed
  <2> QED
    BY <2>1, IdAt
<1>3. Typed(i) /\ Behind(i) = i + 4
  BY <1>1, <1>2 DEF Typed, Behind
<1> QED
  BY <1>3, AmountTypesAre

\* An amount, with or without types; one that is no number writes nothing.
LEMMA AmountRead ==
  ASSUME line \in Seq(Tokens), NEW i \in Nat, 1 <= i, NEW c \in Amounts, Stands(c.text, i),
         \A k \in Nat : k >= i + Len(c.text) => At(k) # "lbrace"
  PROVE  amount(i, Default.amount) = [first |-> i + Len(c.text), attr |-> c.means]
<1> DEFINE attr == Default.amount
<1>1. attr = [value |-> Unset, is_critical |-> Unset]
  BY DEF Default, Fields
<1> HIDE DEF attr
<1>2. ASSUME At(i) = "(" PROVE Lit("(", i) = i + 1 /\ i + 1 # Failed
  BY <1>2, LitAt DEF Failed
<1>3. ASSUME NEW j \in Nat, 1 <= j, At(j) = ")" PROVE Lit(")", Until({")"}, j)) = j + 1
  <2>1. At(j) \in Tokens \cap {")"}
    BY <1>3, TokensAre
  <2>2. Until({")"}, j) = j
    BY <1>3, <2>1, UntilNext
  <2> QED
    BY <1>3, <2>2, LitAt
<1>4. CASE c = [text |-> <<"(", ")">>, means |-> [value |-> Unset, is_critical |-> Unset]]
  <2>1. Len(c.text) = 2 /\ At(i) = "(" /\ At(i + 1) = ")"
    BY <1>4 DEF Stands
  <2>2. At(i + 1) # Small
    BY <2>1, TokensDiffer, TokensAre
  <2>3. Lit(")", Until({")"}, i + 1)) = i + 2
    BY <1>3, <2>1
  <2> QED
    BY <1>1, <1>2, <1>4, <2>1, <2>2, <2>3 DEF amount, attr
<1>5. CASE c = [text |-> <<"(", Word, "lbrace", Big, "rbrace", ")">>,
                means |-> [value |-> Unset, is_critical |-> Unset]]
  <2>1. /\ Len(c.text) = 6 /\ At(i) = "(" /\ At(i + 1) = Word /\ At(i + 2) = "lbrace" /\ At(i + 3) = Big
        /\ At(i + 4) = "rbrace" /\ At(i + 5) = ")"
    BY <1>5 DEF Stands
  <2>2. At(i + 1) # Small
    BY <2>1, TokensDiffer
  <2>3. Until({")"}, i + 1) = i + 5
    <3>1. ASSUME NEW k \in Int, i + 1 <= k, k < i + 5 PROVE At(k) \in Tokens \ {")"}
      <4>1. k = i + 1 \/ k = i + 2 \/ k = i + 3 \/ k = i + 4
        BY <3>1
      <4> QED
        BY <2>1, <4>1, TokensAre, TokensDiffer
    <3>2. i + 5 <= Len(line) + 1
      <4>1. i + 5 \in 1..Len(line) /\ Len(line) \in Nat
        BY <2>1, TokensAre, InLine
      <4> QED
        BY <4>1
    <3> QED
      BY <2>1, <3>1, <3>2, UntilAt
  <2>4. Lit(")", i + 5) = i + 6
    BY <2>1, LitAt
  <2> QED
    BY <1>1, <1>2, <1>5, <2>1, <2>2, <2>3, <2>4 DEF amount, attr
<1>6. CASE c = [text |-> <<"(", Small, ")">>, means |-> [value |-> Small, is_critical |-> FALSE]]
  <2>1. Len(c.text) = 3 /\ At(i) = "(" /\ At(i + 1) = Small /\ At(i + 2) = ")"
    BY <1>6 DEF Stands
  <2>2. Lit("*", i + 2) = Failed
    BY <2>1, LitAt
  <2>3. AmountTypes[i + 2] = i + 2
    <3>1. ASSUME NEW k \in Nat, k >= i + 2 PROVE At(k) # "lbrace"
      <4>1. k = i + 2 \/ k >= i + 3
        BY <3>1
      <4> QED
        BY <2>1, <4>1
    <3> QED
      BY <3>1, NoTypes
  <2>4. Lit(")", Until({")"}, i + 2)) = i + 3
    BY <1>3, <2>1
  <2>5. (i + 1) + 1 = i + 2 /\ Else(Lit("*", i + 2), i + 2) = i + 2
    BY <2>2 DEF Else
  <2> QED
    BY <1>1, <1>2, <1>6, <2>1, <2>2, <2>3, <2>4, <2>5 DEF amount, attr
<1>7. CASE c = [text |-> <<"(", Small, "*", Word, "lbrace", Big, "rbrace", ")">>,
                means |-> [value |-> Small, is_critical |-> TRUE]]
  <2>1. /\ Len(c.text) = 8 /\ At(i) = "(" /\ At(i + 1) = Small /\ At(i + 2) = "*" /\ At(i + 3) = Word
        /\ At(i + 4) = "lbrace" /\ At(i + 5) = Big /\ At(i + 6) = "rbrace" /\ At(i + 7) = ")"
    BY <1>7 DEF Stands
  <2>2. Lit("*", i + 2) = i + 3 /\ i + 3 # Failed
    BY <2>1, LitAt DEF Failed
  <2>3. AmountTypes[i + 3] = i + 7
    <3>1. AmountTypes[i + 3] = AmountTypes[i + 7]
      <4>1. /\ i + 3 \in Nat /\ 1 <= i + 3 /\ (i + 3) + 1 = i + 4 /\ (i + 3) + 2 = i + 5
            /\ (i + 3) + 3 = i + 6 /\ (i + 3) + 4 = i + 7
        OBVIOUS
      <4> QED
        BY <2>1, <4>1, OneType DEF Numbers
    <3>2. ASSUME NEW k \in Nat, k >= i + 7 PROVE At(k) # "lbrace"
      <4>1. k = i + 7 \/ k >= i + 8
        BY <3>2
      <4> QED
        BY <2>1, <4>1
    <3> QED
      BY <3>1, <3>2, NoTypes
  <2>4. Lit(")", Until({")"}, i + 7)) = i + 8
    BY <1>3, <2>1
  <2>5. (i + 1) + 1 = i + 2 /\ Else(Lit("*", i + 2), i + 2) = i + 3
    BY <2>2 DEF Else
  <2> QED
    BY <1>1, <1>2, <1>7, <2>1, <2>2, <2>3, <2>4, <2>5 DEF amount, attr
<1>8. CASE c = [text |-> <<"(", Small, Word, "lbrace", Big, "rbrace", Name, "lbrace", Small, "rbrace", ")">>,
                means |-> [value |-> Small, is_critical |-> FALSE]]
  <2>1. /\ Len(c.text) = 11 /\ At(i) = "(" /\ At(i + 1) = Small /\ At(i + 2) = Word
        /\ At(i + 3) = "lbrace" /\ At(i + 4) = Big /\ At(i + 5) = "rbrace" /\ At(i + 6) = Name
        /\ At(i + 7) = "lbrace" /\ At(i + 8) = Small /\ At(i + 9) = "rbrace" /\ At(i + 10) = ")"
    BY <1>8 DEF Stands
  <2>2. Lit("*", i + 2) = Failed
    BY <2>1, LitAt, TokensAre, TokensDiffer
  <2>3. AmountTypes[i + 2] = i + 10
    <3>1. AmountTypes[i + 2] = AmountTypes[i + 6]
      <4>1. /\ i + 2 \in Nat /\ 1 <= i + 2 /\ (i + 2) + 1 = i + 3 /\ (i + 2) + 2 = i + 4
            /\ (i + 2) + 3 = i + 5 /\ (i + 2) + 4 = i + 6
        OBVIOUS
      <4> QED
        BY <2>1, <4>1, OneType DEF Numbers
    <3>2. AmountTypes[i + 6] = AmountTypes[i + 10]
      <4>1. /\ i + 6 \in Nat /\ 1 <= i + 6 /\ (i + 6) + 1 = i + 7 /\ (i + 6) + 2 = i + 8
            /\ (i + 6) + 3 = i + 9 /\ (i + 6) + 4 = i + 10
        OBVIOUS
      <4> QED
        BY <2>1, <4>1, OneType DEF Numbers
    <3>3. ASSUME NEW k \in Nat, k >= i + 10 PROVE At(k) # "lbrace"
      <4>1. k = i + 10 \/ k >= i + 11
        BY <3>3
      <4> QED
        BY <2>1, <4>1
    <3> QED
      BY <3>1, <3>2, <3>3, NoTypes
  <2>4. Lit(")", Until({")"}, i + 10)) = i + 11
    BY <1>3, <2>1
  <2>5. (i + 1) + 1 = i + 2 /\ Else(Lit("*", i + 2), i + 2) = i + 2
    BY <2>2 DEF Else
  <2> QED
    BY <1>1, <1>2, <1>8, <2>1, <2>2, <2>3, <2>4, <2>5 DEF amount, attr
<1> QED
  BY <1>4, <1>5, <1>6, <1>7, <1>8, TextsAre, Zenon

-----------------------------------------------------------------------------
(* The parts of a line                                                     *)

\* Where the parts of an entry begin in its text.
Starts(e) ==
  LET s2 == 1 + Len(e.time.text)
      s3 == s2 + Len(e.who.text)
      s4 == s3 + Len(e.target.text)
      s5 == s4 + Len(e.ability.text)
      s6 == s5 + Len(e.type.text)
      s7 == s6 + Len(e.action.text)
      s8 == s7 + Len(e.amount.text)
  IN <<1, s2, s3, s4, s5, s6, s7, s8>>

StandsIn(s, text, i) == \A k \in 1..Len(text) : i + k - 1 \in 1..Len(s) /\ s[i + k - 1] = text[k]

\* What is appended stands behind what was there, and leaves it where it stood.
LEMMA Appended ==
  ASSUME NEW s \in Seq(Tokens), NEW t \in Seq(Tokens)
  PROVE  /\ s \o t \in Seq(Tokens) /\ Len(s \o t) = Len(s) + Len(t)
         /\ StandsIn(s \o t, t, Len(s) + 1)
         /\ \A text, i : StandsIn(s, text, i) => StandsIn(s \o t, text, i)
<1>1. /\ s \o t \in Seq(Tokens) /\ Len(s \o t) = Len(s) + Len(t)
      /\ \A k \in 1..(Len(s) + Len(t)) : (s \o t)[k] = IF k <= Len(s) THEN s[k] ELSE t[k - Len(s)]
  BY ConcatProperties
<1>2. Len(s) \in Nat /\ Len(t) \in Nat
  OBVIOUS
<1> DEFINE u == s \o t
<1> HIDE DEF u
<1>3. StandsIn(u, t, Len(s) + 1)
  <2>1. ASSUME NEW k \in 1..Len(t) PROVE (Len(s) + 1) + k - 1 \in 1..Len(u) /\ u[(Len(s) + 1) + k - 1] = t[k]
    <3>1. (Len(s) + 1) + k - 1 = Len(s) + k /\ Len(s) + k \in 1..(Len(s) + Len(t)) /\ ~(Len(s) + k <= Len(s))
          /\ (Len(s) + k) - Len(s) = k
      BY <1>2
    <3> QED
      BY <1>1, <3>1 DEF u
  <2> QED
    BY <2>1 DEF StandsIn
<1>4. ASSUME NEW text, NEW i, StandsIn(s, text, i) PROVE StandsIn(u, text, i)
  <2>1. ASSUME NEW k \in 1..Len(text) PROVE i + k - 1 \in 1..Len(u) /\ u[i + k - 1] = text[k]
    <3>1. i + k - 1 \in 1..Len(s) /\ s[i + k - 1] = text[k]
      BY <1>4 DEF StandsIn
    <3>2. \A j \in 1..Len(s) : j \in 1..Len(u) /\ u[j] = s[j]
      BY <1>1, <1>2 DEF u
    <3> QED
      BY <3>1, <3>2
  <2> QED
    BY <2>1 DEF StandsIn
<1> QED
  BY <1>1, <1>3, <1>4 DEF u

\* In a line of the game, each part stands where it begins.
LEMMA PartsStand ==
  ASSUME NEW e \in Entries, line = Text(e)
  PROVE  /\ Stands(e.time.text, 1) /\ Stands(e.who.text, Starts(e)[2])
         /\ Stands(e.target.text, Starts(e)[3]) /\ Stands(e.ability.text, Starts(e)[4])
         /\ Stands(e.type.text, Starts(e)[5]) /\ Stands(e.action.text, Starts(e)[6])
         /\ Stands(e.amount.text, Starts(e)[7]) /\ Stands(e.threat.text, Starts(e)[8])
         /\ Len(line) = Starts(e)[8] + Len(e.threat.text) - 1
         /\ \A n \in 1..8 : Starts(e)[n] \in Nat /\ 1 <= Starts(e)[n]
<1>1. /\ e.who.text \in Seq(Tokens) /\ e.target.text \in Seq(Tokens)
      /\ e.ability.text \in Seq(Tokens) /\ e.type.text \in Seq(Tokens)
      /\ e.action.text \in Seq(Tokens) /\ e.amount.text \in Seq(Tokens)
      /\ e.threat.text \in Seq(Tokens) /\ e.time.text \in Seq(Tokens)
  <2>1. /\ e.who \in Characters /\ e.target \in Characters /\ e.ability \in Abilities
        /\ e.type \in Types /\ e.action \in Actions /\ e.amount \in Amounts
        /\ e.threat \in Threats /\ e.time.text = <<"[", Stamp, "]">>
    BY DEF Entries
  <2>2. <<"[", Stamp, "]">> \in Seq(Tokens)
    BY TokensAre
  <2> QED
    BY <2>1, <2>2, TextsOfParts
<1> DEFINE x1 == e.time.text
           x2 == e.who.text
           x3 == e.target.text
           x4 == e.ability.text
           x5 == e.type.text
           x6 == e.action.text
           x7 == e.amount.text
           x8 == e.threat.text
           p2 == x1 \o x2
           p3 == p2 \o x3
           p4 == p3 \o x4
           p5 == p4 \o x5
           p6 == p5 \o x6
           p7 == p6 \o x7
           p8 == p7 \o x8
<1>2. line = p8
  BY DEF Text
<1>3. /\ Starts(e)[1] = 1 /\ Starts(e)[2] = 1 + Len(x1)
      /\ Starts(e)[3] = Starts(e)[2] + Len(x2) /\ Starts(e)[4] = Starts(e)[3] + Len(x3)
      /\ Starts(e)[5] = Starts(e)[4] + Len(x4) /\ Starts(e)[6] = Starts(e)[5] + Len(x5)
      /\ Starts(e)[7] = Starts(e)[6] + Len(x6) /\ Starts(e)[8] = Starts(e)[7] + Len(x7)
  BY DEF Starts
<1> DEFINE d == Starts(e)
<1> HIDE DEF x1, x2, x3, x4, x5, x6, x7, x8, p2, p3, p4, p5, p6, p7, p8, d
<1>4. /\ x1 \in Seq(Tokens) /\ x2 \in Seq(Tokens) /\ x3 \in Seq(Tokens) /\ x4 \in Seq(Tokens)
      /\ x5 \in Seq(Tokens) /\ x6 \in Seq(Tokens) /\ x7 \in Seq(Tokens) /\ x8 \in Seq(Tokens)
  BY <1>1 DEF x1, x2, x3, x4, x5, x6, x7, x8
<1>5. /\ d[1] = 1 /\ d[2] = 1 + Len(x1) /\ d[3] = d[2] + Len(x2) /\ d[4] = d[3] + Len(x3)
      /\ d[5] = d[4] + Len(x4) /\ d[6] = d[5] + Len(x5) /\ d[7] = d[6] + Len(x6) /\ d[8] = d[7] + Len(x7)
  BY <1>3 DEF d
<1>6. /\ Len(x1) \in Nat /\ Len(x2) \in Nat /\ Len(x3) \in Nat /\ Len(x4) \in Nat
      /\ Len(x5) \in Nat /\ Len(x6) \in Nat /\ Len(x7) \in Nat /\ Len(x8) \in Nat
  BY <1>4
<1>7. \A n \in 1..8 : d[n] \in Nat /\ 1 <= d[n]
  <2>1. \A n \in 1..8 : n = 1 \/ n = 2 \/ n = 3 \/ n = 4 \/ n = 5 \/ n = 6 \/ n = 7 \/ n = 8
    OBVIOUS
  <2>2. d[1] \in Nat /\ 1 <= d[1] /\ d[2] \in Nat /\ 1 <= d[2]
    BY <1>5, <1>6, SMTT(30)
  <2>3. d[3] \in Nat /\ 1 <= d[3] /\ d[4] \in Nat /\ 1 <= d[4]
    BY <1>5, <1>6, <2>2, SMTT(30)
  <2>4. d[5] \in Nat /\ 1 <= d[5] /\ d[6] \in Nat /\ 1 <= d[6]
    BY <1>5, <1>6, <2>3, SMTT(30)
  <2>5. d[7] \in Nat /\ 1 <= d[7] /\ d[8] \in Nat /\ 1 <= d[8]
    BY <1>5, <1>6, <2>4, SMTT(30)
  <2> QED
    BY <2>1, <2>2, <2>3, <2>4, <2>5
<1>8. StandsIn(x1, x1, 1)
  <2>1. ASSUME NEW k \in 1..Len(x1) PROVE 1 + k - 1 \in 1..Len(x1) /\ x1[1 + k - 1] = x1[k]
    <3>1. 1 + k - 1 = k
      BY <1>6
    <3> QED
      BY <3>1
  <2> QED
    BY <2>1 DEF StandsIn
<1>9. /\ p2 \in Seq(Tokens) /\ Len(p2) + 1 = d[3]
      /\ StandsIn(p2, x1, 1) /\ StandsIn(p2, x2, d[2])
  <2>1. d[2] = Len(x1) + 1 /\ d[3] = d[2] + Len(x2) /\ Len(x1) \in Nat /\ Len(x2) \in Nat
    BY <1>5, <1>6, SMTT(30)
  <2>2. /\ p2 \in Seq(Tokens) /\ Len(p2) = Len(x1) + Len(x2)
        /\ StandsIn(p2, x2, d[2])
        /\ \A text, i : StandsIn(x1, text, i) => StandsIn(p2, text, i)
    BY <1>4, <2>1, Appended DEF p2
  <2>3. StandsIn(p2, x1, 1)
    BY <1>8, <2>2
  <2>4. Len(p2) + 1 = d[3]
    BY <2>1, <2>2
  <2> QED
    BY <2>2, <2>3, <2>4
<1>10. /\ p3 \in Seq(Tokens) /\ Len(p3) + 1 = d[4]
       /\ StandsIn(p3, x1, 1) /\ StandsIn(p3, x2, d[2]) /\ StandsIn(p3, x3, d[3])
  <2>1. p2 \in Seq(Tokens) /\ Len(p2) + 1 = d[3]
    BY <1>9
  <2>2. /\ p3 \in Seq(Tokens) /\ Len(p3) = Len(p2) + Len(x3)
        /\ StandsIn(p3, x3, d[3])
        /\ \A text, i : StandsIn(p2, text, i) => StandsIn(p3, text, i)
    BY <1>4, <2>1, Appended DEF p3
  <2>3. /\ StandsIn(p3, x1, 1) /\ StandsIn(p3, x2, d[2])
    BY <1>9, <2>2
  <2>4. Len(p3) + 1 = d[4]
    <3>1. Len(p2) \in Nat /\ Len(x3) \in Nat /\ d[4] = d[3] + Len(x3)
      BY <1>5, <1>6, <2>1
    <3> QED
      BY <2>1, <2>2, <3>1
  <2> QED
    BY <2>2, <2>3, <2>4
<1>11. /\ p4 \in Seq(Tokens) /\ Len(p4) + 1 = d[5]
       /\ StandsIn(p4, x1, 1) /\ StandsIn(p4, x2, d[2]) /\ StandsIn(p4, x3, d[3]) /\ StandsIn(p4, x4, d[4])
  <2>1. p3 \in Seq(Tokens) /\ Len(p3) + 1 = d[4]
    BY <1>10
  <2>2. /\ p4 \in Seq(Tokens) /\ Len(p4) = Len(p3) + Len(x4)
        /\ StandsIn(p4, x4, d[4])
        /\ \A text, i : StandsIn(p3, text, i) => StandsIn(p4, text, i)
    BY <1>4, <2>1, Appended DEF p4
  <2>3. /\ StandsIn(p4, x1, 1) /\ StandsIn(p4, x2, d[2]) /\ StandsIn(p4, x3, d[3])
    BY <1>10, <2>2
  <2>4. Len(p4) + 1 = d[5]
    <3>1. Len(p3) \in Nat /\ Len(x4) \in Nat /\ d[5] = d[4] + Len(x4)
      BY <1>5, <1>6, <2>1
    <3> QED
      BY <2>1, <2>2, <3>1
  <2> QED
    BY <2>2, <2>3, <2>4
<1>12. /\ p5 \in Seq(Tokens) /\ Len(p5) + 1 = d[6]
       /\ StandsIn(p5, x1, 1) /\ StandsIn(p5, x2, d[2]) /\ StandsIn(p5, x3, d[3]) /\ StandsIn(p5, x4, d[4])
       /\ StandsIn(p5, x5, d[5])
  <2>1. p4 \in Seq(Tokens) /\ Len(p4) + 1 = d[5]
    BY <1>11
  <2>2. /\ p5 \in Seq(Tokens) /\ Len(p5) = Len(p4) + Len(x5)
        /\ StandsIn(p5, x5, d[5])
        /\ \A text, i : StandsIn(p4, text, i) => StandsIn(p5, text, i)
    BY <1>4, <2>1, Appended DEF p5
  <2>3. /\ StandsIn(p5, x1, 1) /\ StandsIn(p5, x2, d[2]) /\ StandsIn(p5, x3, d[3]) /\ StandsIn(p5, x4, d[4])
    BY <1>11, <2>2
  <2>4. Len(p5) + 1 = d[6]
    <3>1. Len(p4) \in Nat /\ Len(x5) \in Nat /\ d[6] = d[5] + Len(x5)
      BY <1>5, <1>6, <2>1
    <3> QED
      BY <2>1, <2>2, <3>1
  <2> QED
    BY <2>2, <2>3, <2>4
<1>13. /\ p6 \in Seq(Tokens) /\ Len(p6) + 1 = d[7]
       /\ StandsIn(p6, x1, 1) /\ StandsIn(p6, x2, d[2]) /\ StandsIn(p6, x3, d[3]) /\ StandsIn(p6, x4, d[4])
       /\ StandsIn(p6, x5, d[5]) /\ StandsIn(p6, x6, d[6])
  <2>1. p5 \in Seq(Tokens) /\ Len(p5) + 1 = d[6]
    BY <1>12
  <2>2. /\ p6 \in Seq(Tokens) /\ Len(p6) = Len(p5) + Len(x6)
        /\ StandsIn(p6, x6, d[6])
        /\ \A text, i : StandsIn(p5, text, i) => StandsIn(p6, text, i)
    BY <1>4, <2>1, Appended DEF p6
  <2>3. /\ StandsIn(p6, x1, 1) /\ StandsIn(p6, x2, d[2]) /\ StandsIn(p6, x3, d[3]) /\ StandsIn(p6, x4, d[4])
        /\ StandsIn(p6, x5, d[5])
    BY <1>12, <2>2
  <2>4. Len(p6) + 1 = d[7]
    <3>1. Len(p5) \in Nat /\ Len(x6) \in Nat /\ d[7] = d[6] + Len(x6)
      BY <1>5, <1>6, <2>1
    <3> QED
      BY <2>1, <2>2, <3>1
  <2> QED
    BY <2>2, <2>3, <2>4
<1>14. /\ p7 \in Seq(Tokens) /\ Len(p7) + 1 = d[8]
       /\ StandsIn(p7, x1, 1) /\ StandsIn(p7, x2, d[2]) /\ StandsIn(p7, x3, d[3]) /\ StandsIn(p7, x4, d[4])
       /\ StandsIn(p7, x5, d[5]) /\ StandsIn(p7, x6, d[6]) /\ StandsIn(p7, x7, d[7])
  <2>1. p6 \in Seq(Tokens) /\ Len(p6) + 1 = d[7]
    BY <1>13
  <2>2. /\ p7 \in Seq(Tokens) /\ Len(p7) = Len(p6) + Len(x7)
        /\ StandsIn(p7, x7, d[7])
        /\ \A text, i : StandsIn(p6, text, i) => StandsIn(p7, text, i)
    BY <1>4, <2>1, Appended DEF p7
  <2>3. /\ StandsIn(p7, x1, 1) /\ StandsIn(p7, x2, d[2]) /\ StandsIn(p7, x3, d[3]) /\ StandsIn(p7, x4, d[4])
        /\ StandsIn(p7, x5, d[5]) /\ StandsIn(p7, x6, d[6])
    BY <1>13, <2>2
  <2>4. Len(p7) + 1 = d[8]
    <3>1. Len(p6) \in Nat /\ Len(x7) \in Nat /\ d[8] = d[7] + Len(x7)
      BY <1>5, <1>6, <2>1
    <3> QED
      BY <2>1, <2>2, <3>1
  <2> QED
    BY <2>2, <2>3, <2>4
<1>15. /\ p8 \in Seq(Tokens) /\ Len(p8) = d[8] + Len(x8) - 1
       /\ StandsIn(p8, x1, 1) /\ StandsIn(p8, x2, d[2]) /\ StandsIn(p8, x3, d[3]) /\ StandsIn(p8, x4, d[4])
       /\ StandsIn(p8, x5, d[5]) /\ StandsIn(p8, x6, d[6]) /\ StandsIn(p8, x7, d[7])
       /\ StandsIn(p8, x8, d[8])
  <2>1. p7 \in Seq(Tokens) /\ Len(p7) + 1 = d[8]
    BY <1>14
  <2>2. /\ p8 \in Seq(Tokens) /\ Len(p8) = Len(p7) + Len(x8)
        /\ StandsIn(p8, x8, d[8])
        /\ \A text, i : StandsIn(p7, text, i) => StandsIn(p8, text, i)
    BY <1>4, <2>1, Appended DEF p8
  <2>3. /\ StandsIn(p8, x1, 1) /\ StandsIn(p8, x2, d[2]) /\ StandsIn(p8, x3, d[3]) /\ StandsIn(p8, x4, d[4])
        /\ StandsIn(p8, x5, d[5]) /\ StandsIn(p8, x6, d[6]) /\ StandsIn(p8, x7, d[7])
    BY <1>14, <2>2
  <2>4. Len(p8) = d[8] + Len(x8) - 1
    <3>1. Len(p7) \in Nat /\ Len(x8) \in Nat
      BY <1>5, <1>6, <2>1
    <3> QED
      BY <2>1, <2>2, <3>1
  <2> QED
    BY <2>2, <2>3, <2>4
<1>16. ASSUME NEW text, NEW i, StandsIn(line, text, i) PROVE Stands(text, i)
  BY <1>16 DEF Stands, StandsIn, At
<1>17. /\ Stands(x1, 1) /\ Stands(x2, d[2]) /\ Stands(x3, d[3]) /\ Stands(x4, d[4])
       /\ Stands(x5, d[5]) /\ Stands(x6, d[6]) /\ Stands(x7, d[7]) /\ Stands(x8, d[8])
  BY <1>2, <1>15, <1>16
<1> QED
  BY <1>2, <1>7, <1>15, <1>17 DEF x1, x2, x3, x4, x5, x6, x7, x8, d

\* No brace follows the amount.
LEMMA NoBraceBehind ==
  ASSUME NEW e \in Entries, line = Text(e), NEW k \in Nat, k >= Starts(e)[8]
  PROVE  At(k) # "lbrace"
<1> DEFINE s == Starts(e)[8]
           x == e.threat.text
<1>1. /\ Stands(x, s) /\ Len(line) = s + Len(x) - 1 /\ s \in Nat /\ 1 <= s
  BY PartsStand
<1>2. x = <<>> \/ x = <<"<", Small, ">">>
  BY DEF Entries, Threats
<1> HIDE DEF s, x
<1>3. ASSUME k > Len(line) PROVE At(k) # "lbrace"
  <2>1. Len(x) \in Nat
    BY <1>2
  <2>2. k \notin 1..Len(line)
    BY <1>1, <1>3, <2>1
  <2> QED
    BY <2>2 DEF At
<1>4. ASSUME ~(k > Len(line)) PROVE At(k) # "lbrace"
  <2>1. x = <<"<", Small, ">">>
    BY <1>1, <1>2, <1>4 DEF s
  <2>2. At(s) = "<" /\ At(s + 1) = Small /\ At(s + 2) = ">" /\ Len(x) = 3
    BY <1>1, <2>1 DEF Stands
  <2>3. k = s \/ k = s + 1 \/ k = s + 2
    BY <1>1, <1>4, <2>2 DEF s
  <2> QED
    BY <2>2, <2>3, TokensDiffer, TokensAre
<1> QED
  BY <1>3, <1>4

-----------------------------------------------------------------------------
(* Lines of the game                                                       *)

\* A line that is not damaged: the parser is where the next part begins, and
\* the parts before it have been written.
Clean ==
  damage = 0 =>
    /\ entry \in Entries /\ line = Text(entry) /\ result # "unparsed"
    /\ result = "parsing" => first = Starts(entry)[rule]
    /\ result \in {"parsing", "parsed"} =>
         \A n \in 2..7 :
           records[Parts[n]] = IF n < rule THEN entry[Parts[n]].means ELSE Default[Parts[n]]

\* The next part of such a line is parsed, up to where the one behind it begins.
LEMMA PartRead ==
  ASSUME IInv, Clean, damage = 0, result = "parsing", rule \in 2..7
  PROVE  Parse(Parts[rule], first) = [first |-> Starts(entry)[rule + 1], attr |-> entry[Parts[rule]].means]
<1> DEFINE e == entry
           d == Starts(entry)
<1>1. e \in Entries /\ line = Text(e) /\ first = d[rule] /\ line \in Seq(Tokens)
      /\ records[Parts[rule]] = Default[Parts[rule]]
  BY DEF Clean, IInv, TypeOK
<1>2. /\ d[3] = d[2] + Len(e.who.text) /\ d[4] = d[3] + Len(e.target.text)
      /\ d[5] = d[4] + Len(e.ability.text) /\ d[6] = d[5] + Len(e.type.text)
      /\ d[7] = d[6] + Len(e.action.text) /\ d[8] = d[7] + Len(e.amount.text)
  BY DEF Starts
<1>3. /\ Stands(e.who.text, d[2]) /\ Stands(e.target.text, d[3]) /\ Stands(e.ability.text, d[4])
      /\ Stands(e.type.text, d[5]) /\ Stands(e.action.text, d[6]) /\ Stands(e.amount.text, d[7])
      /\ \A n \in 1..8 : d[n] \in Nat /\ 1 <= d[n]
  BY <1>1, PartsStand
<1>4. /\ e.who \in Characters /\ e.target \in Characters /\ e.ability \in Abilities
      /\ e.type \in Types /\ e.action \in Actions /\ e.amount \in Amounts
  BY <1>1 DEF Entries
<1>5. \A k \in Nat : k >= d[8] => At(k) # "lbrace"
  BY <1>1, NoBraceBehind
<1>6. /\ Parts[2] = "who" /\ Parts[3] = "target" /\ Parts[4] = "ability" /\ Parts[5] = "type"
      /\ Parts[6] = "action" /\ Parts[7] = "amount"
  BY DEF Parts
<1>7. /\ Parse("who", first) = character(first, records.who)
      /\ Parse("target", first) = character(first, records.target)
      /\ Parse("ability", first) = ability(first, records.ability)
      /\ Parse("type", first) = type(first, records.type)
      /\ Parse("action", first) = action(first, records.action)
      /\ Parse("amount", first) = amount(first, records.amount)
  BY DEF Parse
<1> HIDE DEF e, d
<1>8. /\ 2 + 1 = 3 /\ 3 + 1 = 4 /\ 4 + 1 = 5 /\ 5 + 1 = 6 /\ 6 + 1 = 7 /\ 7 + 1 = 8
      /\ d[2] \in Nat /\ 1 <= d[2] /\ d[3] \in Nat /\ 1 <= d[3] /\ d[4] \in Nat /\ 1 <= d[4]
      /\ d[5] \in Nat /\ 1 <= d[5] /\ d[6] \in Nat /\ 1 <= d[6] /\ d[7] \in Nat /\ 1 <= d[7]
  BY <1>3
<1>9. CASE rule = 2
  <2>1. character(d[2], records.who) = [first |-> d[2] + Len(e.who.text), attr |-> e.who.means]
    BY <1>1, <1>3, <1>4, <1>8, CharacterRead
  <2> QED
    BY <1>1, <1>2, <1>6, <1>7, <1>8, <1>9, <2>1 DEF e, d
<1>10. CASE rule = 3
  <2>1. character(d[3], records.target) = [first |-> d[3] + Len(e.target.text), attr |-> e.target.means]
    BY <1>1, <1>3, <1>4, <1>8, CharacterRead
  <2> QED
    BY <1>1, <1>2, <1>6, <1>7, <1>8, <1>10, <2>1 DEF e, d
<1>11. CASE rule = 4
  <2>1. ability(d[4], Default.ability) = [first |-> d[4] + Len(e.ability.text), attr |-> e.ability.means]
    BY <1>1, <1>3, <1>4, <1>8, AbilityRead
  <2> QED
    BY <1>1, <1>2, <1>6, <1>7, <1>8, <1>11, <2>1 DEF e, d
<1>12. CASE rule = 5
  <2>1. type(d[5], records.type) = [first |-> d[5] + Len(e.type.text), attr |-> e.type.means]
    BY <1>1, <1>3, <1>4, <1>8, TypeRead
  <2> QED
    BY <1>1, <1>2, <1>6, <1>7, <1>8, <1>12, <2>1 DEF e, d
<1>13. CASE rule = 6
  <2>1. action(d[6], records.action) = [first |-> d[6] + Len(e.action.text), attr |-> e.action.means]
    BY <1>1, <1>3, <1>4, <1>8, ActionRead
  <2> QED
    BY <1>1, <1>2, <1>6, <1>7, <1>8, <1>13, <2>1 DEF e, d
<1>14. CASE rule = 7
  <2>1. \A k \in Nat : k >= d[7] + Len(e.amount.text) => At(k) # "lbrace"
    BY <1>2, <1>5
  <2>2. amount(d[7], Default.amount) = [first |-> d[7] + Len(e.amount.text), attr |-> e.amount.means]
    BY <1>1, <1>3, <1>4, <1>8, <2>1, AmountRead
  <2> QED
    BY <1>1, <1>2, <1>6, <1>7, <1>8, <1>14, <2>2 DEF e, d
<1> QED
  BY <1>9, <1>10, <1>11, <1>12, <1>13, <1>14

\* The line stays clean.
LEMMA CleanStep == IInv /\ Clean /\ [Next]_vars => Clean'
<1> SUFFICES ASSUME IInv, Clean, [Next]_vars, damage' = 0 PROVE Clean'
  BY DEF Clean
<1>1. damage = 0 /\ entry' = entry /\ line' = line
  BY DEF Next, ParseTime, ParsePart, Moves, Seek, Catch, vars
<1>2. entry \in Entries /\ line = Text(entry) /\ result # "unparsed"
  BY <1>1 DEF Clean
<1>3. CASE ParseTime
  <2>1. rule = 1 /\ result = "parsing" /\ records' = records
    BY <1>3 DEF ParseTime, Part, Parts, IInv, TypeOK
  <2>2. first = 1 /\ At(1) = "[" /\ At(2) = Stamp /\ At(3) = "]" /\ Starts(entry)[2] = 4
    <3>1. Starts(entry)[1] = 1 /\ Starts(entry)[2] = 1 + Len(entry.time.text)
      BY DEF Starts
    <3>2. Stands(entry.time.text, 1)
      BY <1>2, PartsStand
    <3>3. entry.time.text = <<"[", Stamp, "]">>
      BY <1>2 DEF Entries
    <3>4. first = 1
      BY <1>1, <2>1, <3>1 DEF Clean
    <3> QED
      BY <3>1, <3>2, <3>3, <3>4 DEF Stands
  <2>3. Lit("]", first + 2) = 4
    BY <2>2, LitAt
  <2>4. first' = 4 /\ result' = "parsing" /\ rule' = 2
    BY <1>3, <2>1, <2>2, <2>3 DEF ParseTime, Moves, Failed
  <2>5. \A n \in 2..7 : records[Parts[n]] = Default[Parts[n]]
    BY <1>1, <2>1 DEF Clean
  <2> QED
    BY <1>1, <1>2, <2>1, <2>2, <2>4, <2>5 DEF Clean
<1>4. CASE ParsePart
  <2> DEFINE p == Parts[rule]
             parsed == Parse(p, first)
  <2>1. /\ result = "parsing" /\ p \notin {"time", "threat"}
        /\ records' = [records EXCEPT ![p] = parsed.attr]
        /\ \/ parsed.first = Failed /\ result' = "unparsed" /\ UNCHANGED rule
           \/ parsed.first # Failed /\ result' = "parsing" /\ rule' = rule + 1
        /\ first' = parsed.first
    BY <1>4 DEF ParsePart, Moves, Part
  <2>2. rule \in 2..7
    BY <2>1 DEF IInv, TypeOK, Parts
  <2>3. parsed = [first |-> Starts(entry)[rule + 1], attr |-> entry[p].means]
    BY <1>1, <2>1, <2>2, PartRead
  <2>4. parsed.first # Failed
    <3>1. rule + 1 \in 1..8
      BY <2>2
    <3>2. Starts(entry)[rule + 1] # 0
      BY <1>2, <3>1, PartsStand
    <3> QED
      BY <2>3, <3>2 DEF Failed
  <2>5. DOMAIN records = {"who", "target", "ability", "type", "action", "amount"}
    BY DEF IInv, TypeOK, Shown, Default, Fields
  <2>6. /\ \A n \in 2..7 : Parts[n] \in DOMAIN records
        /\ \A n \in 2..7 : Parts[n] = p => n = rule
    <3>1. \A n \in 2..7 : n = 2 \/ n = 3 \/ n = 4 \/ n = 5 \/ n = 6 \/ n = 7
      OBVIOUS
    <3>2. /\ Parts[2] = "who" /\ Parts[3] = "target" /\ Parts[4] = "ability" /\ Parts[5] = "type"
          /\ Parts[6] = "action" /\ Parts[7] = "amount"
      BY DEF Parts
    <3> QED
      BY <2>2, <2>5, <3>1, <3>2
  <2>7. \A n \in 2..7 : records[Parts[n]] = IF n < rule THEN entry[Parts[n]].means ELSE Default[Parts[n]]
    BY <1>1, <2>1 DEF Clean
  <2> HIDE DEF p, parsed
  <2>8. rule' = rule + 1 /\ result' = "parsing" /\ first' = Starts(entry)[rule + 1]
    BY <2>1, <2>3, <2>4
  <2>9. ASSUME NEW n \in 2..7
        PROVE  records'[Parts[n]] = IF n < rule' THEN entry[Parts[n]].means ELSE Default[Parts[n]]
    <3>1. CASE n = rule
      <4>1. Parts[n] = p /\ n < rule'
        BY <2>2, <2>8, <3>1 DEF p
      <4>2. records'[p] = entry[p].means
        BY <2>1, <2>3, <2>6, <4>1
      <4> QED
        BY <4>1, <4>2
    <3>2. CASE n # rule
      <4>1. records'[Parts[n]] = records[Parts[n]]
        BY <2>1, <2>6, <3>2
      <4>2. n < rule' <=> n < rule
        BY <2>2, <2>8, <3>2
      <4> QED
        BY <2>7, <4>1, <4>2
    <3> QED
      BY <3>1, <3>2
  <2> QED
    BY <1>1, <1>2, <2>8, <2>9 DEF Clean
<1>5. CASE Seek
  BY <1>1, <1>2, <1>5 DEF Seek, Clean
<1>6. CASE Catch
  BY <1>1, <1>2, <1>6 DEF Catch, Clean
<1>7. CASE UNCHANGED vars
  BY <1>1, <1>2, <1>7 DEF vars, Clean
<1> QED
  BY <1>3, <1>4, <1>5, <1>6, <1>7 DEF Next

\* Every line that the game writes is parsed, and the script reads in the
\* record what the line says, whatever the characters, the ability, the amount
\* and the threat of the line are (parser.h:98-107, 164-171).
THEOREM GameLinesRead == Spec => []GameLinesAreRead
<1>1. Init => Clean
  <2>1. ASSUME Init PROVE Clean
    <3>1. Starts(entry)[1] = 1
      BY DEF Starts
    <3>2. entry \in Entries /\ rule = 1 /\ first = 1 /\ records = Default /\ result = "parsing"
          /\ (damage = 0 => line = Text(entry))
      <4>1. \A n \in 1..Len(Text(entry)) : n # 0
        <5>1. Len(Text(entry)) \in Nat
          BY <2>1, TextOfEntry DEF Init
        <5> QED
          BY <5>1
      <4> QED
        BY <2>1, <4>1 DEF Init
    <3> QED
      BY <3>1, <3>2 DEF Clean
  <2> QED
    BY <2>1
<1>2. IInv /\ Clean => GameLinesAreRead
  <2>1. ASSUME IInv, Clean, damage = 0, result \in {"parsed", "unparsed"}, NEW p \in Shown
        PROVE  result = "parsed" /\ records[p] = entry[p].means
    <3>1. result = "parsed" /\ rule = 8
      BY <2>1 DEF Clean, IInv, TypeOK, Parts
    <3>2. PICK n \in 2..7 : p = Parts[n]
      <4>1. p \in {"who", "target", "ability", "type", "action", "amount"}
        BY <2>1 DEF Shown, Default, Fields
      <4>2. /\ Parts[2] = "who" /\ Parts[3] = "target" /\ Parts[4] = "ability" /\ Parts[5] = "type"
            /\ Parts[6] = "action" /\ Parts[7] = "amount"
        BY DEF Parts
      <4> QED
        BY <4>1, <4>2
    <3> QED
      BY <2>1, <3>1, <3>2 DEF Clean
  <2>2. "who" \in Shown
    BY DEF Shown, Default, Fields
  <2> QED
    BY <2>1, <2>2 DEF GameLinesAreRead
<1> QED
  BY <1>1, <1>2, CleanStep, Invariance, PTL DEF Spec
=============================================================================
