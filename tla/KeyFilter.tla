----------------------------- MODULE KeyFilter ------------------------------
(***************************************************************************)
(* What the main loop promises the user of the keyboards: every keystroke  *)
(* is answered once, and those of one keyboard in the order in which they  *)
(* were made; a stroke that is answered is passed on to the keyboard it    *)
(* came from, or dropped; and what the system sees beside these strokes    *)
(* was pressed by the script.                                              *)
(***************************************************************************)
EXTENDS Sequences

CONSTANTS Keyboards, Strokes

VARIABLES
  pending,  \* the strokes of each keyboard that have not been answered
  output    \* what the system has been given, at which keyboard

vars == <<pending, output>>

Empty == [d \in Keyboards |-> <<>>]

Init == pending = Empty /\ output = <<>>

Type(d) ==
  /\ \E s \in Strokes : pending' = [pending EXCEPT ![d] = Append(@, s)]
  /\ UNCHANGED output

Pass(d) ==
  /\ pending[d] # <<>>
  /\ output'  = Append(output, [to |-> d, stroke |-> Head(pending[d])])
  /\ pending' = [pending EXCEPT ![d] = Tail(@)]

Drop(d) ==
  /\ pending[d] # <<>>
  /\ pending' = [pending EXCEPT ![d] = Tail(@)]
  /\ UNCHANGED output

\* 0 is no stroke, but a key that the script has pressed.
Inject(d) ==
  /\ output' = Append(output, [to |-> d, stroke |-> 0])
  /\ UNCHANGED pending

Next == \E d \in Keyboards : Type(d) \/ Pass(d) \/ Drop(d) \/ Inject(d)

Spec == Init /\ [][Next]_vars
=============================================================================
