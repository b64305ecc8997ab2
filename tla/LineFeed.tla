------------------------------ MODULE LineFeed ------------------------------
(***************************************************************************)
(* What log_reader promises to the script: the lines of one log, each of   *)
(* them once, in the order in which the game wrote them, and none before   *)
(* the game has completed it.                                              *)
(***************************************************************************)
EXTENDS Naturals, Sequences

VARIABLES
  source,  \* how many complete lines the followed log holds
  fed      \* the line numbers handed to the script so far

vars == <<source, fed>>

TypeOK == source \in Nat /\ fed \in Seq(Nat)

Init == source \in Nat /\ fed = <<>>

\* The game completes lines.
Grow == /\ source' \in Nat
        /\ source' > source
        /\ UNCHANGED fed

\* The script gets the next line.
Feed == /\ Len(fed) < source
        /\ fed' = Append(fed, Len(fed) + 1)
        /\ UNCHANGED source

Next == Grow \/ Feed

Spec == Init /\ [][Next]_vars
=============================================================================
