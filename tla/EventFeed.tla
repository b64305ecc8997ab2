------------------------------ MODULE EventFeed -----------------------------
(***************************************************************************)
(* What FileWatch promises its user: every event taken from the operating  *)
(* system is passed to the callback once, in the order in which the system *)
(* reported it, and no callback runs once the destructor has returned.     *)
(***************************************************************************)
EXTENDS Naturals, Sequences, SequencesExt

CONSTANT Event

VARIABLES
  reported,  \* events taken from the system that passed the filter
  notified,  \* events the callback has been called for
  gone       \* the FileWatch has been destroyed

vars == <<reported, notified, gone>>

Init == reported = <<>> /\ notified = <<>> /\ gone = FALSE

Report ==
  /\ ~gone
  /\ reported' \in Seq(Event)
  /\ IsPrefix(reported, reported')
  /\ UNCHANGED <<notified, gone>>

Notify ==
  /\ ~gone
  /\ Len(notified) < Len(reported)
  /\ notified' = Append(notified, reported[Len(notified) + 1])
  /\ UNCHANGED <<reported, gone>>

Destroy ==
  /\ gone' = TRUE
  /\ UNCHANGED <<reported, notified>>

Next == Report \/ Notify \/ Destroy

Spec == Init /\ [][Next]_vars
=============================================================================
