------------------------------ MODULE Session -------------------------------
(***************************************************************************)
(* What a session of the program promises: threads are started before the  *)
(* keyboards are captured, the keyboards are captured only while the       *)
(* session serves, and when it ends no thread is left.                     *)
(***************************************************************************)
EXTENDS FiniteSets

CONSTANT Threads  \* the threads besides main's

VARIABLES
  phase,     \* of main
  running,   \* the threads that have been started and have not ended
  captured   \* keystrokes go to the program

vars == <<phase, running, captured>>

Init == phase = "starting" /\ running = {} /\ captured = FALSE

Start(t) ==
  /\ phase = "starting" /\ t \notin running
  /\ running' = running \cup {t}
  /\ UNCHANGED <<phase, captured>>

ThreadEnds(t) ==
  /\ t \in running
  /\ running' = running \ {t}
  /\ UNCHANGED <<phase, captured>>

Serve ==
  /\ phase = "starting"
  /\ phase' = "serving" /\ captured' \in BOOLEAN
  /\ UNCHANGED running

\* Start-up may fail as well as the session may come to its end.
Leave ==
  /\ phase \in {"starting", "serving"}
  /\ phase' = "leaving" /\ captured' = FALSE
  /\ UNCHANGED running

End ==
  /\ phase = "leaving" /\ running = {}
  /\ phase' = "ended"
  /\ UNCHANGED <<running, captured>>

\* The system stops the program, which was not serving yet.
Crash ==
  /\ phase = "starting"
  /\ phase' = "ended" /\ running' = {}
  /\ UNCHANGED captured

Next == \/ \E t \in Threads : Start(t) \/ ThreadEnds(t)
        \/ Serve \/ Leave \/ End \/ Crash

Spec == Init /\ [][Next]_vars
=============================================================================
