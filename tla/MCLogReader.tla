---------------------------- MODULE MCLogReader -----------------------------
(* Model-checking instances of LogReader. *)
EXTENDS LogReader
=============================================================================
