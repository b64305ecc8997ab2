----------------------------- MODULE MCSpiritor -----------------------------
(* Model-checking instances of Spiritor.                                   *)
EXTENDS Spiritor
=============================================================================
