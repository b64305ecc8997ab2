---------------------------- MODULE MCFileWatch -----------------------------
(* A model-checking instance of FileWatch: the watched file and another     *)
(* file beside it.                                                          *)
EXTENDS FileWatch

MCWatched == [dir |-> "", name |-> "a"]
TwoFiles  == {MCWatched, [dir |-> "", name |-> "b"]}
=============================================================================
