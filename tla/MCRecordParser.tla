-------------------------- MODULE MCRecordParser ----------------------------
(* Model-checking instance of RecordParser.                                *)
EXTENDS RecordParser
=============================================================================
