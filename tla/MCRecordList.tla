---------------------------- MODULE MCRecordList ----------------------------
(* Small instances of RecordList for TLC. *)
EXTENDS RecordList
CONSTANTS a1, a2, a3, a4
=============================================================================
