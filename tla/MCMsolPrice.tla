---------------------------- MODULE MCMsolPrice ----------------------------
(* Small instances of MsolPrice for TLC. *)
EXTENDS MsolPrice
=============================================================================
