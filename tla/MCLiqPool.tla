----------------------------- MODULE MCLiqPool -----------------------------
(* Small instances of LiqPool for TLC. *)
EXTENDS LiqPool
=============================================================================
