-------------------------- MODULE MCDelayedUnstake --------------------------
(* Small instances of DelayedUnstake for TLC. *)
EXTENDS DelayedUnstake, TLC

CONSTANTS c1, a1, a2, a3, v1, t1, t2

OneCanonical == v1 :> c1

FreshAndTicketSymmetry == Permutations({a1, a2, a3}) \cup Permutations({t1, t2})
=============================================================================
