------------------------ MODULE MCDelayedUnstakeTwo ------------------------
(* Small instances of DelayedUnstake with two validators, for TLC. *)
EXTENDS DelayedUnstake, TLC

CONSTANTS c1, c2, a1, a2, a3, a4, v1, v2, t1

TwoCanonical == v1 :> c1 @@ v2 :> c2

FreshSymmetry == Permutations({a1, a2, a3, a4})
=============================================================================
