--------------------------- MODULE MCStakeSystem ---------------------------
(* Small instances of StakeSystem for TLC. *)
EXTENDS StakeSystem, TLC

CONSTANTS c1, c2, a1, a2, v1, v2, t1, t2

OneCanonical == v1 :> c1
TwoCanonical == v1 :> c1 @@ v2 :> c2

(* Addresses that are not canonical are interchangeable, and so are tickets. *)
FreshSymmetry == Permutations({a1, a2})
FreshAndTicketSymmetry == Permutations({a1, a2}) \cup Permutations({t1, t2})
=============================================================================
