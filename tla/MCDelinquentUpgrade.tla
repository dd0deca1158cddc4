------------------------- MODULE MCDelinquentUpgrade -------------------------
(* Small instances of DelinquentUpgrade for TLC. *)
EXTENDS DelinquentUpgrade, TLC

CONSTANTS a1, a2, a3

AccountSymmetry == Permutations(Accounts)
=============================================================================
