------------------------------ MODULE Amounts ------------------------------
(* Sums of lamport amounts over a finite set.                               *)
(*                                                                          *)
(* The on-chain program never computes these sums: it maintains counters    *)
(* (total_active_balance, delayed_unstake_cooling_down, ...) that are meant *)
(* to equal them.  Total is the reference the counters are compared with.   *)
(* A sum is the number of individual lamports: the cardinality of a set of  *)
(* numbered units.  Neither a RECURSIVE operator nor an induction is needed *)
(* to evaluate it or to reason about it (AmountsTheorems).                  *)
EXTENDS Integers, FiniteSets

(* The lamports of the members of S: <<x, 1>>, ..., <<x, w[x]>> for each x. *)
Units(S, w) == UNION {{x} \X (1 .. w[x]) : x \in S}

(* The sum of w[x] over the members x of S. *)
Total(S, w) == Cardinality(Units(S, w))

(* u64::saturating_sub *)
SatSub(a, b) == IF a > b THEN a - b ELSE 0

(* Ord::min *)
MinOf(a, b) == IF a < b THEN a ELSE b
=============================================================================
