-------------------------------- MODULE Calc --------------------------------
(* The arithmetic of calc.rs and fee.rs: amounts in proportion, and fees.    *)
(* Everything is rounded down.  A product is computed in 128 bits; a result  *)
(* that needs more than 64 is an error where it is used.                     *)
EXTENDS Amounts

Proportional(amount, numerator, denominator) ==
  IF denominator = 0 THEN amount ELSE (amount * numerator) \div denominator

ValueFromShares(shares, totalValue, totalShares) ==
  Proportional(shares, totalValue, totalShares)

(* The first mint is one to one. *)
SharesFromValue(value, totalValue, totalShares) ==
  IF totalShares = 0 THEN value ELSE Proportional(value, totalShares, totalValue)

(* Fee, in basis points, and FeeCents, in millionths. *)
MaxBasisPoints == 10000
MaxBpCents == 1000000

FeeBp(bp, n) == (n * bp) \div MaxBasisPoints
FeeCents(cents, n) == (n * cents) \div MaxBpCents
=============================================================================
