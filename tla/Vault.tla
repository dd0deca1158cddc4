------------------------------- MODULE Vault -------------------------------
(* What the staking core promises its users while no stake is slashed: a    *)
(* vault of lamports that keeps books.  It earns, it promises lamports it   *)
(* has on its books, and lamports leave it only to keep a promise or, where *)
(* that is allowed, as a stake released to a user.  Moving lamports between *)
(* the reserve, active stakes and stakes cooling down is none of these.     *)
EXTENDS Integers

CONSTANT MayRelease

VARIABLES
  assets,   \* the lamports the vault holds
  books,    \* the lamports it knows of
  owed      \* the lamports it has promised

vars == <<assets, books, owed>>

Init == assets = 0 /\ books = 0 /\ owed = 0

(* Lamports come in, or the books catch up with what has come in. *)
Earn ==
  /\ assets' >= assets /\ books' >= books /\ books' <= assets'
  /\ owed' = owed

Promise ==
  /\ owed' > owed /\ owed' <= books
  /\ UNCHANGED <<assets, books>>

Pay ==
  /\ owed' \in Nat /\ owed' < owed
  /\ assets - assets' = owed - owed'
  /\ books - books' = owed - owed'

Release ==
  /\ MayRelease
  /\ assets' < assets
  /\ books - books' = assets - assets'
  /\ owed' = owed /\ owed <= books'

Next == Earn \/ Promise \/ Pay \/ Release

Spec == Init /\ [][Next]_vars

TypeOK == assets \in Nat /\ books \in Nat /\ owed \in Nat

(* Every promise is on the books, and the books are backed. *)
Safe == owed <= books /\ books <= assets
=============================================================================
