----------------------------- MODULE RecordStore -----------------------------
(* What a list of records promises its users: a record for each address that *)
(* is listed, found by its address, and room for so many of them.  Nothing   *)
(* is said of indexes.  StakeSystem's lists are such stores.                 *)
EXTENDS Integers, FiniteSets

CONSTANTS
  Addresses,    \* those that may be listed
  StakeRent     \* what a merge may add to the lamports of two records

VARIABLES
  records,    \* the lamports recorded for each address, or NotListed
  capacity

NotListed == -1
Listed == {a \in Addresses : records[a] # NotListed}
HasRoom == Cardinality(Listed) < capacity

Init == records = [a \in Addresses |-> NotListed] /\ capacity \in Nat

(* Only the records of S change. *)
OnlyOf(S) ==
  /\ records' = [a \in Addresses |-> IF a \in S THEN records'[a] ELSE records[a]]
  /\ UNCHANGED capacity

Add(a) ==
  /\ a \notin Listed /\ HasRoom
  /\ records'[a] \in Nat
  /\ OnlyOf({a})

Update(a) ==
  /\ a \in Listed
  /\ records'[a] \in Nat
  /\ OnlyOf({a})

Remove(a) ==
  /\ a \in Listed
  /\ records'[a] = NotListed
  /\ OnlyOf({a})

(* Some lamports of a become the new record b. *)
Split(a, b) ==
  /\ a \in Listed /\ b \notin Listed /\ HasRoom
  /\ records'[a] \in Nat /\ records'[b] \in Nat
  /\ records'[a] + records'[b] = records[a]
  /\ OnlyOf({a, b})

(* b is emptied into a, with its rent when both are still activating. *)
Merge(a, b) ==
  /\ a \in Listed /\ b \in Listed /\ a # b
  /\ \E extra \in {0, StakeRent} : records'[a] = records[a] + records[b] + extra
  /\ records'[b] = NotListed
  /\ OnlyOf({a, b})

(* b is moved to the new record a; for a moment both are listed. *)
Move(b, a) ==
  /\ b \in Listed /\ a \notin Listed /\ HasRoom
  /\ records'[a] = records[b]
  /\ records'[b] = NotListed
  /\ OnlyOf({a, b})

Resize ==
  /\ capacity' \in Nat /\ capacity' >= Cardinality(Listed)
  /\ UNCHANGED records

Next ==
  \/ \E a \in Addresses : Add(a) \/ Update(a) \/ Remove(a)
  \/ \E a, b \in Addresses : Split(a, b) \/ Merge(a, b) \/ Move(b, a)
  \/ Resize

Spec == Init /\ [][Next]_<<records, capacity>>
=============================================================================
