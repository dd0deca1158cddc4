----------------------------- MODULE RecordList -----------------------------
(* The list of records behind the stake and the validator lists: an account  *)
(* with a slot for each record, packed, and a count kept in the state.  An   *)
(* instruction names a record by its address and by the index its caller     *)
(* found it at; by then others may have removed, added or moved records.     *)
(* Here the index is any number, whatever the caller read and when.          *)
EXTENDS Amounts

CONSTANTS
  Addresses,      \* stake accounts, or the vote accounts of validators
  NoAddress,      \* the address of a slot never written
  Balances,       \* the lamports of new and updated records
  StakeRent,      \* the rent of a stake account
  MaxCapacity,    \* bound: how large the account is ever made
  MaxLamports     \* bound: on the lamports of a merged record

ASSUME ListAssumption ==
  /\ IsFiniteSet(Addresses) /\ NoAddress \notin Addresses
  /\ Balances \subseteq Nat /\ StakeRent \in Nat
  /\ MaxCapacity \in Nat /\ MaxLamports \in Nat

VARIABLES
  slots,      \* the data of the account after its discriminator
  count,      \* list.count
  flagged     \* the addresses marked as listed: a validator by its duplication
              \* flag, a stake account by the program's authority over it

vars == <<slots, count, flagged>>

Record == [address : Addresses, lamports : Nat]
Blank == [address |-> NoAddress, lamports |-> 0]
NewRecord(a, n) == [address |-> a, lamports |-> n]

(* The data of an account with room for c records. *)
Data(c) == [0 .. (c - 1) -> Record \cup {Blank}]

capacity == Cardinality(DOMAIN slots)

ListTypeOK ==
  /\ \E c \in 0 .. MaxCapacity : count <= c /\ slots \in Data(c)
  /\ count \in Nat
  /\ \A i \in 0 .. (count - 1) : slots[i] \in Record
  /\ flagged \subseteq Addresses

Init ==
  /\ \E c \in 0 .. MaxCapacity : slots = [i \in 0 .. (c - 1) |-> Blank]
  /\ count = 0
  /\ flagged = {}
-----------------------------------------------------------------------------
(* get_checked.  Mutant: get.                                                *)
FoundAtUnchecked(i, a) == i < count
FoundAt(i, a) == i < count /\ slots[i].address = a

(* The slots after push, set and remove. *)
Pushed(s, n, r) == [s EXCEPT ![n] = r]
Put(s, i, r) == [s EXCEPT ![i] = r]

(* The last of n records takes the place of the one removed.  The mutant     *)
(* only drops the last.                                                      *)
WithoutLast(s, n, i) == s
Without(s, n, i) == [s EXCEPT ![i] = s[n - 1]]

HasRoom == count < capacity
-----------------------------------------------------------------------------
(* deposit_stake_account, stake_reserve, add_validator *)
Add(a, n) ==
  /\ a \notin flagged /\ HasRoom
  /\ slots' = Pushed(slots, count, NewRecord(a, n))
  /\ count' = count + 1
  /\ flagged' = flagged \cup {a}

(* What reads a record by its index, changes it and writes it back.          *)
Update(i, a, n) ==
  /\ FoundAt(i, a)
  /\ slots' = Put(slots, i, NewRecord(a, n))
  /\ UNCHANGED <<count, flagged>>

(* update_deactivated, remove_validator *)
Remove(i, a) ==
  /\ FoundAt(i, a)
  /\ slots' = Without(slots, count, i)
  /\ count' = count - 1
  /\ flagged' = flagged \ {a}

(* deactivate_stake, partial_unstake: n lamports are split off to account b, *)
(* which is pushed before the record is written back.                        *)
Split(i, a, b, n) ==
  /\ FoundAt(i, a) /\ n <= slots[i].lamports
  /\ b \notin flagged /\ HasRoom
  /\ slots' = Put(Pushed(slots, count, NewRecord(b, n)),
                  i, NewRecord(a, slots[i].lamports - n))
  /\ count' = count + 1
  /\ flagged' = flagged \cup {b}

(* merge_stakes: both indexes are those before the call, and the canonical   *)
(* record is written before the source is removed ("Call this last because   *)
(* of index invalidation").  The mutant removes first.  The rent of the      *)
(* source joins the delegation when both accounts are still activating, and  *)
(* the validator's active balance and the total then grow by as much: this   *)
(* is extra_delegated, computed from the accounts (StakeSystem!MergeStakes)  *)
(* and either of its values here.                                            *)
ExtraDelegated == {0, StakeRent}
MergedRemovingFirst(i, r, j) == Put(Without(slots, count, j), i, r)
Merged(i, r, j) == Without(Put(slots, i, r), count, j)

Merge(i, a, j, b, extra) ==
  LET delegated == slots[i].lamports + slots[j].lamports + extra IN
  /\ FoundAt(i, a) /\ FoundAt(j, b) /\ a # b
  /\ delegated <= MaxLamports    \* bound
  /\ slots' = Merged(i, NewRecord(a, delegated), j)
  /\ count' = count - 1
  /\ flagged' = flagged \ {b}

(* create_canonical_stake: the canonical record a is pushed, then the source *)
(* removed.                                                                  *)
CreateCanonical(j, b, a) ==
  /\ FoundAt(j, b)
  /\ a \notin flagged /\ HasRoom
  /\ slots' = Without(Pushed(slots, count, NewRecord(a, slots[j].lamports)), count + 1, j)
  /\ UNCHANGED count
  /\ flagged' = (flagged \cup {a}) \ {b}

(* The records fit.  Mutant: off by one. *)
FitsOffByOne(c) == c >= count - 1
Fits(c) == c >= count

(* realloc_stake_list, realloc_validator_list: what grows is zero. *)
Realloc(c) ==
  /\ Fits(c)
  /\ slots' = [i \in 0 .. (c - 1) |-> IF i < capacity THEN slots[i] ELSE Blank]
  /\ UNCHANGED <<count, flagged>>
-----------------------------------------------------------------------------
Indexes == 0 .. MaxCapacity

Next ==
  \/ \E a \in Addresses, n \in Balances : Add(a, n)
  \/ \E i \in Indexes, a \in Addresses, n \in Balances : Update(i, a, n)
  \/ \E i \in Indexes, a \in Addresses : Remove(i, a)
  \/ \E i \in Indexes, a, b \in Addresses, n \in Balances : Split(i, a, b, n)
  \/ \E i, j \in Indexes, a, b \in Addresses, extra \in ExtraDelegated :
       Merge(i, a, j, b, extra)
  \/ \E j \in Indexes, a, b \in Addresses : CreateCanonical(j, b, a)
  \/ \E c \in 0 .. MaxCapacity : Realloc(c)

Spec == Init /\ [][Next]_vars
-----------------------------------------------------------------------------
(* The addresses that have a record. *)
Recorded == {slots[i].address : i \in 0 .. (count - 1)}

(* The flags and the records agree, and no address has two records: what a   *)
(* stale index, a moved record or a shrunk account must never break.         *)
ListedOnce ==
  /\ flagged = Recorded
  /\ \A i, j \in 0 .. (count - 1) : slots[i].address = slots[j].address => i = j

(* The record of an address. *)
IndexOf(a) == CHOOSE i \in 0 .. (count - 1) : slots[i].address = a
records ==
  [a \in Addresses |-> IF a \in Recorded THEN slots[IndexOf(a)].lamports ELSE -1]

(* Whatever indexes the callers pass, the list is a store of records found   *)
(* by address: an instruction changes the records it names and no other, a   *)
(* stale index makes it fail, and the room is that of the account.           *)
Store == INSTANCE RecordStore
ImplementsStore == Store!Spec

(* Where records are split, moved or joined, those found by address hold in  *)
(* all what they held, and after a merge the extra lamports it delegates     *)
(* besides, neither more nor less: by these merge_stakes.rs raises the       *)
(* validator's active balance and the total, which are to stay the sum of    *)
(* the records.                                                              *)
LamportsKept ==
  [][\A i, j \in 0 .. (count - 1), a, b \in Addresses :
       /\ \A extra \in ExtraDelegated :
            Merge(i, a, j, b, extra) =>
              Total(Recorded', records') = Total(Recorded, records) + extra
       /\ CreateCanonical(j, b, a) \/ (\E n \in Balances : Split(i, a, b, n)) =>
            Total(Recorded', records') = Total(Recorded, records)]_vars
=============================================================================
