------------------------- MODULE StakeSystemVault --------------------------
(* What the instructions do to the lamports, for every instance.            *)
(*                                                                          *)
(* First, while no stake is slashed the staking core is the vault of module *)
(* Vault: the records and the totals are backed by what is really there,    *)
(* every ticket is on the books, and every instruction is one of the        *)
(* vault's steps or none.  Most instructions and what the chain does keep   *)
(* the lamports that are held, those on the books and what covers the       *)
(* tickets from falling (Keeps); one lemma for each of them says so, and    *)
(* the three by which a user takes lamports are taken up by themselves.     *)
(*                                                                          *)
(* Then, whether stakes are slashed or not: how far a crank or the manager  *)
(* may move stake, that a pause freezes the program, and that what the      *)
(* manager moves is metered.                                                *)
EXTENDS StakeSystemProofs

USE DEF clockVars, listVars, coolingVars, balanceVars, reserveVars, ticketVars,
        deltaVars, moveVars, programVars

RecordBacked(a) == stakes[a].delegated <= native[a].stake
RecordsBacked == \A a \in Accounts : RecordBacked(a)

Lamports(a) == native[a].stake + native[a].extra
-----------------------------------------------------------------------------
LEMMA HeldType == TypeOK => LamportsHeld \in Nat
<1> SUFFICES ASSUME TypeOK PROVE LamportsHeld \in Nat
  OBVIOUS
<1>1. \A a \in Accounts : NativeLamports[a] \in Nat
  BY DEF NativeLamports, TypeOK, NativeStake
<1>2. Total(Accounts, NativeLamports) \in Nat
  BY <1>1, SetsAssumption, TotalType
<1> QED BY <1>2 DEF LamportsHeld, TypeOK

LEMMA HeldTypeNext == TypeOK' => (LamportsHeld \in Nat)'
BY HeldType, PTL

(* No stake account changes in lamports, and no record changes. *)
AccountsStay == \A c \in Accounts :
  /\ stakes'[c].delegated = stakes[c].delegated
  /\ native'[c].stake = native[c].stake /\ native'[c].extra = native[c].extra

LEMMA NoAccountMoves ==
  ASSUME TypeOK, TypeOK', RecordsBacked,
         AccountsStay
  PROVE  /\ RecordsBacked'
         /\ LamportsHeld' = LamportsHeld + reserveBalance' - reserveBalance
<1>1. Total(Accounts, NativeLamports') = Total(Accounts, NativeLamports)
  <2>1. \A c \in Accounts : NativeLamports'[c] = NativeLamports[c]
    BY DEF AccountsStay, NativeLamports
  <2> QED BY <2>1, TotalSame
<1>2. Total(Accounts, NativeLamports) \in Nat
  <2>1. \A c \in Accounts : NativeLamports[c] \in Nat
    BY DEF NativeLamports, TypeOK, NativeStake
  <2> QED BY <2>1, SetsAssumption, TotalType
<1>3. RecordsBacked'
  BY DEF AccountsStay, RecordsBacked, RecordBacked
<1> QED BY <1>1, <1>2, <1>3 DEF LamportsHeld, TypeOK

(* One account or two change with their records. *)
LEMMA OneAccount ==
  ASSUME TypeOK, TypeOK', RecordsBacked, NEW a \in Accounts,
         \A c \in Accounts \ {a} : stakes'[c] = stakes[c] /\ native'[c] = native[c],
         RecordBacked(a)'
  PROVE  /\ RecordsBacked'
         /\ LamportsHeld' = LamportsHeld + reserveBalance' - reserveBalance
                              + Lamports(a)' - Lamports(a)
<1>1. /\ \A c \in Accounts : NativeLamports[c] \in Nat /\ NativeLamports'[c] \in Nat
      /\ \A c \in Accounts \ {a} : NativeLamports'[c] = NativeLamports[c]
      /\ NativeLamports[a] = Lamports(a) /\ NativeLamports'[a] = Lamports(a)'
  BY DEF NativeLamports, Lamports, TypeOK, NativeStake
<1>2. /\ Total(Accounts, NativeLamports')
           = Total(Accounts, NativeLamports) + NativeLamports'[a] - NativeLamports[a]
      /\ Total(Accounts, NativeLamports) \in Nat
  BY <1>1, SetsAssumption, TotalChange, TotalType
<1>3. RecordsBacked'
  BY DEF RecordsBacked, RecordBacked
<1>4. /\ Total(Accounts, NativeLamports')
           = Total(Accounts, NativeLamports) + Lamports(a)' - Lamports(a)
      /\ Lamports(a) \in Nat /\ Lamports(a)' \in Nat
  BY <1>1, <1>2
<1> QED BY <1>2, <1>3, <1>4 DEF LamportsHeld, TypeOK

LEMMA TwoAccounts ==
  ASSUME TypeOK, TypeOK', RecordsBacked,
         NEW a \in Accounts, NEW b \in Accounts, a # b,
         \A c \in Accounts \ {a, b} : stakes'[c] = stakes[c] /\ native'[c] = native[c],
         RecordBacked(a)', RecordBacked(b)'
  PROVE  /\ RecordsBacked'
         /\ LamportsHeld' = LamportsHeld + reserveBalance' - reserveBalance
                              + Lamports(a)' - Lamports(a) + Lamports(b)' - Lamports(b)
<1>1. /\ \A c \in Accounts : NativeLamports[c] \in Nat /\ NativeLamports'[c] \in Nat
      /\ \A c \in Accounts \ {a, b} : NativeLamports'[c] = NativeLamports[c]
      /\ NativeLamports[a] = Lamports(a) /\ NativeLamports'[a] = Lamports(a)'
      /\ NativeLamports[b] = Lamports(b) /\ NativeLamports'[b] = Lamports(b)'
  BY DEF NativeLamports, Lamports, TypeOK, NativeStake
<1>2. /\ Total(Accounts, NativeLamports')
           = Total(Accounts, NativeLamports) + NativeLamports'[a] - NativeLamports[a]
               + NativeLamports'[b] - NativeLamports[b]
      /\ Total(Accounts, NativeLamports) \in Nat
  BY <1>1, SetsAssumption, TotalChangeTwo, TotalType
<1>3. RecordsBacked'
  BY DEF RecordsBacked, RecordBacked
<1>4. /\ Total(Accounts, NativeLamports')
           = Total(Accounts, NativeLamports) + Lamports(a)' - Lamports(a)
               + Lamports(b)' - Lamports(b)
      /\ Lamports(a) \in Nat /\ Lamports(a)' \in Nat
      /\ Lamports(b) \in Nat /\ Lamports(b)' \in Nat
  BY <1>1, <1>2
<1> QED BY <1>2, <1>3, <1>4 DEF LamportsHeld, TypeOK
-----------------------------------------------------------------------------
(* What most steps do: no record loses its backing, nothing leaves what is  *)
(* held, what is on the books, or the lamports that cover the tickets, the  *)
(* last but for what is more than the tickets need.                         *)
CoverKept ==
  \/ reserveBalance' + delayedUnstakeCoolingDown'
       >= reserveBalance + delayedUnstakeCoolingDown
  \/ reserveBalance' + delayedUnstakeCoolingDown' >= circulatingTicketBalance'
Keeps ==
  /\ RecordsBacked'
  /\ LamportsHeld' >= LamportsHeld
  /\ TotalLamportsUnderControl' >= TotalLamportsUnderControl
  /\ circulatingTicketBalance' = circulatingTicketBalance
  /\ CoverKept

(* What the arithmetic needs of TypeOK. *)
CountersTyped ==
  /\ totalActiveBalance \in Nat
  /\ delayedUnstakeCoolingDown \in Nat /\ emergencyCoolingDown \in Nat
  /\ reserveBalance \in Nat /\ availableReserveBalance \in Nat
  /\ circulatingTicketBalance \in Nat

CountersStay == UNCHANGED <<balanceVars, circulatingTicketBalance>>

LEMMA BooksType == CountersTyped => TotalLamportsUnderControl \in Nat
BY DEF CountersTyped, TotalLamportsUnderControl

LEMMA BooksTypeNext == CountersTyped' => (TotalLamportsUnderControl \in Nat)'
BY BooksType, PTL

(* Steps that touch neither a record nor the lamports of an account, and    *)
(* add to the reserve if anything.                                          *)
LEMMA ListsUntouched ==
  ASSUME TypeOK, TypeOK', RecordsBacked,
         AccountsStay,
         CountersStay,
         NEW m \in Nat, reserveBalance' = reserveBalance + m,
         NEW n \in Nat, availableReserveBalance' = availableReserveBalance + n
  PROVE  Keeps
<1>1. /\ RecordsBacked'
      /\ LamportsHeld' = LamportsHeld + reserveBalance' - reserveBalance
  BY NoAccountMoves
<1>2. LamportsHeld' >= LamportsHeld
  BY <1>1, HeldType DEF TypeOK
<1>3. CountersTyped /\ CountersTyped'
  BY DEF CountersTyped, TypeOK
<1>4. /\ totalActiveBalance' = totalActiveBalance
      /\ delayedUnstakeCoolingDown' = delayedUnstakeCoolingDown
      /\ emergencyCoolingDown' = emergencyCoolingDown
      /\ circulatingTicketBalance' = circulatingTicketBalance
  BY DEF CountersStay
<1>5. TotalLamportsUnderControl' >= TotalLamportsUnderControl
  BY <1>3, <1>4 DEF TotalLamportsUnderControl, CountersTyped
<1>6. reserveBalance' + delayedUnstakeCoolingDown'
        >= reserveBalance + delayedUnstakeCoolingDown
  BY <1>3, <1>4 DEF CountersTyped
<1> QED BY <1>1, <1>2, <1>4, <1>5, <1>6 DEF Keeps, CoverKept

LEMMA DepositStakeAccountKeeps ==
  ASSUME TypeOK, TypeOK', StatusAgreesWithNative, RecordsBacked,
         NEW a \in Accounts, NEW v \in Validators, NEW n \in StakeDeposits,
         NEW e \in 0 .. MaxEpoch, DepositStakeAccount(a, v, n, e)
  PROVE  Keeps
<1>1. n \in Nat
  BY AmountsAssumption
<1>2. /\ stakes'[a] = NewRecord(n, FALSE, "Active")
      /\ native'[a] = [voter |-> v, stake |-> n, extra |-> 0,
                       activation |-> e, deactivation |-> Never]
      /\ \A c \in Accounts \ {a} : stakes'[c] = stakes[c] /\ native'[c] = native[c]
  BY DEF DepositStakeAccount, TypeOK
<1>3. RecordBacked(a)' /\ Lamports(a)' = n
  BY <1>1, <1>2 DEF RecordBacked, Lamports, NewRecord
<1>4. Lamports(a) = 0
  BY DEF DepositStakeAccount, Fresh, StatusAgreesWithNative, RecordAgrees, Lamports, NoAccount
<1>5. /\ RecordsBacked'
      /\ LamportsHeld' = LamportsHeld + reserveBalance' - reserveBalance
                           + Lamports(a)' - Lamports(a)
  BY <1>2, <1>3, OneAccount
<1>6. /\ totalActiveBalance' = totalActiveBalance + n
      /\ UNCHANGED <<coolingVars, reserveVars, circulatingTicketBalance>>
  BY DEF DepositStakeAccount
<1>7. LamportsHeld' >= LamportsHeld
  BY <1>1, <1>3, <1>4, <1>5, <1>6, HeldType DEF TypeOK
<1> QED BY <1>1, <1>5, <1>6, <1>7 DEF Keeps, CoverKept, TotalLamportsUnderControl, TypeOK

(* What is staked is no more than the reserve and the cooling stakes have   *)
(* above the tickets.                                                       *)
LEMMA AmountToStakeBound ==
  ASSUME TypeOK, StakeDelta > 0, NEW v \in Validators
  PROVE  /\ AmountToStake(v) <= StakeDelta
         /\ StakeDelta = reserveBalance + delayedUnstakeCoolingDown
                            - circulatingTicketBalance
<1>1. StakeDelta = reserveBalance + delayedUnstakeCoolingDown - circulatingTicketBalance
  BY DEF StakeDelta, MinOf, TypeOK
<1>2. AmountToStake(v) <= StakeDelta
  <2> DEFINE target == ValidatorStakeTarget(v, totalActiveBalance + StakeDelta)
             gap    == MinOf(SatSub(target, validators[v].active), StakeDelta)
  <2>1. StakeDelta \in Nat /\ totalActiveBalance + StakeDelta \in Nat
    BY StakeDeltaType DEF TypeOK
  <2>2. target \in Nat /\ validators[v].active \in Nat
    BY <2>1, ValidatorStakeTargetType DEF TypeOK, ValidatorRecord
  <2> HIDE DEF target
  <2>3. gap \in Nat /\ gap <= StakeDelta
    BY <2>1, <2>2 DEF MinOf, SatSub
  <2> HIDE DEF gap
  <2> QED BY <2>1, <2>3 DEF AmountToStake, target, gap
<1> QED BY <1>1, <1>2

LEMMA StakeReserveKeeps ==
  ASSUME TypeOK, TypeOK', StatusAgreesWithNative, RecordsBacked,
         NEW v \in Validators, NEW a \in Accounts, StakeReserve(v, a)
  PROVE  Keeps
<1> DEFINE n == AmountToStake(v)
<1>1. n \in Nat /\ n <= reserveBalance + delayedUnstakeCoolingDown - circulatingTicketBalance
  <2>1. StakeDelta > 0
    BY DEF StakeReserve, StakeReserveRun
  <2>2. n \in Nat
    BY <2>1, AmountToStakeType
  <2>3. /\ n <= StakeDelta
        /\ StakeDelta = reserveBalance + delayedUnstakeCoolingDown - circulatingTicketBalance
    BY <2>1, AmountToStakeBound
  <2> HIDE DEF n
  <2> QED BY <2>2, <2>3
<1> HIDE DEF n
<1>2. /\ stakes'[a] = NewRecord(n, FALSE, "Active")
      /\ native'[a] = [voter |-> v, stake |-> n, extra |-> 0,
                       activation |-> epoch, deactivation |-> Never]
      /\ \A c \in Accounts \ {a} : stakes'[c] = stakes[c] /\ native'[c] = native[c]
  BY DEF StakeReserve, TypeOK, n
<1>3. RecordBacked(a)' /\ Lamports(a)' = n
  BY <1>1, <1>2 DEF RecordBacked, Lamports, NewRecord
<1>4. Lamports(a) = 0
  BY DEF StakeReserve, Fresh, StatusAgreesWithNative, RecordAgrees, Lamports, NoAccount
<1>5. /\ RecordsBacked'
      /\ LamportsHeld' = LamportsHeld + reserveBalance' - reserveBalance
                           + Lamports(a)' - Lamports(a)
  BY <1>2, <1>3, OneAccount
<1>6. /\ totalActiveBalance' = totalActiveBalance + n
      /\ reserveBalance' = reserveBalance - n
      /\ availableReserveBalance' = availableReserveBalance - n
      /\ UNCHANGED <<coolingVars, circulatingTicketBalance>>
  BY DEF StakeReserve, n
<1>7. LamportsHeld' >= LamportsHeld
  BY <1>1, <1>3, <1>4, <1>5, <1>6, HeldType DEF TypeOK
<1>8. reserveBalance' + delayedUnstakeCoolingDown' >= circulatingTicketBalance'
  BY <1>1, <1>6 DEF TypeOK
<1>9. TotalLamportsUnderControl' >= TotalLamportsUnderControl
  BY <1>1, <1>6 DEF TotalLamportsUnderControl, TypeOK
<1> QED BY <1>5, <1>6, <1>7, <1>8, <1>9 DEF Keeps, CoverKept
-----------------------------------------------------------------------------
(* The three instructions that deactivate a stake, taken together: n is     *)
(* what they take of account a, as a whole or into the new account b.       *)
Deactivated(a, b, n, emergency) ==
  /\ stakes[a].status = "Active" /\ ~stakes[a].emergency
  /\ native[a].stake = stakes[a].delegated
  /\ native[a].voter \in Validators
  /\ n <= stakes[a].delegated
  /\ \/ n = stakes[a].delegated /\ DeactivateWhole(a, emergency)
     \/ DeactivateSplit(a, b, n, emergency)
  /\ totalActiveBalance' = totalActiveBalance - n
  /\ UNCHANGED <<clockVars, paused, reserveVars, ticketVars>>

(* The crank deactivates less than twice the minimum stake above what it    *)
(* set out to unstake.                                                      *)
LEMMA DeactivateStakeEffect ==
  ASSUME TypeInv, NEW a \in Accounts, NEW b \in Accounts, DeactivateStake(a, b)
  PROVE  \E n \in Nat :
           /\ Deactivated(a, b, n, FALSE)
           /\ StakeDelta < 0 /\ n + StakeDelta < 2 * MinStake
           /\ delayedUnstakeCoolingDown' = delayedUnstakeCoolingDown + n
           /\ UNCHANGED <<emergencyCoolingDown, moveVars>>
<1> SUFFICES ASSUME NEW v \in Validators, v = native[a].voter
             PROVE  \E n \in Nat :
                      /\ Deactivated(a, b, n, FALSE)
                      /\ StakeDelta < 0 /\ n + StakeDelta < 2 * MinStake
                      /\ delayedUnstakeCoolingDown' = delayedUnstakeCoolingDown + n
                      /\ UNCHANGED <<emergencyCoolingDown, moveVars>>
  BY ListedVoter DEF DeactivateStake, Listed
<1> DEFINE rec   == stakes[a]
           keep  == AmountToKeep(a)
           whole == keep < 2 * MinStake
           n     == IF whole THEN rec.delegated ELSE rec.delegated - keep
<1>1. rec.delegated \in Nat
  BY DEF TypeInv, TypeOK, StakeRecord
<1>2. StakeDelta \in Int /\ StakeDelta < 0
  BY StakeDeltaType DEF DeactivateStake, TypeInv
<1>3. keep \in 0 .. rec.delegated /\ keep >= rec.delegated + StakeDelta
  BY AmountToKeepType DEF DeactivateStake
<1> HIDE DEF keep
<1>5. n \in Nat /\ n <= rec.delegated /\ n + StakeDelta < 2 * MinStake
  BY <1>1, <1>2, <1>3, AmountsAssumption
<1>4. whole => n = stakes[a].delegated
  OBVIOUS
<1>6. /\ \/ whole /\ DeactivateWhole(a, FALSE)
         \/ ~whole /\ DeactivateSplit(a, b, n, FALSE)
      /\ totalActiveBalance' = totalActiveBalance - n
      /\ delayedUnstakeCoolingDown' = delayedUnstakeCoolingDown + n
      /\ UNCHANGED <<clockVars, paused, emergencyCoolingDown, reserveVars, ticketVars,
                     moveVars>>
  BY Zenon DEF DeactivateStake, keep
<1>7. /\ stakes[a].status = "Active" /\ ~stakes[a].emergency
      /\ native[a].stake = stakes[a].delegated
  BY DEF DeactivateStake, CheckStakeAmountAndValidator
<1> HIDE DEF n, whole
<1>8. Deactivated(a, b, n, FALSE)
  BY <1>4, <1>5, <1>6, <1>7 DEF Deactivated
<1> QED BY <1>2, <1>5, <1>6, <1>8

(* What the manager's two instructions do, and leave the validator with.    *)
EmergencyMove(a, b, n) ==
  /\ Deactivated(a, b, n, TRUE)
  /\ OnStakeMoved(n)
  /\ emergencyCoolingDown' = emergencyCoolingDown + n
  /\ UNCHANGED delayedUnstakeCoolingDown
  /\ \A w \in Validators :
       validators'[w].active = validators[w].active - IF w = native[a].voter THEN n ELSE 0
  /\ validators[native[a].voter].active - n + MinStake
       > ValidatorStakeTarget(native[a].voter, totalActiveBalance + StakeDelta)

LEMMA MoveToEmergencyEffect ==
  ASSUME TypeInv, NEW v \in Validators, NEW n \in Nat, MoveToEmergency(v, n)
  PROVE  /\ OnStakeMoved(n)
         /\ totalActiveBalance' = totalActiveBalance - n
         /\ emergencyCoolingDown' = emergencyCoolingDown + n
         /\ UNCHANGED <<clockVars, paused, delayedUnstakeCoolingDown, reserveVars, ticketVars>>
         /\ \A w \in Validators :
              validators'[w].active = validators[w].active - IF w = v THEN n ELSE 0
<1>1. \A w \in Validators :
        validators'[w].active = validators[w].active - IF w = v THEN n ELSE 0
  BY DEF MoveToEmergency, TypeInv, TypeOK, ValidatorRecord
<1> QED BY <1>1, Zenon DEF MoveToEmergency

LEMMA EmergencyUnstakeEffect ==
  ASSUME TypeInv, NEW a \in Accounts, EmergencyUnstake(a)
  PROVE  \E n \in Nat : EmergencyMove(a, a, n)
<1> DEFINE v == native[a].voter
           n == stakes[a].delegated
<1>1. v \in Validators /\ n \in Nat
  BY ListedVoter DEF EmergencyUnstake, Listed, TypeInv, TypeOK, StakeRecord
<1>2. /\ stakes[a].status = "Active" /\ ~stakes[a].emergency /\ native[a].stake = n
      /\ DeactivateWhole(a, TRUE) /\ MoveToEmergency(v, n)
      /\ validators[v].score = 0 /\ validators[v].active >= n
  BY DEF EmergencyUnstake, CheckStakeAmountAndValidator, MoveToEmergency
<1>3. ValidatorStakeTarget(v, totalActiveBalance + StakeDelta) = 0
  <2>1. totalActiveBalance + StakeDelta \in Int /\ totalValidatorScore \in Nat
    BY StakeDeltaType DEF TypeInv, TypeOK
  <2> QED BY <1>2, <2>1 DEF ValidatorStakeTarget
<1>4. validators[v].active - n + MinStake > 0
  <2>1. validators[v].active \in Nat
    BY <1>1 DEF TypeInv, TypeOK, ValidatorRecord
  <2> QED BY <1>1, <1>2, <2>1, AmountsAssumption
<1> HIDE DEF v, n
<1>5. /\ OnStakeMoved(n)
      /\ totalActiveBalance' = totalActiveBalance - n
      /\ emergencyCoolingDown' = emergencyCoolingDown + n
      /\ UNCHANGED <<clockVars, paused, delayedUnstakeCoolingDown, reserveVars, ticketVars>>
      /\ \A w \in Validators :
           validators'[w].active = validators[w].active - IF w = v THEN n ELSE 0
  BY <1>1, <1>2, MoveToEmergencyEffect
<1>6. Deactivated(a, a, n, TRUE)
  <2>1. n = stakes[a].delegated /\ n <= stakes[a].delegated
    BY <1>1 DEF n
  <2> QED BY <1>1, <1>2, <1>5, <2>1, Zenon DEF Deactivated, v
<1>7. EmergencyMove(a, a, n)
  BY <1>3, <1>4, <1>5, <1>6 DEF EmergencyMove, v
<1> QED BY <1>1, <1>7

LEMMA PartialUnstakeEffect ==
  ASSUME TypeInv, NEW a \in Accounts, NEW b \in Accounts, NEW desired \in Unstakes,
         PartialUnstake(a, b, desired)
  PROVE  \E n \in Nat : EmergencyMove(a, b, n)
<1> DEFINE v      == native[a].voter
           target == ValidatorStakeTarget(v, totalActiveBalance + StakeDelta)
           n      == PartialAmount(v, desired)
           whole  == SatSub(stakes[a].delegated, n) < MinStake
           m      == IF whole THEN stakes[a].delegated ELSE n
<1>1. v \in Validators /\ stakes[a].delegated \in Nat
  BY ListedVoter DEF PartialUnstake, Listed, TypeInv, TypeOK, StakeRecord
<1>2. /\ stakes[a].status = "Active" /\ ~stakes[a].emergency
      /\ native[a].stake = stakes[a].delegated
  BY DEF PartialUnstake, CheckStakeAmountAndValidator
<1>3. target \in Nat /\ validators[v].active \in Nat /\ desired \in Nat
  <2>1. totalActiveBalance + StakeDelta \in Nat
    BY StakeDeltaType DEF PartialUnstake, TypeInv, TypeOK
  <2> QED BY <1>1, <2>1, ValidatorStakeTargetType, AmountsAssumption
       DEF TypeInv, TypeOK, ValidatorRecord
<1>4. n \in Nat /\ n <= validators[v].active - target
  <2>1. validators[v].active > target + MinStake
    BY DEF PartialUnstake
  <2>2. n = MinOf(desired, validators[v].active - target)
    BY DEF PartialAmount
  <2> HIDE DEF target, n
  <2> QED BY <1>3, <2>1, <2>2, AmountsAssumption DEF MinOf
<1>5. /\ \/ whole /\ DeactivateWhole(a, TRUE)
         \/ ~whole /\ DeactivateSplit(a, b, n, TRUE)
      /\ MoveToEmergency(v, m)
  BY Zenon DEF PartialUnstake
<1> HIDE DEF n, target
<1>6. /\ m \in Nat /\ m <= stakes[a].delegated
      /\ validators[v].active - m + MinStake > target
      /\ (whole => m = stakes[a].delegated) /\ (~whole => m = n)
  BY <1>1, <1>3, <1>4, AmountsAssumption DEF SatSub
<1> HIDE DEF whole, m, v
<1>7. /\ OnStakeMoved(m)
      /\ totalActiveBalance' = totalActiveBalance - m
      /\ emergencyCoolingDown' = emergencyCoolingDown + m
      /\ UNCHANGED <<clockVars, paused, delayedUnstakeCoolingDown, reserveVars, ticketVars>>
      /\ \A w \in Validators :
           validators'[w].active = validators[w].active - IF w = v THEN m ELSE 0
  BY <1>1, <1>5, <1>6, MoveToEmergencyEffect
<1>8. Deactivated(a, b, m, TRUE)
  BY <1>1, <1>2, <1>5, <1>6, <1>7 DEF Deactivated, v
<1>9. EmergencyMove(a, b, m)
  BY <1>6, <1>7, <1>8 DEF EmergencyMove, target, v
<1> QED BY <1>6, <1>9

(* Deactivating moves no lamports: what is split off an account stays with   *)
(* the other.                                                               *)
LEMMA DeactivationHeld ==
  ASSUME TypeOK, TypeOK', StatusAgreesWithNative, RecordsBacked,
         NEW a \in Accounts, NEW b \in Accounts, NEW emergency \in BOOLEAN,
         NEW n \in Nat, Deactivated(a, b, n, emergency)
  PROVE  RecordsBacked' /\ LamportsHeld' = LamportsHeld
<1>1. UNCHANGED reserveVars /\ LamportsHeld \in Nat
  BY HeldType DEF Deactivated
<1>2. /\ stakes[a].delegated \in Nat /\ native[a].stake \in Nat /\ native[a].extra \in Nat
      /\ native[a].stake = stakes[a].delegated /\ n <= stakes[a].delegated
      /\ stakes[a].status = "Active"
  BY DEF TypeOK, StakeRecord, NativeStake, Deactivated
<1>3. CASE DeactivateWhole(a, emergency)
  <2>1. stakes[a] \in StakeRecord /\ native[a] \in NativeStake
    BY DEF TypeOK
  <2>2. /\ stakes'[a] = [stakes[a] EXCEPT !.status = "Deactivating", !.emergency = emergency]
        /\ native'[a] = [native[a] EXCEPT !.deactivation = epoch]
        /\ \A c \in Accounts \ {a} : stakes'[c] = stakes[c] /\ native'[c] = native[c]
    BY <1>3 DEF DeactivateWhole, TypeOK
  <2>3. /\ stakes'[a].delegated = stakes[a].delegated
        /\ native'[a].stake = native[a].stake /\ native'[a].extra = native[a].extra
    BY <2>1, <2>2 DEF StakeRecord, NativeStake
  <2>4. RecordBacked(a)' /\ Lamports(a)' = Lamports(a) /\ Lamports(a) \in Nat
    BY <1>2, <2>3 DEF RecordBacked, Lamports
  <2>5. /\ RecordsBacked'
        /\ LamportsHeld' = LamportsHeld + reserveBalance' - reserveBalance
                             + Lamports(a)' - Lamports(a)
    BY <2>2, <2>4, OneAccount
  <2> QED BY <1>1, <2>4, <2>5 DEF TypeOK
<1>4. CASE DeactivateSplit(a, b, n, emergency)
  <2>1. a # b /\ native[b] = NoAccount
    BY <1>2, <1>4
    DEF DeactivateSplit, Fresh, Listed, StatusAgreesWithNative, RecordAgrees
  <2>2. /\ stakes'[a].delegated = stakes[a].delegated - n
        /\ stakes'[b] = NewRecord(n, emergency, "Deactivating")
        /\ native'[a].stake = native[a].stake - n /\ native'[a].extra = native[a].extra
        /\ native'[b].stake = n /\ native'[b].extra = 0
    BY <1>4, <2>1 DEF DeactivateSplit, TypeOK, StakeRecord, NativeStake
  <2>3. \A c \in Accounts \ {a, b} : stakes'[c] = stakes[c] /\ native'[c] = native[c]
    BY <1>4 DEF DeactivateSplit, TypeOK
  <2>4. /\ RecordBacked(a)' /\ RecordBacked(b)'
        /\ Lamports(a) \in Nat /\ Lamports(a)' = Lamports(a) - n
        /\ Lamports(b) = 0 /\ Lamports(b)' = n
    BY <1>2, <2>1, <2>2 DEF RecordBacked, Lamports, NewRecord, NoAccount
  <2>5. /\ RecordsBacked'
        /\ LamportsHeld' = LamportsHeld + reserveBalance' - reserveBalance
                             + Lamports(a)' - Lamports(a) + Lamports(b)' - Lamports(b)
    BY <2>1, <2>3, <2>4, TwoAccounts
  <2> QED BY <1>1, <2>4, <2>5 DEF TypeOK
<1> QED BY <1>3, <1>4 DEF Deactivated

LEMMA DeactivateStakeKeeps ==
  ASSUME TypeInv, TypeOK', RecordsBacked, NEW a \in Accounts, NEW b \in Accounts,
         DeactivateStake(a, b)
  PROVE  Keeps
<1>1. PICK n \in Nat :
        /\ Deactivated(a, b, n, FALSE)
        /\ delayedUnstakeCoolingDown' = delayedUnstakeCoolingDown + n
        /\ UNCHANGED emergencyCoolingDown
  BY DeactivateStakeEffect, Zenon
<1>2. RecordsBacked' /\ LamportsHeld' = LamportsHeld /\ LamportsHeld \in Nat
  BY <1>1, DeactivationHeld, HeldType DEF TypeInv
<1>3. /\ totalActiveBalance' = totalActiveBalance - n
      /\ UNCHANGED <<reserveVars, circulatingTicketBalance>>
  BY <1>1 DEF Deactivated
<1>4. CountersTyped
  BY DEF CountersTyped, TypeInv, TypeOK
<1> QED BY <1>1, <1>2, <1>3, <1>4
     DEF Keeps, CoverKept, TotalLamportsUnderControl, CountersTyped

LEMMA EmergencyMoveKeeps ==
  ASSUME TypeInv, TypeOK', RecordsBacked, NEW a \in Accounts, NEW b \in Accounts,
         NEW n \in Nat, EmergencyMove(a, b, n)
  PROVE  Keeps
<1>1. /\ Deactivated(a, b, n, TRUE)
      /\ emergencyCoolingDown' = emergencyCoolingDown + n
      /\ UNCHANGED delayedUnstakeCoolingDown
  BY DEF EmergencyMove
<1>2. RecordsBacked' /\ LamportsHeld' = LamportsHeld /\ LamportsHeld \in Nat
  BY <1>1, DeactivationHeld, HeldType DEF TypeInv
<1>3. /\ totalActiveBalance' = totalActiveBalance - n
      /\ UNCHANGED <<reserveVars, circulatingTicketBalance>>
  BY <1>1 DEF Deactivated
<1>4. CountersTyped
  BY DEF CountersTyped, TypeInv, TypeOK
<1> QED BY <1>1, <1>2, <1>3, <1>4
     DEF Keeps, CoverKept, TotalLamportsUnderControl, CountersTyped
-----------------------------------------------------------------------------
(* The update crank brings the books up to what is there: rewards, tips and *)
(* what was sent to the reserve.                                            *)
LEMMA UpdateActiveKeeps ==
  ASSUME TypeInv, TypeOK', RecordsBacked, ReserveBacked, NEW a \in Accounts, UpdateActive(a)
  PROVE  Keeps
<1> DEFINE old == stakes[a].delegated
           new == native[a].stake
           extra == native[a].extra
<1>1. old \in Nat /\ new \in Nat /\ extra \in Nat /\ old <= new
  BY DEF TypeInv, TypeOK, StakeRecord, NativeStake, RecordsBacked, RecordBacked
<1>2. /\ stakes'[a].delegated = new /\ native'[a].stake = new /\ native'[a].extra = 0
      /\ \A c \in Accounts \ {a} : stakes'[c] = stakes[c] /\ native'[c] = native[c]
  BY DEF UpdateActive, TypeInv, TypeOK, StakeRecord, NativeStake
<1>3. RecordBacked(a)' /\ Lamports(a)' = new /\ Lamports(a) = new + extra
  BY <1>1, <1>2 DEF RecordBacked, Lamports
<1>4. /\ RecordsBacked'
      /\ LamportsHeld' = LamportsHeld + reserveBalance' - reserveBalance
                           + Lamports(a)' - Lamports(a)
  BY <1>2, <1>3, OneAccount DEF TypeInv
<1>5. /\ totalActiveBalance' = totalActiveBalance + new - old
      /\ reserveBalance' = reserveBalance + extra
      /\ availableReserveBalance' = reserveBalance + extra
      /\ UNCHANGED <<coolingVars, circulatingTicketBalance>>
  BY DEF UpdateActive, WithdrawToReserve
<1>6. CountersTyped /\ availableReserveBalance <= reserveBalance /\ LamportsHeld \in Nat
  BY HeldType DEF CountersTyped, TypeInv, TypeOK, ReserveBacked
<1> HIDE DEF old, new, extra
<1>7. LamportsHeld' >= LamportsHeld
  BY <1>1, <1>3, <1>4, <1>5, <1>6 DEF CountersTyped
<1>8. TotalLamportsUnderControl' >= TotalLamportsUnderControl
  BY <1>1, <1>5, <1>6 DEF TotalLamportsUnderControl, CountersTyped
<1>9. reserveBalance' + delayedUnstakeCoolingDown'
        >= reserveBalance + delayedUnstakeCoolingDown
  BY <1>1, <1>5, <1>6 DEF CountersTyped
<1> QED BY <1>4, <1>5, <1>7, <1>8, <1>9 DEF Keeps, CoverKept

(* A stake that leaves the delayed-unstake counter brings at least as much  *)
(* into the reserve.                                                        *)
LEMMA UpdateDeactivatedKeeps ==
  ASSUME TypeInv, TypeOK', RecordsBacked, ReserveBacked, NEW a \in Accounts,
         UpdateDeactivated(a)
  PROVE  Keeps
<1> DEFINE n == stakes[a].delegated
           all == native[a].stake + native[a].extra
<1>1. n \in Nat /\ all \in Nat /\ n <= all
  BY DEF TypeInv, TypeOK, StakeRecord, NativeStake, RecordsBacked, RecordBacked
<1>2. /\ stakes'[a] = NoRecord /\ native'[a] = NoAccount
      /\ \A c \in Accounts \ {a} : stakes'[c] = stakes[c] /\ native'[c] = native[c]
  BY DEF UpdateDeactivated, TypeInv, TypeOK
<1>3. RecordBacked(a)' /\ Lamports(a)' = 0 /\ Lamports(a) = all
  BY <1>2 DEF RecordBacked, Lamports, NoRecord, NoAccount
<1>4. /\ RecordsBacked'
      /\ LamportsHeld' = LamportsHeld + reserveBalance' - reserveBalance
                           + Lamports(a)' - Lamports(a)
  BY <1>2, <1>3, OneAccount DEF TypeInv
<1>5. /\ reserveBalance' = reserveBalance + all
      /\ availableReserveBalance' = reserveBalance + all
      /\ UNCHANGED circulatingTicketBalance
  BY DEF UpdateDeactivated, WithdrawToReserve
<1>6. \/ totalActiveBalance' = totalActiveBalance - n /\ UNCHANGED coolingVars
      \/ /\ delayedUnstakeCoolingDown' = delayedUnstakeCoolingDown - n
         /\ UNCHANGED <<totalActiveBalance, emergencyCoolingDown>>
      \/ /\ emergencyCoolingDown' = emergencyCoolingDown - n
         /\ UNCHANGED <<totalActiveBalance, delayedUnstakeCoolingDown>>
  BY Zenon DEF UpdateDeactivated
<1>7. CountersTyped /\ availableReserveBalance <= reserveBalance /\ LamportsHeld \in Nat
  BY HeldType DEF CountersTyped, TypeInv, TypeOK, ReserveBacked
<1> HIDE DEF n, all
<1>8. LamportsHeld' >= LamportsHeld
  BY <1>1, <1>3, <1>4, <1>5, <1>7 DEF CountersTyped
<1>9. TotalLamportsUnderControl' >= TotalLamportsUnderControl
  BY <1>1, <1>5, <1>6, <1>7 DEF TotalLamportsUnderControl, CountersTyped
<1>10. reserveBalance' + delayedUnstakeCoolingDown'
         >= reserveBalance + delayedUnstakeCoolingDown
  BY <1>1, <1>5, <1>6, <1>7 DEF CountersTyped
<1> QED BY <1>4, <1>5, <1>8, <1>9, <1>10 DEF Keeps, CoverKept
-----------------------------------------------------------------------------
(* A canonical account takes over the lamports and the record of another. *)
LEMMA CreateCanonicalStakeKeeps ==
  ASSUME TypeInv, TypeOK', RecordsBacked, NEW v \in Validators, NEW s \in Accounts,
         CreateCanonicalStake(v, s)
  PROVE  Keeps
<1> SUFFICES ASSUME NEW c \in Accounts, c = Canonical[v]
             PROVE  Keeps
  BY SetsAssumption
<1>1. /\ c # s /\ native[c] = NoAccount
      /\ native[s].stake \in Nat /\ native[s].extra = 0
  BY DEF CreateCanonicalStake, MovableStake, Listed, TypeInv, TypeOK, NativeStake,
         StatusAgreesWithNative, RecordAgrees
<1>2. /\ stakes'[c] = NewRecord(native[s].stake, FALSE, "Active") /\ stakes'[s] = NoRecord
      /\ native'[c] = native[s] /\ native'[s] = NoAccount
      /\ \A d \in Accounts \ {c, s} : stakes'[d] = stakes[d] /\ native'[d] = native[d]
  BY <1>1 DEF CreateCanonicalStake, TypeInv, TypeOK
<1>3. /\ RecordBacked(c)' /\ RecordBacked(s)'
      /\ Lamports(c)' = Lamports(s) /\ Lamports(s)' = 0
      /\ Lamports(c) = 0 /\ Lamports(s) \in Nat
  BY <1>1, <1>2 DEF RecordBacked, Lamports, NewRecord, NoRecord, NoAccount
<1>4. /\ RecordsBacked'
      /\ LamportsHeld' = LamportsHeld + reserveBalance' - reserveBalance
                           + Lamports(c)' - Lamports(c) + Lamports(s)' - Lamports(s)
  BY <1>1, <1>2, <1>3, TwoAccounts DEF TypeInv
<1>5. UNCHANGED <<balanceVars, reserveVars, circulatingTicketBalance>>
  BY DEF CreateCanonicalStake
<1>6. CountersTyped /\ LamportsHeld \in Nat
  BY HeldType DEF CountersTyped, TypeInv, TypeOK
<1> QED BY <1>3, <1>4, <1>5, <1>6
     DEF Keeps, CoverKept, TotalLamportsUnderControl, CountersTyped

(* A merge may delegate the rent of the source: the lamports come in from   *)
(* outside of what is counted.                                              *)
LEMMA MergeStakesKeeps ==
  ASSUME TypeInv, TypeOK', RecordsBacked, NEW v \in Validators, NEW s \in Accounts,
         MergeStakes(v, s)
  PROVE  Keeps
<1> SUFFICES ASSUME NEW c \in Accounts, c = Canonical[v]
             PROVE  Keeps
  BY SetsAssumption
<1> DEFINE extra == IF native[c].activation = epoch THEN StakeRent ELSE 0
<1>1. /\ c # s /\ extra \in Nat
      /\ native[c].stake \in Nat /\ native[c].extra \in Nat
      /\ native[s].stake \in Nat /\ native[s].extra = 0
      /\ stakes[c].delegated = native[c].stake /\ stakes[s].delegated = native[s].stake
  BY AmountsAssumption
  DEF MergeStakes, MovableStake, TypeInv, TypeOK, NativeStake
<1>2. /\ stakes' = [stakes EXCEPT ![c].delegated = @ + stakes[s].delegated + extra,
                                  ![s] = NoRecord]
      /\ native' = [native EXCEPT ![c].stake = @ + native[s].stake + extra,
                                  ![s] = NoAccount]
      /\ totalActiveBalance' = totalActiveBalance + extra
      /\ UNCHANGED <<coolingVars, reserveVars, circulatingTicketBalance>>
  BY DEF MergeStakes
<1> HIDE DEF extra
<1>3. /\ stakes'[c].delegated = stakes[c].delegated + stakes[s].delegated + extra
      /\ native'[c].stake = native[c].stake + native[s].stake + extra
      /\ native'[c].extra = native[c].extra
      /\ stakes'[s] = NoRecord /\ native'[s] = NoAccount
      /\ \A d \in Accounts \ {c, s} : stakes'[d] = stakes[d] /\ native'[d] = native[d]
  BY <1>1, <1>2 DEF TypeInv, TypeOK, StakeRecord, NativeStake
<1>4. /\ RecordBacked(c)' /\ RecordBacked(s)'
      /\ Lamports(c) \in Nat /\ Lamports(s) \in Nat
      /\ Lamports(c)' = Lamports(c) + Lamports(s) + extra /\ Lamports(s)' = 0
  BY <1>1, <1>3 DEF RecordBacked, Lamports, NoRecord, NoAccount
<1>5. /\ RecordsBacked'
      /\ LamportsHeld' = LamportsHeld + reserveBalance' - reserveBalance
                           + Lamports(c)' - Lamports(c) + Lamports(s)' - Lamports(s)
  BY <1>1, <1>3, <1>4, TwoAccounts DEF TypeInv
<1>6. CountersTyped /\ LamportsHeld \in Nat
  BY HeldType DEF CountersTyped, TypeInv, TypeOK
<1> QED BY <1>1, <1>2, <1>4, <1>5, <1>6
     DEF Keeps, CoverKept, TotalLamportsUnderControl, CountersTyped

(* The steps that touch no stake account, and what the chain brings in. *)
LEMMA DepositKeeps ==
  ASSUME TypeOK, TypeOK', RecordsBacked, NEW n \in Deposits, Deposit(n)
  PROVE  Keeps
<1>1. n \in Nat
  BY AmountsAssumption
<1>2. /\ reserveBalance' = reserveBalance + n
      /\ availableReserveBalance' = availableReserveBalance + n
      /\ AccountsStay /\ CountersStay
  BY DEF Deposit, AccountsStay, CountersStay
<1> QED BY <1>1, <1>2, ListsUntouched

LEMMA DonateKeeps ==
  ASSUME TypeOK, TypeOK', RecordsBacked, NEW n \in Donations, Donate(n)
  PROVE  Keeps
<1>1. n \in Nat
  BY AmountsAssumption
<1>2. /\ reserveBalance' = reserveBalance + n
      /\ availableReserveBalance' = availableReserveBalance + 0
      /\ AccountsStay /\ CountersStay
  BY DEF Donate, AccountsStay, CountersStay, TypeOK
<1> QED BY <1>1, <1>2, ListsUntouched

LEMMA NothingMovedKeeps ==
  ASSUME TypeOK, TypeOK', RecordsBacked, AccountsStay, CountersStay, UNCHANGED reserveVars
  PROVE  Keeps
<1>1. reserveBalance' = reserveBalance + 0 /\ availableReserveBalance' = availableReserveBalance + 0
  BY DEF TypeOK
<1> QED BY <1>1, ListsUntouched

LEMMA RewardKeeps ==
  ASSUME TypeOK, TypeOK', RecordsBacked, NEW a \in Accounts, NEW n \in Rewards, Reward(a, n)
  PROVE  Keeps
<1>1. n \in Nat /\ native[a].stake \in Nat /\ native[a].extra \in Nat /\ stakes[a].delegated \in Nat
  BY AmountsAssumption DEF TypeOK, NativeStake, StakeRecord
<1>2. /\ native'[a].stake = native[a].stake + n /\ native'[a].extra = native[a].extra
      /\ stakes'[a] = stakes[a]
      /\ \A c \in Accounts \ {a} : stakes'[c] = stakes[c] /\ native'[c] = native[c]
  BY DEF Reward, TypeOK, NativeStake
<1>3. /\ RecordBacked(a)' /\ Lamports(a) \in Nat /\ Lamports(a)' = Lamports(a) + n
  BY <1>1, <1>2 DEF RecordsBacked, RecordBacked, Lamports
<1>4. /\ RecordsBacked'
      /\ LamportsHeld' = LamportsHeld + reserveBalance' - reserveBalance
                           + Lamports(a)' - Lamports(a)
  BY <1>2, <1>3, OneAccount
<1>5. UNCHANGED <<balanceVars, reserveVars, circulatingTicketBalance>>
  BY DEF Reward
<1>6. CountersTyped /\ LamportsHeld \in Nat
  BY HeldType DEF CountersTyped, TypeOK
<1> QED BY <1>1, <1>3, <1>4, <1>5, <1>6
     DEF Keeps, CoverKept, TotalLamportsUnderControl, CountersTyped

LEMMA TipKeeps ==
  ASSUME TypeOK, TypeOK', RecordsBacked, NEW a \in Accounts, NEW n \in Tips, Tip(a, n)
  PROVE  Keeps
<1>1. n \in Nat /\ native[a].stake \in Nat /\ native[a].extra \in Nat /\ stakes[a].delegated \in Nat
  BY AmountsAssumption DEF TypeOK, NativeStake, StakeRecord
<1>2. /\ native'[a].stake = native[a].stake /\ native'[a].extra = native[a].extra + n
      /\ stakes'[a] = stakes[a]
      /\ \A c \in Accounts \ {a} : stakes'[c] = stakes[c] /\ native'[c] = native[c]
  BY DEF Tip, TypeOK, NativeStake
<1>3. /\ RecordBacked(a)' /\ Lamports(a) \in Nat /\ Lamports(a)' = Lamports(a) + n
  BY <1>1, <1>2 DEF RecordsBacked, RecordBacked, Lamports
<1>4. /\ RecordsBacked'
      /\ LamportsHeld' = LamportsHeld + reserveBalance' - reserveBalance
                           + Lamports(a)' - Lamports(a)
  BY <1>2, <1>3, OneAccount
<1>5. UNCHANGED <<balanceVars, reserveVars, circulatingTicketBalance>>
  BY DEF Tip
<1>6. CountersTyped /\ LamportsHeld \in Nat
  BY HeldType DEF CountersTyped, TypeOK
<1> QED BY <1>1, <1>3, <1>4, <1>5, <1>6
     DEF Keeps, CoverKept, TotalLamportsUnderControl, CountersTyped
-----------------------------------------------------------------------------
(* The three steps by which a user gets lamports, or the promise of some. *)
Released(n) ==
  /\ RecordsBacked'
  /\ LamportsHeld' = LamportsHeld - n
  /\ TotalLamportsUnderControl' = TotalLamportsUnderControl - n
  /\ UNCHANGED <<circulatingTicketBalance, reserveBalance, delayedUnstakeCoolingDown>>
  /\ circulatingTicketBalance <= TotalLamportsUnderControl'

Promised(n) ==
  /\ RecordsBacked'
  /\ circulatingTicketBalance' = circulatingTicketBalance + n
  /\ circulatingTicketBalance' <= TotalLamportsUnderControl
  /\ UNCHANGED <<LamportsHeld, TotalLamportsUnderControl>>

Paid(n) ==
  /\ RecordsBacked'
  /\ LamportsHeld' = LamportsHeld - n
  /\ TotalLamportsUnderControl' = TotalLamportsUnderControl - n
  /\ circulatingTicketBalance' = circulatingTicketBalance - n
  /\ reserveBalance' = reserveBalance - n
  /\ UNCHANGED delayedUnstakeCoolingDown

LEMMA WithdrawStakeAccountReleases ==
  ASSUME TypeOK, TypeOK', RecordsBacked, NEW a \in Accounts, NEW n \in Withdrawals,
         WithdrawStakeAccount(a, n)
  PROVE  n \in Nat \ {0} /\ Released(n)
<1>1. n \in Nat /\ n > 0
  BY AmountsAssumption DEF WithdrawStakeAccount
<1>2. /\ native[a].stake \in Nat /\ native[a].extra \in Nat
      /\ native[a].stake = stakes[a].delegated
      /\ n <= TotalVirtualStakedLamports
  BY DEF WithdrawStakeAccount, CheckStakeAmountAndValidator, TypeOK, NativeStake
<1>3. /\ stakes'[a].delegated = stakes[a].delegated - n
      /\ native'[a].stake = native[a].stake - n /\ native'[a].extra = native[a].extra
      /\ \A c \in Accounts \ {a} : stakes'[c] = stakes[c] /\ native'[c] = native[c]
  BY DEF WithdrawStakeAccount, TypeOK, StakeRecord, NativeStake
<1>4. RecordBacked(a)' /\ Lamports(a) \in Nat /\ Lamports(a)' = Lamports(a) - n
  BY <1>1, <1>2, <1>3 DEF RecordBacked, Lamports
<1>5. /\ RecordsBacked'
      /\ LamportsHeld' = LamportsHeld + reserveBalance' - reserveBalance
                           + Lamports(a)' - Lamports(a)
  BY <1>3, <1>4, OneAccount
<1>6. /\ totalActiveBalance' = totalActiveBalance - n
      /\ UNCHANGED <<coolingVars, reserveVars, circulatingTicketBalance>>
  BY DEF WithdrawStakeAccount
<1>7. CountersTyped /\ LamportsHeld \in Nat
  BY HeldType DEF CountersTyped, TypeOK
<1>8. LamportsHeld' = LamportsHeld - n
  BY <1>1, <1>4, <1>5, <1>6, <1>7 DEF CountersTyped
<1>9. /\ TotalLamportsUnderControl \in Nat
      /\ TotalLamportsUnderControl' = TotalLamportsUnderControl - n
  BY <1>1, <1>6, <1>7 DEF TotalLamportsUnderControl, CountersTyped
<1>10. circulatingTicketBalance <= TotalLamportsUnderControl'
  BY <1>1, <1>2, <1>7, <1>9 DEF TotalVirtualStakedLamports, SatSub, CountersTyped
<1> QED BY <1>1, <1>5, <1>6, <1>8, <1>9, <1>10 DEF Released

LEMMA OrderUnstakePromises ==
  ASSUME TypeOK, TypeOK', RecordsBacked, NEW t \in Tickets, NEW n \in Orders,
         OrderUnstake(t, n)
  PROVE  n \in Nat \ {0} /\ Promised(n)
<1>1. n \in Nat /\ n > 0 /\ n <= TotalVirtualStakedLamports
  BY AmountsAssumption DEF OrderUnstake
<1>2. /\ circulatingTicketBalance' = circulatingTicketBalance + n
      /\ UNCHANGED <<stakes, native, balanceVars, reserveVars>>
  BY DEF OrderUnstake
<1>3. RecordsBacked'
  BY <1>2 DEF RecordsBacked, RecordBacked
<1>4. LamportsHeld' = LamportsHeld /\ TotalLamportsUnderControl' = TotalLamportsUnderControl
  BY <1>2 DEF LamportsHeld, NativeLamports, TotalLamportsUnderControl
<1>5. CountersTyped /\ TotalLamportsUnderControl \in Nat
  BY DEF CountersTyped, TypeOK, TotalLamportsUnderControl
<1>6. circulatingTicketBalance' <= TotalLamportsUnderControl
  BY <1>1, <1>2, <1>5 DEF TotalVirtualStakedLamports, SatSub, CountersTyped
<1> QED BY <1>1, <1>2, <1>3, <1>4, <1>6 DEF Promised

LEMMA ClaimPays ==
  ASSUME TypeOK, TypeOK', RecordsBacked, NEW t \in Tickets, Claim(t)
  PROVE  \E n \in Nat \ {0} : Paid(n)
<1> DEFINE n == tickets[t].lamports
<1>1. n \in Nat \ {0}
  BY DEF Claim, Payable, Due, TypeOK, Ticket
<1>2. /\ circulatingTicketBalance' = circulatingTicketBalance - n
      /\ reserveBalance' = reserveBalance - n
      /\ availableReserveBalance' = availableReserveBalance - n
      /\ UNCHANGED balanceVars /\ AccountsStay
  BY DEF Claim, AccountsStay
<1> HIDE DEF n
<1>3. /\ RecordsBacked'
      /\ LamportsHeld' = LamportsHeld + reserveBalance' - reserveBalance
  BY <1>2, NoAccountMoves
<1>4. CountersTyped /\ LamportsHeld \in Nat
  BY HeldType DEF CountersTyped, TypeOK
<1>5. /\ LamportsHeld' = LamportsHeld - n
      /\ TotalLamportsUnderControl' = TotalLamportsUnderControl - n
  BY <1>1, <1>2, <1>3, <1>4 DEF TotalLamportsUnderControl, CountersTyped
<1> QED BY <1>1, <1>2, <1>3, <1>5 DEF Paid

(* The hypothesis of what follows, under which TLC runs the same properties. *)
NoSlashing == Slashes = {}

UserTakes ==
  \/ \E n \in Nat \ {0} : Withdrawals # {} /\ Released(n)
  \/ \E n \in Nat \ {0} : Promised(n)
  \/ \E n \in Nat \ {0} : Paid(n)

(* Every step but a slash keeps, or a user takes. *)
LEMMA StepEffect ==
  ASSUME NoSlashing, TypeInv, TypeInv', RecordsBacked, ReserveBacked, [Next]_vars
  PROVE  Keeps \/ UserTakes
<1>0. TypeOK /\ TypeOK' /\ StatusAgreesWithNative
  BY DEF TypeInv
<1>1. CASE UserStep
  <2>1. ASSUME NEW n \in Deposits, Deposit(n)
        PROVE  Keeps
    BY <1>0, <2>1, DepositKeeps
  <2>2. ASSUME NEW a \in Accounts, NEW v \in Validators, NEW n \in StakeDeposits,
               NEW e \in 0 .. MaxEpoch, DepositStakeAccount(a, v, n, e)
        PROVE  Keeps
    BY <1>0, <2>2, DepositStakeAccountKeeps
  <2>3. ASSUME NEW a \in Accounts, NEW n \in Withdrawals, WithdrawStakeAccount(a, n)
        PROVE  UserTakes
    BY <1>0, <2>3, WithdrawStakeAccountReleases DEF UserTakes
  <2>4. ASSUME NEW t \in Tickets, NEW n \in Orders, OrderUnstake(t, n)
        PROVE  UserTakes
    BY <1>0, <2>4, OrderUnstakePromises DEF UserTakes
  <2>5. ASSUME NEW t \in Tickets, Claim(t)
        PROVE  UserTakes
    BY <1>0, <2>5, ClaimPays DEF UserTakes
  <2> QED BY <1>1, <2>1, <2>2, <2>3, <2>4, <2>5 DEF UserStep
<1>2. CASE CrankStep
  <2>1. ASSUME NEW v \in Validators, NEW a \in Accounts, StakeReserve(v, a)
        PROVE  Keeps
    BY <1>0, <2>1, StakeReserveKeeps
  <2>2. ASSUME NEW v \in Validators, StakeReserveNothing(v)
        PROVE  Keeps
    <3>1. AccountsStay /\ CountersStay /\ UNCHANGED reserveVars
      BY <2>2 DEF StakeReserveNothing, AccountsStay, CountersStay
    <3> QED BY <1>0, <3>1, NothingMovedKeeps
  <2> QED BY <1>0, <1>2, <2>1, <2>2, DeactivateStakeKeeps, UpdateActiveKeeps,
             UpdateDeactivatedKeeps, CreateCanonicalStakeKeeps, MergeStakesKeeps
          DEF CrankStep
<1>3. CASE ManagerStep
  <2>1. ASSUME NEW a \in Accounts, EmergencyUnstake(a)
        PROVE  Keeps
    BY <1>0, <2>1, EmergencyUnstakeEffect, EmergencyMoveKeeps
  <2>2. ASSUME NEW a \in Accounts, NEW b \in Accounts, NEW n \in Unstakes,
               PartialUnstake(a, b, n)
        PROVE  Keeps
    BY <1>0, <2>2, PartialUnstakeEffect, EmergencyMoveKeeps
  <2>3. CASE \/ \E v \in Validators, score \in Scores : AddValidator(v, score)
             \/ \E v \in Validators : RemoveValidator(v)
             \/ \E v \in Validators, score \in Scores : SetValidatorScore(v, score)
             \/ \E runs \in ExtraRuns : ConfigValidatorSystem(runs)
    <3>1. AccountsStay /\ CountersStay /\ UNCHANGED reserveVars
      BY <2>3 DEF AddValidator, RemoveValidator, SetValidatorScore,
                  ConfigValidatorSystem, AccountsStay, CountersStay
    <3> QED BY <1>0, <3>1, NothingMovedKeeps
  <2> QED BY <1>3, <2>1, <2>2, <2>3 DEF ManagerStep
<1>4. CASE PauseStep \/ UNCHANGED vars
  <2>1. AccountsStay /\ CountersStay /\ UNCHANGED reserveVars
    BY <1>4 DEF PauseStep, Pause, Resume, vars, AccountsStay, CountersStay
  <2> QED BY <1>0, <2>1, NothingMovedKeeps
<1>5. CASE ChainStep
  <2>1. CASE \/ AdvancePhase \/ AdvanceEpoch
             \/ \E a \in Accounts : DeactivateDelinquent(a)
    <3>1. AccountsStay /\ CountersStay /\ UNCHANGED reserveVars
      BY <1>0, <2>1 DEF AdvancePhase, AdvanceEpoch, DeactivateDelinquent,
                        AccountsStay, CountersStay, TypeOK, NativeStake
    <3> QED BY <1>0, <3>1, NothingMovedKeeps
  <2>2. ~ \E a \in Accounts, n \in Slashes : Slash(a, n)
    BY DEF NoSlashing
  <2> QED BY <1>0, <1>5, <2>1, <2>2, RewardKeeps, TipKeeps, DonateKeeps DEF ChainStep
<1> QED BY <1>1, <1>2, <1>3, <1>4, <1>5 DEF Next
-----------------------------------------------------------------------------
(* No record is above its stake and no ticket is off the books; that the    *)
(* totals are backed follows, the totals being the sum of the records.      *)
VaultInv == SumsInv /\ RecordsBacked /\ Solvent

LEMMA InitVault == Init => VaultInv
<1> SUFFICES ASSUME Init PROVE VaultInv
  OBVIOUS
<1>1. SumsInv
  BY InitTypeInv, InitBalances, InitScores, InitTickets, InitReserve DEF SumsInv
<1>2. RecordsBacked
  BY DEF Init, RecordsBacked, RecordBacked, NoRecord, NoAccount
<1>3. Solvent
  BY DEF Init, Solvent, TotalLamportsUnderControl
<1> QED BY <1>1, <1>2, <1>3 DEF VaultInv

LEMMA NextVault ==
  ASSUME NoSlashing, VaultInv, [Next]_vars
  PROVE  VaultInv' /\ (Keeps \/ UserTakes)
<1>1. SumsInv'
  BY NextTypeInv, NextBalances, NextScores, NextTickets, NextReserve DEF SumsInv, VaultInv
<1>2. TypeInv /\ TypeInv' /\ RecordsBacked /\ ReserveBacked
  BY <1>1 DEF SumsInv, VaultInv
<1>3. Keeps \/ UserTakes
  BY <1>2, StepEffect
<1>4. RecordsBacked'
  BY <1>3, Zenon DEF Keeps, UserTakes, Released, Promised, Paid
<1>5. CountersTyped /\ CountersTyped'
  BY <1>2 DEF CountersTyped, TypeInv, TypeOK
<1>6. /\ TotalLamportsUnderControl \in Nat /\ TotalLamportsUnderControl' \in Nat
      /\ circulatingTicketBalance <= TotalLamportsUnderControl
  <2>1. TotalLamportsUnderControl \in Nat /\ TotalLamportsUnderControl' \in Nat
    BY <1>5, BooksType, BooksTypeNext
  <2> QED BY <2>1 DEF VaultInv, Solvent
<1>7. circulatingTicketBalance' <= TotalLamportsUnderControl'
  <2>1. CASE Keeps
    BY <1>5, <1>6, <2>1 DEF Keeps, CountersTyped
  <2>2. ASSUME NEW n \in Nat \ {0}, Released(n)
        PROVE  circulatingTicketBalance' <= TotalLamportsUnderControl'
    BY <2>2 DEF Released
  <2>3. ASSUME NEW n \in Nat \ {0}, Promised(n)
        PROVE  circulatingTicketBalance' <= TotalLamportsUnderControl'
    BY <2>3 DEF Promised
  <2>4. ASSUME NEW n \in Nat \ {0}, Paid(n)
        PROVE  circulatingTicketBalance' <= TotalLamportsUnderControl'
    <3>1. /\ TotalLamportsUnderControl' = TotalLamportsUnderControl - n
          /\ circulatingTicketBalance' = circulatingTicketBalance - n
      BY <2>4 DEF Paid
    <3> QED BY <1>5, <1>6, <3>1 DEF CountersTyped
  <2> QED BY <1>3, <2>1, <2>2, <2>3, <2>4 DEF UserTakes
<1> QED BY <1>1, <1>3, <1>4, <1>7 DEF VaultInv, Solvent

(* The totals are the sum of the records and of the recorded reserve, each  *)
(* of them backed.                                                          *)
LEMMA BooksFollow == SumsInv /\ RecordsBacked => BooksBacked
<1> SUFFICES ASSUME SumsInv, RecordsBacked
             PROVE  BooksBacked
  OBVIOUS
<1>1. TypeOK /\ RecordsAddUp /\ availableReserveBalance <= reserveBalance
  BY DEF SumsInv, TypeInv, BalancesAddUp, ReserveBacked
<1>2. /\ \A a \in Accounts : RecordedStake[a] \in Nat /\ NativeLamports[a] \in Nat
      /\ \A a \in Accounts : RecordedStake[a] <= NativeLamports[a]
  BY <1>1 DEF RecordedStake, NativeLamports, RecordsBacked, RecordBacked, TypeOK,
              StakeRecord, NativeStake
<1>3. Total(Accounts, RecordedStake) <= Total(Accounts, NativeLamports)
  BY <1>2, SetsAssumption, TotalMonotone
<1>4. Total(Accounts, RecordedStake) \in Nat /\ Total(Accounts, NativeLamports) \in Nat
  BY <1>2, SetsAssumption, TotalType
<1>5. CountersTyped
  BY <1>1 DEF CountersTyped, TypeOK
<1>6. TotalLamportsUnderControl <= LamportsHeld
  BY <1>1, <1>3, <1>4, <1>5
  DEF TotalLamportsUnderControl, LamportsHeld, RecordsAddUp, CountersTyped
<1> QED BY <1>6 DEF BooksBacked, RecordsBacked, RecordBacked

LEMMA BooksFollowNext == SumsInv' /\ RecordsBacked' => BooksBacked'
BY BooksFollow, PTL

LEMMA VaultInvariant ==
  ASSUME NoSlashing
  PROVE  Spec => []VaultInv
<1>1. Init => VaultInv
  BY InitVault
<1>2. VaultInv /\ [Next]_vars => VaultInv'
  BY NextVault
<1> QED BY <1>1, <1>2, PTL DEF Spec

(* As long as no stake is slashed, no record says more than its stake and   *)
(* the totals no more than the reserve and the stakes hold: the mSOL price  *)
(* is computed from lamports that are there.                                *)
THEOREM BooksAreBacked ==
  ASSUME NoSlashing
  PROVE  Spec => []BooksBacked
<1>1. VaultInv => BooksBacked
  BY BooksFollow DEF VaultInv
<1> QED BY <1>1, VaultInvariant, PTL

(* As long as no stake is slashed, the tickets are never worth more than    *)
(* what is under control: the checks on total_virtual_staked_lamports hold  *)
(* the orders and the withdrawals back, and nothing else lowers it.         *)
THEOREM AlwaysSolvent ==
  ASSUME NoSlashing
  PROVE  Spec => []Solvent
<1>1. VaultInv => Solvent
  BY DEF VaultInv
<1> QED BY <1>1, VaultInvariant, PTL

(* What covers the tickets. *)
Cover == reserveBalance + delayedUnstakeCoolingDown

LEMMA CoverType == CountersTyped => Cover \in Nat
BY DEF CountersTyped, Cover

LEMMA CoverTypeNext == CountersTyped' => (Cover \in Nat)'
BY CoverType, PTL

LEMMA SatSubOfMore ==
  ASSUME NEW x \in Nat, NEW y \in Nat, NEW z \in Nat, z >= y \/ z >= x
  PROVE  SatSub(x, z) <= SatSub(x, y)
BY DEF SatSub

LEMMA SatSubOfBoth ==
  ASSUME NEW x \in Nat, NEW y \in Nat, NEW n \in Nat
  PROVE  SatSub(x - n, y - n) = SatSub(x, y) /\ SatSub(x, y) \in Nat
BY DEF SatSub

LEMMA KeptIsCovered ==
  ASSUME CountersTyped, CountersTyped', Keeps
  PROVE  Uncovered' <= Uncovered
<1>1. circulatingTicketBalance' = circulatingTicketBalance /\ CoverKept
  BY DEF Keeps
<1>2. Cover \in Nat /\ Cover' \in Nat /\ circulatingTicketBalance \in Nat
  BY CoverType, CoverTypeNext DEF CountersTyped
<1>3. Cover' >= Cover \/ Cover' >= circulatingTicketBalance
  BY <1>1 DEF CoverKept, Cover
<1>4. SatSub(circulatingTicketBalance, Cover') <= SatSub(circulatingTicketBalance, Cover)
  BY <1>2, <1>3, SatSubOfMore
<1>5. /\ Uncovered = SatSub(circulatingTicketBalance, Cover)
      /\ Uncovered' = SatSub(circulatingTicketBalance, Cover')
  BY <1>1 DEF Uncovered, SatSub, Cover
<1> QED BY <1>4, <1>5

LEMMA TakenIsCovered ==
  ASSUME CountersTyped, CountersTyped', NEW n \in Nat, Released(n) \/ Paid(n)
  PROVE  Uncovered' <= Uncovered
<1>1. Cover \in Nat /\ circulatingTicketBalance \in Nat
  BY CoverType DEF CountersTyped
<1>2. Uncovered = SatSub(circulatingTicketBalance, Cover)
  BY DEF Uncovered, Cover
<1>3. CASE Released(n)
  <2>1. Uncovered' = Uncovered
    BY <1>3 DEF Released, Uncovered, SatSub
  <2>2. Uncovered \in Nat
    BY <1>1, <1>2, SatSubOfBoth
  <2> QED BY <2>1, <2>2
<1>4. CASE Paid(n)
  <2>1. /\ circulatingTicketBalance' = circulatingTicketBalance - n
        /\ reserveBalance' = reserveBalance - n
        /\ delayedUnstakeCoolingDown' = delayedUnstakeCoolingDown
    BY <1>4 DEF Paid
  <2>2. reserveBalance' + delayedUnstakeCoolingDown' = Cover - n
    BY <2>1 DEF Cover, CountersTyped
  <2>3. Uncovered' = SatSub(circulatingTicketBalance - n, Cover - n)
    BY <2>1, <2>2 DEF Uncovered, SatSub
  <2> QED BY <1>1, <1>2, <2>3, SatSubOfBoth
<1> QED BY <1>3, <1>4

(* As long as no stake is slashed, only a new order raises what of the      *)
(* tickets is not covered by the reserve and the stakes cooling down for    *)
(* them: no crank stakes or restakes what they need.                        *)
THEOREM CoverOnlyOrdered ==
  ASSUME NoSlashing
  PROVE  Spec => OnlyOrdersUncover
<1>1. ASSUME VaultInv, [Next]_vars, circulatingTicketBalance' <= circulatingTicketBalance
      PROVE  Uncovered' <= Uncovered
  <2>1. VaultInv' /\ (Keeps \/ UserTakes)
    BY <1>1, NextVault
  <2>2. CountersTyped /\ CountersTyped'
    BY <1>1, <2>1 DEF VaultInv, SumsInv, TypeInv, TypeOK, CountersTyped
  <2>3. ASSUME NEW n \in Nat \ {0}, Promised(n)
        PROVE  FALSE
    <3>1. circulatingTicketBalance' = circulatingTicketBalance + n
      BY <2>3 DEF Promised
    <3> QED BY <1>1, <2>2, <3>1 DEF CountersTyped
  <2> QED BY <2>1, <2>2, <2>3, KeptIsCovered, TakenIsCovered DEF UserTakes
<1>2. VaultInv /\ [Next]_vars
        => [circulatingTicketBalance' <= circulatingTicketBalance => Uncovered' <= Uncovered]_vars
  BY <1>1
<1> QED BY <1>2, VaultInvariant, PTL DEF Spec, OnlyOrdersUncover

(* As long as no stake is slashed the staking core implements the vault:    *)
(* every crank, manager or chain step earns or changes nothing of it, and   *)
(* lamports leave it only as a claimed ticket or a withdrawn stake account. *)
THEOREM StakingImplementsVault ==
  ASSUME NoSlashing
  PROVE  Spec => ImplementsVault
<1>1. Init => V!Init
  <2> SUFFICES ASSUME Init PROVE V!Init
    OBVIOUS
  <2>1. \A a \in Accounts : NativeLamports[a] = 0
    BY DEF Init, NativeLamports, NoAccount
  <2>2. LamportsHeld = 0
    BY <2>1, TotalZero DEF Init, LamportsHeld
  <2> QED BY <2>2 DEF V!Init, Init, TotalLamportsUnderControl
<1>2. ASSUME VaultInv, [Next]_vars
      PROVE  V!Next
  <2>1. VaultInv' /\ (Keeps \/ UserTakes)
    BY <1>2, NextVault
  <2>2. TypeOK /\ TypeOK'
    BY <1>2, <2>1 DEF VaultInv, SumsInv, TypeInv
  <2>3. CountersTyped /\ CountersTyped'
    BY <2>2 DEF TypeOK, CountersTyped
  <2>4. /\ LamportsHeld \in Nat /\ LamportsHeld' \in Nat
        /\ TotalLamportsUnderControl \in Nat /\ TotalLamportsUnderControl' \in Nat
    BY <2>2, <2>3, HeldType, HeldTypeNext, BooksType, BooksTypeNext
  <2>5. CASE Keeps
    <3>1. BooksBacked'
      BY <2>1, BooksFollowNext DEF VaultInv
    <3>2. V!Earn
      BY <2>5, <3>1 DEF V!Earn, Keeps, BooksBacked
    <3> QED BY <3>2 DEF V!Next
  <2>6. ASSUME NEW n \in Nat \ {0}, Withdrawals # {}, Released(n)
        PROVE  V!Release
    <3>1. /\ LamportsHeld' = LamportsHeld - n
          /\ TotalLamportsUnderControl' = TotalLamportsUnderControl - n
          /\ circulatingTicketBalance' = circulatingTicketBalance
          /\ circulatingTicketBalance <= TotalLamportsUnderControl'
      BY <2>6 DEF Released
    <3> QED BY <2>4, <2>6, <3>1 DEF V!Release
  <2>7. ASSUME NEW n \in Nat \ {0}, Promised(n)
        PROVE  V!Promise
    <3>1. /\ circulatingTicketBalance' = circulatingTicketBalance + n
          /\ circulatingTicketBalance' <= TotalLamportsUnderControl
          /\ UNCHANGED <<LamportsHeld, TotalLamportsUnderControl>>
      BY <2>7 DEF Promised
    <3> QED BY <2>3, <3>1 DEF V!Promise, CountersTyped
  <2>8. ASSUME NEW n \in Nat \ {0}, Paid(n)
        PROVE  V!Pay
    <3>1. /\ LamportsHeld' = LamportsHeld - n
          /\ TotalLamportsUnderControl' = TotalLamportsUnderControl - n
          /\ circulatingTicketBalance' = circulatingTicketBalance - n
      BY <2>8 DEF Paid
    <3> QED BY <2>3, <2>4, <3>1 DEF V!Pay, CountersTyped
  <2> QED BY <2>1, <2>5, <2>6, <2>7, <2>8 DEF UserTakes, V!Next
<1>3. VaultInv /\ [Next]_vars => [V!Next]_(V!vars)
  BY <1>2
<1> QED BY <1>1, <1>3, VaultInvariant, PTL DEF Spec, ImplementsVault, V!Spec
-----------------------------------------------------------------------------
(* What follows holds whether stakes are slashed or not.                    *)
(*                                                                          *)
(* Four instructions move lamports out of the reserve or stakes into one of *)
(* the cooling-down counters; everything else lowers these counters, raises *)
(* the reserve or leaves them alone.                                        *)
Quiet ==
  /\ delayedUnstakeCoolingDown' \in Nat /\ delayedUnstakeCoolingDown' <= delayedUnstakeCoolingDown
  /\ emergencyCoolingDown' \in Nat /\ emergencyCoolingDown' <= emergencyCoolingDown
  /\ reserveBalance' \in Nat /\ reserveBalance <= reserveBalance'

LEMMA QuietWhenUnchanged ==
  ASSUME TypeOK, UNCHANGED <<coolingVars, reserveBalance>>
  PROVE  Quiet
BY DEF TypeOK, Quiet

LEMMA UpdateIsQuiet ==
  ASSUME TypeOK, NEW a \in Accounts, UpdateActive(a) \/ UpdateDeactivated(a)
  PROVE  Quiet
<1>1. /\ native[a].stake \in Nat /\ native[a].extra \in Nat /\ stakes[a].delegated \in Nat
      /\ delayedUnstakeCoolingDown \in Nat /\ emergencyCoolingDown \in Nat
      /\ reserveBalance \in Nat
  BY DEF TypeOK, NativeStake, StakeRecord
<1>2. CASE UpdateActive(a)
  <2>1. reserveBalance' = reserveBalance + native[a].extra /\ UNCHANGED coolingVars
    BY <1>2 DEF UpdateActive, WithdrawToReserve
  <2> QED BY <1>1, <2>1 DEF Quiet
<1>3. CASE UpdateDeactivated(a)
  <2>1. reserveBalance' = reserveBalance + (native[a].stake + native[a].extra)
    BY <1>3 DEF UpdateDeactivated, WithdrawToReserve
  <2>2. \/ UNCHANGED coolingVars
        \/ /\ delayedUnstakeCoolingDown >= stakes[a].delegated
           /\ delayedUnstakeCoolingDown' = delayedUnstakeCoolingDown - stakes[a].delegated
           /\ UNCHANGED emergencyCoolingDown
        \/ /\ emergencyCoolingDown >= stakes[a].delegated
           /\ emergencyCoolingDown' = emergencyCoolingDown - stakes[a].delegated
           /\ UNCHANGED delayedUnstakeCoolingDown
    BY <1>3, Zenon DEF UpdateDeactivated
  <2> QED BY <1>1, <2>1, <2>2 DEF Quiet
<1> QED BY <1>2, <1>3

LEMMA DepositIsQuiet ==
  ASSUME TypeOK, NEW n \in Nat, reserveBalance' = reserveBalance + n, UNCHANGED coolingVars
  PROVE  Quiet
BY DEF TypeOK, Quiet

LEMMA WhatIsNotQuiet ==
  ASSUME TypeInv, [Next]_vars
  PROVE  \/ Quiet
         \/ \E a, b \in Accounts : DeactivateStake(a, b)
         \/ \E a, b \in Accounts, n \in Nat : EmergencyMove(a, b, n)
         \/ \E v \in Validators, a \in Accounts : StakeReserve(v, a)
         \/ \E t \in Tickets : Claim(t)
<1>0. TypeOK
  BY DEF TypeInv
<1>1. ASSUME UserStep, ~ \E t \in Tickets : Claim(t)
      PROVE  Quiet
  <2>1. ASSUME NEW n \in Deposits, Deposit(n)
        PROVE  Quiet
    <3>1. n \in Nat /\ reserveBalance' = reserveBalance + n /\ UNCHANGED coolingVars
      BY <2>1, AmountsAssumption DEF Deposit
    <3> QED BY <1>0, <3>1, DepositIsQuiet
  <2>2. CASE \/ \E a \in Accounts, v \in Validators, n \in StakeDeposits, e \in 0 .. MaxEpoch :
                  DepositStakeAccount(a, v, n, e)
             \/ \E a \in Accounts, n \in Withdrawals : WithdrawStakeAccount(a, n)
             \/ \E t \in Tickets, n \in Orders : OrderUnstake(t, n)
    <3>1. UNCHANGED <<coolingVars, reserveBalance>>
      BY <2>2, ZenonT(90) DEF DepositStakeAccount, WithdrawStakeAccount, OrderUnstake
    <3> QED BY <1>0, <3>1, QuietWhenUnchanged
  <2> QED BY <1>1, <2>1, <2>2, Zenon DEF UserStep
<1>2. ASSUME CrankStep, ~ \E a, b \in Accounts : DeactivateStake(a, b),
             ~ \E v \in Validators, a \in Accounts : StakeReserve(v, a)
      PROVE  Quiet
  <2>1. CASE \E a \in Accounts : UpdateActive(a) \/ UpdateDeactivated(a)
    BY <1>0, <2>1, UpdateIsQuiet
  <2>2. CASE \/ \E v \in Validators : StakeReserveNothing(v)
             \/ \E v \in Validators, s \in Accounts : CreateCanonicalStake(v, s)
             \/ \E v \in Validators, s \in Accounts : MergeStakes(v, s)
    <3>1. UNCHANGED <<coolingVars, reserveBalance>>
      BY <2>2, ZenonT(90) DEF StakeReserveNothing, CreateCanonicalStake, MergeStakes
    <3> QED BY <1>0, <3>1, QuietWhenUnchanged
  <2> QED BY <1>2, <2>1, <2>2, Zenon DEF CrankStep
<1>3. CASE ManagerStep
  <2>1. CASE \E a \in Accounts : EmergencyUnstake(a)
    BY <2>1, EmergencyUnstakeEffect
  <2>2. CASE \E a, b \in Accounts, n \in Unstakes : PartialUnstake(a, b, n)
    BY <2>2, PartialUnstakeEffect
  <2>3. CASE \/ \E v \in Validators, score \in Scores : AddValidator(v, score)
             \/ \E v \in Validators : RemoveValidator(v)
             \/ \E v \in Validators, score \in Scores : SetValidatorScore(v, score)
             \/ \E runs \in ExtraRuns : ConfigValidatorSystem(runs)
    <3>1. UNCHANGED <<coolingVars, reserveBalance>>
      BY <2>3, ZenonT(90)
      DEF AddValidator, RemoveValidator, SetValidatorScore, ConfigValidatorSystem
    <3> QED BY <1>0, <3>1, QuietWhenUnchanged
  <2> QED BY <1>3, <2>1, <2>2, <2>3, Zenon DEF ManagerStep
<1>4. CASE PauseStep \/ ChainStep \/ UNCHANGED vars
  <2>1. ASSUME NEW n \in Donations, Donate(n)
        PROVE  Quiet
    <3>1. n \in Nat /\ reserveBalance' = reserveBalance + n /\ UNCHANGED coolingVars
      BY <2>1, AmountsAssumption DEF Donate
    <3> QED BY <1>0, <3>1, DepositIsQuiet
  <2>2. \/ \E n \in Donations : Donate(n)
        \/ UNCHANGED <<coolingVars, reserveBalance>>
    BY <1>4
    DEF PauseStep, Pause, Resume, ChainStep, AdvancePhase, AdvanceEpoch, Reward, Slash,
        Tip, DeactivateDelinquent, vars
  <2> QED BY <1>0, <2>1, <2>2, QuietWhenUnchanged
<1> QED BY <1>1, <1>2, <1>3, <1>4, Zenon DEF Next

(* When there is something to unstake, it is what the tickets need beyond   *)
(* the reserve and everything that is cooling down.                         *)
LEMMA StakeDeltaBelowZero ==
  ASSUME TypeOK, StakeDelta < 0
  PROVE  StakeDelta = reserveBalance + delayedUnstakeCoolingDown + emergencyCoolingDown
                        - circulatingTicketBalance
BY DEF TypeOK, StakeDelta, MinOf

LEMMA CrankUnstakesLittle ==
  ASSUME TypeInv, NEW a \in Accounts, NEW b \in Accounts, DeactivateStake(a, b)
  PROVE  reserveBalance' + delayedUnstakeCoolingDown' + emergencyCoolingDown'
           < circulatingTicketBalance' + 2 * MinStake
<1>1. PICK n \in Nat :
        /\ Deactivated(a, b, n, FALSE)
        /\ StakeDelta < 0 /\ n + StakeDelta < 2 * MinStake
        /\ delayedUnstakeCoolingDown' = delayedUnstakeCoolingDown + n
        /\ UNCHANGED <<emergencyCoolingDown, moveVars>>
  BY DeactivateStakeEffect, Zenon
<1>2. CountersTyped /\ TypeOK
  BY DEF TypeInv, TypeOK, CountersTyped
<1>3. StakeDelta = reserveBalance + delayedUnstakeCoolingDown + emergencyCoolingDown
                     - circulatingTicketBalance
  BY <1>1, <1>2, StakeDeltaBelowZero
<1>4. /\ reserveBalance' = reserveBalance
      /\ circulatingTicketBalance' = circulatingTicketBalance
      /\ emergencyCoolingDown' = emergencyCoolingDown
      /\ delayedUnstakeCoolingDown' = delayedUnstakeCoolingDown + n
  BY <1>1 DEF Deactivated
<1>5. n + (reserveBalance + delayedUnstakeCoolingDown + emergencyCoolingDown
             - circulatingTicketBalance) < 2 * MinStake
  BY <1>1, <1>3
<1>6. MinStake \in Nat
  BY AmountsAssumption
<1> QED BY <1>2, <1>4, <1>5, <1>6 DEF CountersTyped

(* However the cranks interleave, no crank unstakes twice the minimum stake *)
(* or more above what the tickets need, whatever is already cooling down.   *)
THEOREM NoOverUnstake == Spec => OverUnstakeBounded
<1>1. ASSUME TypeInv, [Next]_vars, delayedUnstakeCoolingDown' > delayedUnstakeCoolingDown
      PROVE  reserveBalance' + delayedUnstakeCoolingDown' + emergencyCoolingDown'
               < circulatingTicketBalance' + 2 * MinStake
  <2>1. delayedUnstakeCoolingDown \in Nat
    BY <1>1 DEF TypeInv, TypeOK
  <2>2. CASE Quiet
    <3>1. delayedUnstakeCoolingDown' \in Nat /\ delayedUnstakeCoolingDown' <= delayedUnstakeCoolingDown
      BY <2>2 DEF Quiet
    <3> QED BY <1>1, <2>1, <3>1
  <2>3. CASE \/ \E a, b \in Accounts, n \in Nat : EmergencyMove(a, b, n)
             \/ \E v \in Validators, a \in Accounts : StakeReserve(v, a)
             \/ \E t \in Tickets : Claim(t)
    <3>1. delayedUnstakeCoolingDown' = delayedUnstakeCoolingDown
      BY <2>3, ZenonT(90) DEF EmergencyMove, StakeReserve, Claim
    <3> QED BY <1>1, <2>1, <3>1
  <2> QED BY <1>1, <2>2, <2>3, CrankUnstakesLittle, WhatIsNotQuiet
<1>2. TypeInv /\ [Next]_vars
        => [delayedUnstakeCoolingDown' > delayedUnstakeCoolingDown =>
              reserveBalance' + delayedUnstakeCoolingDown' + emergencyCoolingDown'
                < circulatingTicketBalance' + 2 * MinStake]_vars
  BY <1>1
<1> QED BY <1>2, TypeInvInvariant, PTL DEF Spec, OverUnstakeBounded

(* Staking n lamports moves them from the stake delta to the total, so the  *)
(* target does not move; the gap to it bounds n.                            *)
LEMMA StakeReserveReachesTarget ==
  ASSUME TypeInv, NEW w \in Validators, NEW a \in Accounts, StakeReserve(w, a),
         NEW v \in Validators, validators'[v].active > validators[v].active
  PROVE  validators'[v].active
           < ValidatorStakeTarget(v, totalActiveBalance + StakeDelta)' + MinStake
<1> DEFINE n      == AmountToStake(w)
           total  == totalActiveBalance + StakeDelta
           target == ValidatorStakeTarget(w, total)
           gap    == MinOf(SatSub(target, validators[w].active), StakeDelta)
<1>1. /\ StakeDelta > 0 /\ StakeDelta \in Int /\ n > 0 /\ n \in Nat /\ n <= StakeDelta
      /\ StakeDelta = reserveBalance + delayedUnstakeCoolingDown - circulatingTicketBalance
  BY StakeDeltaType, AmountToStakeType, AmountToStakeBound
  DEF StakeReserve, StakeReserveRun, TypeInv
<1>2. /\ validators[w] \in ValidatorRecord /\ validators[w].active \in Nat
      /\ \A u \in Validators : validators[u].active \in Nat
  BY DEF TypeInv, TypeOK, ValidatorRecord
<1>3. target \in Nat
  <2>1. total \in Nat
    BY <1>1 DEF TypeInv, TypeOK
  <2> QED BY <2>1, ValidatorStakeTargetType DEF TypeInv
<1>4. n < gap + MinStake /\ validators[w].active < target /\ gap \in Nat
      /\ gap <= target - validators[w].active
  <2>1. n = IF validators[w].active >= target
              \/ (IF StakeDelta - gap < MinStake THEN StakeDelta ELSE gap) < MinStake
            THEN 0 ELSE IF StakeDelta - gap < MinStake THEN StakeDelta ELSE gap
    BY DEF AmountToStake
  <2>2. ~ (validators[w].active >= target)
    BY <1>1, <2>1
  <2>3. validators[w].active < target
    BY <1>2, <1>3, <2>2
  <2>4. gap \in Nat /\ gap <= target - validators[w].active
    <3> HIDE DEF target
    <3> QED BY <1>1, <1>2, <1>3, <2>3 DEF MinOf, SatSub
  <2> HIDE DEF gap, target, n
  <2>5. n = IF StakeDelta - gap < MinStake THEN StakeDelta ELSE gap
    BY <1>1, <2>1
  <2> QED BY <1>1, <2>3, <2>4, <2>5, AmountsAssumption
<1>5. /\ validators' = [validators EXCEPT ![w].active = @ + n, ![w].lastDelta = epoch]
      /\ reserveBalance' = reserveBalance - n
      /\ totalActiveBalance' = totalActiveBalance + n
      /\ UNCHANGED <<coolingVars, totalValidatorScore, circulatingTicketBalance>>
  BY DEF StakeReserve
<1> HIDE DEF n
<1>6. v = w /\ validators'[w].active = validators[w].active + n
      /\ validators'[w].score = validators[w].score
  <2>1. \A u \in Validators \ {w} : validators'[u] = validators[u]
    BY <1>5 DEF TypeInv, TypeOK
  <2>2. v = w
    BY <1>2, <2>1
  <2> QED BY <1>2, <1>5, <2>2 DEF TypeInv, TypeOK, ValidatorRecord
<1>7. totalActiveBalance' + StakeDelta' = total
  <2>1. CountersTyped
    BY DEF TypeInv, TypeOK, CountersTyped
  <2>2. reserveBalance' + delayedUnstakeCoolingDown' - circulatingTicketBalance'
          = StakeDelta - n
    BY <1>1, <1>5, <2>1 DEF CountersTyped
  <2>3. StakeDelta' = StakeDelta - n
    BY <1>1, <2>2 DEF StakeDelta, MinOf
  <2> QED BY <1>1, <1>5, <2>1, <2>3 DEF CountersTyped
<1>8. ValidatorStakeTarget(v, totalActiveBalance + StakeDelta)' = target
  BY <1>5, <1>6, <1>7 DEF ValidatorStakeTarget
<1> HIDE DEF target, total, gap
<1> QED BY <1>1, <1>2, <1>3, <1>4, <1>6, <1>8, AmountsAssumption

(* A validator that StakeReserve has staked to is above its target of that  *)
(* moment, if at all, by less than the minimum stake.                       *)
THEOREM NoOverStake == Spec => OverStakeBounded
<1>1. ASSUME TypeInv, [Next]_vars, NEW v \in Validators,
             validators'[v].active > validators[v].active,
             reserveBalance' < reserveBalance
      PROVE  validators'[v].active
               < ValidatorStakeTarget(v, totalActiveBalance + StakeDelta)' + MinStake
  <2>1. reserveBalance \in Nat /\ validators[v].active \in Nat
    BY <1>1 DEF TypeInv, TypeOK, ValidatorRecord
  <2>2. CASE Quiet
    <3>1. reserveBalance' \in Nat /\ reserveBalance <= reserveBalance'
      BY <2>2 DEF Quiet
    <3> QED BY <1>1, <2>1, <3>1
  <2>3. CASE \E a, b \in Accounts : DeactivateStake(a, b)
    <3>1. reserveBalance' = reserveBalance
      BY <2>3, ZenonT(90) DEF DeactivateStake
    <3> QED BY <1>1, <2>1, <3>1
  <2>4. CASE \E a, b \in Accounts, n \in Nat : EmergencyMove(a, b, n)
    <3>1. reserveBalance' = reserveBalance
      BY <2>4, ZenonT(90) DEF EmergencyMove, Deactivated
    <3> QED BY <1>1, <2>1, <3>1
  <2>5. CASE \E t \in Tickets : Claim(t)
    <3>1. validators' = validators
      BY <2>5, ZenonT(90) DEF Claim
    <3> QED BY <1>1, <2>1, <3>1
  <2>6. CASE \E w \in Validators, a \in Accounts : StakeReserve(w, a)
    BY <1>1, <2>6, StakeReserveReachesTarget
  <2> QED BY <1>1, <2>2, <2>3, <2>4, <2>5, <2>6, WhatIsNotQuiet
<1>2. TypeInv /\ [Next]_vars
        => [\A v \in Validators :
              /\ validators'[v].active > validators[v].active
              /\ reserveBalance' < reserveBalance
              => validators'[v].active
                   < ValidatorStakeTarget(v, totalActiveBalance + StakeDelta)' + MinStake]_vars
  BY <1>1
<1> QED BY <1>2, TypeInvInvariant, PTL DEF Spec, OverStakeBounded

(* Whatever the manager takes from a validator into emergency cooling down, *)
(* it leaves the validator its target, less at most the minimum stake.      *)
THEOREM NoOverMove == Spec => PartialUnstakeBounded
<1>1. ASSUME TypeInv, [Next]_vars, NEW v \in Validators,
             emergencyCoolingDown' > emergencyCoolingDown,
             validators'[v].active < validators[v].active
      PROVE  validators'[v].active + MinStake
               > ValidatorStakeTarget(v, totalActiveBalance + StakeDelta)
  <2>1. emergencyCoolingDown \in Nat /\ validators[v].active \in Nat
    BY <1>1 DEF TypeInv, TypeOK, ValidatorRecord
  <2>2. CASE Quiet
    <3>1. emergencyCoolingDown' \in Nat /\ emergencyCoolingDown' <= emergencyCoolingDown
      BY <2>2 DEF Quiet
    <3> QED BY <1>1, <2>1, <3>1
  <2>3. CASE \/ \E a, b \in Accounts : DeactivateStake(a, b)
             \/ \E w \in Validators, a \in Accounts : StakeReserve(w, a)
             \/ \E t \in Tickets : Claim(t)
    <3>1. emergencyCoolingDown' = emergencyCoolingDown
      BY <2>3, ZenonT(90) DEF DeactivateStake, StakeReserve, Claim
    <3> QED BY <1>1, <2>1, <3>1
  <2>4. ASSUME NEW a \in Accounts, NEW b \in Accounts, NEW n \in Nat, EmergencyMove(a, b, n)
        PROVE  validators'[v].active + MinStake
                 > ValidatorStakeTarget(v, totalActiveBalance + StakeDelta)
    <3>1. validators'[v].active
            = validators[v].active - IF v = native[a].voter THEN n ELSE 0
      BY <2>4, Zenon DEF EmergencyMove
    <3>2. v = native[a].voter
      BY <1>1, <2>1, <3>1
    <3>3. validators[v].active - n + MinStake
            > ValidatorStakeTarget(v, totalActiveBalance + StakeDelta)
      BY <2>4, <3>2, Zenon DEF EmergencyMove
    <3> QED BY <3>1, <3>2, <3>3
  <2> QED BY <1>1, <2>2, <2>3, <2>4, WhatIsNotQuiet
<1>2. TypeInv /\ [Next]_vars
        => [\A v \in Validators :
              /\ emergencyCoolingDown' > emergencyCoolingDown
              /\ validators'[v].active < validators[v].active
              => validators'[v].active + MinStake
                   > ValidatorStakeTarget(v, totalActiveBalance + StakeDelta)]_vars
  BY <1>1
<1> QED BY <1>2, TypeInvInvariant, PTL DEF Spec, PartialUnstakeBounded
-----------------------------------------------------------------------------
(* While the program is paused no call of a user, a crank or the manager    *)
(* touches a record, a counter or a ticket; what goes on is the chain's and *)
(* the setting of the extra runs.                                           *)
THEOREM FrozenUntilResumed == Spec => FrozenWhilePaused
<1>1. ASSUME [Next]_vars, paused, paused'
      PROVE  UNCHANGED <<stakes, validators, totalValidatorScore, balanceVars,
                         availableReserveBalance, ticketVars, lastStakeDeltaEpoch,
                         moveVars>>
  <2>1. ~UserStep
    BY <1>1, ZenonT(90) DEF UserStep, Deposit, DepositStakeAccount, WithdrawStakeAccount,
                            OrderUnstake, Claim
  <2>2. ~CrankStep
    BY <1>1, ZenonT(90)
    DEF CrankStep, StakeReserve, StakeReserveNothing, StakeReserveRun, DeactivateStake,
        UpdateActive, UpdateDeactivated, CreateCanonicalStake, MergeStakes
  <2>3. CASE ManagerStep
    <3>1. \E runs \in ExtraRuns : ConfigValidatorSystem(runs)
      BY <1>1, <2>3, ZenonT(90)
      DEF ManagerStep, AddValidator, RemoveValidator, SetValidatorScore, EmergencyUnstake,
          PartialUnstake
    <3> QED BY <3>1 DEF ConfigValidatorSystem
  <2>4. CASE PauseStep \/ UNCHANGED vars
    BY <2>4 DEF PauseStep, Pause, Resume, vars
  <2>5. CASE ChainStep
    BY <2>5 DEF ChainStep, AdvancePhase, AdvanceEpoch, Reward, Slash, Tip, Donate,
                DeactivateDelinquent
  <2> QED BY <1>1, <2>1, <2>2, <2>3, <2>4, <2>5 DEF Next
<1>2. [Next]_vars
        => [paused /\ paused' =>
              UNCHANGED <<stakes, validators, totalValidatorScore, balanceVars,
                          availableReserveBalance, ticketVars, lastStakeDeltaEpoch,
                          moveVars>>]_vars
  BY <1>1
<1> QED BY <1>2, PTL DEF Spec, FrozenWhilePaused
-----------------------------------------------------------------------------
(* What was put into emergency cooling down in this epoch, and what of the  *)
(* cap that has used.  No stake is deactivated in an epoch to come, so that *)
(* a new epoch starts with nothing put in.                                  *)
MovedNow == [a \in Accounts |->
  IF stakes[a].emergency /\ native[a].deactivation = epoch THEN stakes[a].delegated ELSE 0]
Metered == IF lastStakeMoveEpoch = epoch THEN stakeMoved ELSE 0
DeactivatedInPast == \A a \in Accounts : native[a].deactivation <= epoch
MeteredInv == DeactivatedInPast /\ Total(Accounts, MovedNow) <= Metered

LEMMA MovedNowType ==
  TypeOK => /\ \A a \in Accounts : MovedNow[a] \in Nat
            /\ Metered \in Nat
BY DEF TypeOK, StakeRecord, MovedNow, Metered

LEMMA MovedNowTypeNext ==
  TypeOK' => (/\ \A a \in Accounts : MovedNow[a] \in Nat
              /\ Metered \in Nat)'
BY MovedNowType, PTL

LEMMA MovedNowTotal == TypeOK => Total(Accounts, MovedNow) \in Nat
BY MovedNowType, SetsAssumption, TotalType

LEMMA MovedNowTotalNext == TypeOK' => (Total(Accounts, MovedNow) \in Nat)'
BY MovedNowTotal, PTL

(* No record gets the emergency mark, and no stake a deactivation epoch but *)
(* the present one.                                                         *)
NoneMoved == \A c \in Accounts :
  /\ \/ ~stakes'[c].emergency
     \/ stakes'[c] = stakes[c] /\ native'[c].deactivation = native[c].deactivation
  /\ native'[c].deactivation \in {native[c].deactivation, Never, epoch}

LEMMA MeteredStays ==
  ASSUME TypeOK, TypeOK', MeteredInv, NoneMoved, UNCHANGED <<epoch, moveVars>>
  PROVE  MeteredInv'
<1>1. /\ \A c \in Accounts : MovedNow[c] \in Nat /\ MovedNow'[c] \in Nat
      /\ Metered \in Nat /\ Metered' = Metered
  BY MovedNowType, MovedNowTypeNext DEF Metered
<1>2. \A c \in Accounts : MovedNow'[c] <= MovedNow[c]
  <2> TAKE c \in Accounts
  <2>1. CASE ~stakes'[c].emergency
    <3>1. MovedNow'[c] = 0
      BY <2>1 DEF MovedNow
    <3> QED BY <1>1, <3>1
  <2>2. CASE stakes'[c] = stakes[c] /\ native'[c].deactivation = native[c].deactivation
    <3>1. MovedNow'[c] = MovedNow[c]
      BY <2>2 DEF MovedNow
    <3> QED BY <1>1, <3>1
  <2> QED BY <2>1, <2>2 DEF NoneMoved
<1>3. Total(Accounts, MovedNow') <= Total(Accounts, MovedNow)
  BY <1>1, <1>2, SetsAssumption, TotalMonotone
<1>4. DeactivatedInPast'
  BY DEF MeteredInv, DeactivatedInPast, NoneMoved, TypeOK, Never
<1>5. Total(Accounts, MovedNow) \in Nat /\ Total(Accounts, MovedNow') \in Nat
  BY MovedNowTotal, MovedNowTotalNext
<1>6. Total(Accounts, MovedNow) <= Metered
  BY DEF MeteredInv
<1> QED BY <1>1, <1>3, <1>4, <1>5, <1>6 DEF MeteredInv

LEMMA ListsStayNoneMoved ==
  ASSUME UNCHANGED <<stakes, native>>
  PROVE  NoneMoved
BY DEF NoneMoved

LEMMA UserStepMovesNone ==
  ASSUME TypeInv, UserStep
  PROVE  NoneMoved
<1>1. ASSUME NEW a \in Accounts, NEW v \in Validators, NEW n \in StakeDeposits,
             NEW e \in 0 .. MaxEpoch, DepositStakeAccount(a, v, n, e)
      PROVE  NoneMoved
  BY <1>1 DEF DepositStakeAccount, NewRecord, NoneMoved, TypeInv, TypeOK
<1>2. ASSUME NEW a \in Accounts, NEW n \in Withdrawals, WithdrawStakeAccount(a, n)
      PROVE  NoneMoved
  BY <1>2 DEF WithdrawStakeAccount, NoneMoved, TypeInv, TypeOK, StakeRecord, NativeStake
<1>3. CASE \/ \E n \in Deposits : Deposit(n)
           \/ \E t \in Tickets, n \in Orders : OrderUnstake(t, n)
           \/ \E t \in Tickets : Claim(t)
  BY <1>3, ListsStayNoneMoved DEF Deposit, OrderUnstake, Claim
<1> QED BY <1>1, <1>2, <1>3 DEF UserStep

LEMMA DeactivationMovesNone ==
  ASSUME TypeInv, NEW a \in Accounts, NEW b \in Accounts, NEW n \in Nat,
         Deactivated(a, b, n, FALSE)
  PROVE  NoneMoved
<1>1. stakes[a].status = "Active" /\ ~stakes[a].emergency
  BY DEF Deactivated
<1>2. CASE DeactivateWhole(a, FALSE)
  BY <1>2 DEF DeactivateWhole, NoneMoved, TypeInv, TypeOK, StakeRecord, NativeStake
<1>3. CASE DeactivateSplit(a, b, n, FALSE)
  <2>1. a # b
    BY <1>1, <1>3 DEF DeactivateSplit, Fresh, Listed
  <2> QED BY <1>1, <1>3, <2>1
       DEF DeactivateSplit, NewRecord, NoneMoved, TypeInv, TypeOK, StakeRecord, NativeStake
<1> QED BY <1>2, <1>3 DEF Deactivated

LEMMA CrankStepMovesNone ==
  ASSUME TypeInv, CrankStep
  PROVE  NoneMoved
<1>1. ASSUME NEW v \in Validators, NEW a \in Accounts, StakeReserve(v, a)
      PROVE  NoneMoved
  BY <1>1 DEF StakeReserve, NewRecord, NoneMoved, TypeInv, TypeOK
<1>2. ASSUME NEW v \in Validators, StakeReserveNothing(v)
      PROVE  NoneMoved
  BY <1>2, ListsStayNoneMoved DEF StakeReserveNothing
<1>3. ASSUME NEW a \in Accounts, NEW b \in Accounts, DeactivateStake(a, b)
      PROVE  NoneMoved
  BY <1>3, DeactivateStakeEffect, DeactivationMovesNone
<1>4. ASSUME NEW a \in Accounts, UpdateActive(a)
      PROVE  NoneMoved
  <2>1. ~stakes[a].emergency
    BY <1>4 DEF UpdateActive, TypeInv, StatusAgreesWithNative, RecordAgrees, Listed
  <2> QED BY <1>4, <2>1
       DEF UpdateActive, NoneMoved, TypeInv, TypeOK, StakeRecord, NativeStake
<1>5. ASSUME NEW a \in Accounts, UpdateDeactivated(a)
      PROVE  NoneMoved
  BY <1>5 DEF UpdateDeactivated, NoRecord, NoAccount, NoneMoved, TypeInv, TypeOK
<1>6. ASSUME NEW v \in Validators, NEW s \in Accounts, CreateCanonicalStake(v, s)
      PROVE  NoneMoved
  <2> SUFFICES ASSUME NEW c \in Accounts, c = Canonical[v]
               PROVE  NoneMoved
    BY SetsAssumption
  <2>1. c # s /\ native[s].deactivation = Never
    BY <1>6 DEF CreateCanonicalStake, MovableStake
  <2> QED BY <1>6, <2>1
       DEF CreateCanonicalStake, NewRecord, NoRecord, NoAccount, NoneMoved, TypeInv, TypeOK
<1>7. ASSUME NEW v \in Validators, NEW s \in Accounts, MergeStakes(v, s)
      PROVE  NoneMoved
  <2> SUFFICES ASSUME NEW c \in Accounts, c = Canonical[v]
               PROVE  NoneMoved
    BY SetsAssumption
  <2>1. c # s /\ ~stakes[c].emergency
    BY <1>7 DEF MergeStakes, TypeInv, StatusAgreesWithNative, RecordAgrees, Listed
  <2>2. /\ ~stakes'[c].emergency /\ native'[c].deactivation = native[c].deactivation
        /\ stakes'[s] = NoRecord /\ native'[s] = NoAccount
        /\ \A d \in Accounts \ {c, s} : stakes'[d] = stakes[d] /\ native'[d] = native[d]
    BY <1>7, <2>1 DEF MergeStakes, TypeInv, TypeOK, StakeRecord, NativeStake
  <2> QED BY <2>2 DEF NoRecord, NoAccount, NoneMoved
<1> QED BY <1>1, <1>2, <1>3, <1>4, <1>5, <1>6, <1>7 DEF CrankStep

(* What the chain does to the stake accounts within an epoch. *)
LEMMA ChainStepMovesNone ==
  ASSUME TypeInv, ChainStep
  PROVE  NoneMoved
<1>1. ASSUME NEW a \in Accounts, DeactivateDelinquent(a)
      PROVE  NoneMoved
  <2>1. ~stakes[a].emergency
    BY <1>1 DEF DeactivateDelinquent, TypeInv, StatusAgreesWithNative, RecordAgrees
  <2> QED BY <1>1, <2>1 DEF DeactivateDelinquent, NoneMoved, TypeInv, TypeOK, NativeStake
<1>2. ASSUME NEW a \in Accounts,
             \/ \E n \in Rewards : Reward(a, n)
             \/ \E n \in Slashes : Slash(a, n)
             \/ \E n \in Tips : Tip(a, n)
      PROVE  NoneMoved
  BY <1>2 DEF Reward, Slash, Tip, NoneMoved, TypeInv, TypeOK, NativeStake
<1>3. CASE AdvancePhase \/ AdvanceEpoch \/ \E n \in Donations : Donate(n)
  BY <1>3, ListsStayNoneMoved DEF AdvancePhase, AdvanceEpoch, Donate
<1> QED BY <1>1, <1>2, <1>3 DEF ChainStep

(* The manager's moves are added to the meter as they are made. *)
LEMMA EmergencyMoveMetered ==
  ASSUME TypeInv, TypeInv', MeteredInv, NEW a \in Accounts, NEW b \in Accounts,
         NEW n \in Nat, EmergencyMove(a, b, n)
  PROVE  MeteredInv'
<1>1. /\ \A c \in Accounts : MovedNow[c] \in Nat /\ MovedNow'[c] \in Nat
      /\ Metered \in Nat
      /\ Total(Accounts, MovedNow) \in Nat /\ Total(Accounts, MovedNow') \in Nat
  BY MovedNowType, MovedNowTypeNext, MovedNowTotal, MovedNowTotalNext DEF TypeInv
<1>2. epoch' = epoch /\ Metered' = Metered + n
  <2>1. epoch' = epoch
    BY Zenon DEF EmergencyMove, Deactivated
  <2>2. /\ lastStakeMoveEpoch' = epoch
        /\ stakeMoved' = (IF epoch = lastStakeMoveEpoch THEN stakeMoved ELSE 0) + n
    BY Zenon DEF EmergencyMove, OnStakeMoved
  <2> QED BY <2>1, <2>2 DEF Metered, TypeInv, TypeOK
<1>3. /\ stakes[a].status = "Active" /\ ~stakes[a].emergency
      /\ \/ n = stakes[a].delegated /\ DeactivateWhole(a, TRUE)
         \/ DeactivateSplit(a, b, n, TRUE)
  BY Zenon DEF EmergencyMove, Deactivated
<1>4. PICK d \in Accounts :
        /\ MovedNow[d] = 0 /\ MovedNow'[d] = n
        /\ \A c \in Accounts \ {d} : MovedNow'[c] = MovedNow[c]
        /\ \A c \in Accounts : native'[c].deactivation \in {native[c].deactivation, epoch}
  <2>1. CASE n = stakes[a].delegated /\ DeactivateWhole(a, TRUE)
    <3>1. /\ stakes'[a].emergency /\ stakes'[a].delegated = n
          /\ native'[a].deactivation = epoch
          /\ \A c \in Accounts \ {a} : stakes'[c] = stakes[c] /\ native'[c] = native[c]
      BY <2>1 DEF DeactivateWhole, TypeInv, TypeOK, StakeRecord, NativeStake
    <3>2. MovedNow[a] = 0 /\ MovedNow'[a] = n
      BY <1>2, <1>3, <3>1 DEF MovedNow
    <3>3. \A c \in Accounts \ {a} : MovedNow'[c] = MovedNow[c]
      BY <1>2, <3>1 DEF MovedNow
    <3> QED BY <3>1, <3>2, <3>3
  <2>2. CASE DeactivateSplit(a, b, n, TRUE)
    <3>1. a # b /\ stakes[b] = NoRecord
      BY <1>3, <2>2 DEF DeactivateSplit, Fresh, Listed, TypeInv, StatusAgreesWithNative,
                        RecordAgrees
    <3>2. /\ stakes'[b] = NewRecord(n, TRUE, "Deactivating")
          /\ native'[b].deactivation = epoch
          /\ ~stakes'[a].emergency /\ native'[a].deactivation = native[a].deactivation
          /\ \A c \in Accounts \ {a, b} : stakes'[c] = stakes[c] /\ native'[c] = native[c]
      <4>1. /\ stakes[a] \in StakeRecord /\ native[a] \in NativeStake
            /\ stakes \in [Accounts -> StakeRecord] /\ native \in [Accounts -> NativeStake]
        BY DEF TypeInv, TypeOK
      <4>2. /\ stakes' = [stakes EXCEPT ![a].delegated = @ - n,
                                        ![b] = NewRecord(n, TRUE, "Deactivating")]
            /\ native' = [native EXCEPT ![a].stake = @ - n,
                                        ![b] = [native[a] EXCEPT !.stake = n, !.extra = 0,
                                                                 !.deactivation = epoch]]
        BY <2>2 DEF DeactivateSplit
      <4>3. /\ stakes'[b] = NewRecord(n, TRUE, "Deactivating")
            /\ stakes'[a].emergency = stakes[a].emergency
            /\ \A c \in Accounts \ {a, b} : stakes'[c] = stakes[c]
        BY <3>1, <4>1, <4>2 DEF StakeRecord
      <4>4. /\ native'[b].deactivation = epoch
            /\ native'[a].deactivation = native[a].deactivation
            /\ \A c \in Accounts \ {a, b} : native'[c] = native[c]
        BY <3>1, <4>1, <4>2 DEF NativeStake
      <4> QED BY <1>3, <4>3, <4>4
    <3>3. MovedNow[b] = 0 /\ MovedNow'[b] = n
      BY <1>2, <3>1, <3>2 DEF MovedNow, NoRecord, NewRecord
    <3>4. MovedNow'[a] = MovedNow[a]
      BY <1>3, <3>2 DEF MovedNow
    <3>5. \A c \in Accounts \ {a, b} : MovedNow'[c] = MovedNow[c]
      BY <1>2, <3>2 DEF MovedNow
    <3> QED BY <3>2, <3>3, <3>4, <3>5
  <2> QED BY <1>3, <2>1, <2>2
<1>5. Total(Accounts, MovedNow') = Total(Accounts, MovedNow) + MovedNow'[d] - MovedNow[d]
  BY <1>1, <1>4, SetsAssumption, TotalChange
<1>6. DeactivatedInPast'
  BY <1>2, <1>4 DEF MeteredInv, DeactivatedInPast, TypeInv, TypeOK
<1>7. Total(Accounts, MovedNow) <= Metered
  BY DEF MeteredInv
<1> QED BY <1>1, <1>2, <1>4, <1>5, <1>6, <1>7 DEF MeteredInv

LEMMA AdvanceEpochMetered ==
  ASSUME TypeOK, TypeOK', MeteredInv, AdvanceEpoch
  PROVE  MeteredInv'
<1>1. /\ epoch \in Nat /\ epoch' = epoch + 1
      /\ \A a \in Accounts : native'[a].deactivation = native[a].deactivation
      /\ \A a \in Accounts : native[a].deactivation \in Epochs
  BY DEF AdvanceEpoch, TypeOK, NativeStake
<1>2. \A a \in Accounts : native[a].deactivation <= epoch
  BY DEF MeteredInv, DeactivatedInPast
<1>3. \A a \in Accounts : native'[a].deactivation <= epoch' /\ native'[a].deactivation # epoch'
  BY <1>1, <1>2 DEF Epochs, Never
<1>4. \A a \in Accounts : MovedNow'[a] = 0
  BY <1>3 DEF MovedNow
<1>5. Total(Accounts, MovedNow') = 0
  BY <1>4, TotalZero
<1> QED BY <1>3, <1>5, MovedNowTypeNext DEF MeteredInv, DeactivatedInPast

LEMMA NextMetered ==
  ASSUME TypeInv, TypeInv', MeteredInv, [Next]_vars
  PROVE  MeteredInv'
<1>0. TypeOK /\ TypeOK'
  BY DEF TypeInv
<1>1. CASE ManagerStep
  <2>1. CASE \E a \in Accounts : EmergencyUnstake(a)
    BY <2>1, EmergencyUnstakeEffect, EmergencyMoveMetered
  <2>2. CASE \E a, b \in Accounts, n \in Unstakes : PartialUnstake(a, b, n)
    BY <2>2, PartialUnstakeEffect, EmergencyMoveMetered
  <2>3. CASE \/ \E v \in Validators, score \in Scores : AddValidator(v, score)
             \/ \E v \in Validators : RemoveValidator(v)
             \/ \E v \in Validators, score \in Scores : SetValidatorScore(v, score)
             \/ \E runs \in ExtraRuns : ConfigValidatorSystem(runs)
    <3>1. UNCHANGED <<stakes, native, epoch, moveVars>>
      BY <2>3, ZenonT(90)
      DEF AddValidator, RemoveValidator, SetValidatorScore, ConfigValidatorSystem
    <3> QED BY <1>0, <3>1, ListsStayNoneMoved, MeteredStays
  <2> QED BY <1>1, <2>1, <2>2, <2>3, Zenon DEF ManagerStep
<1>2. CASE UserStep \/ CrankStep
  <2>1. UNCHANGED <<epoch, moveVars>>
    BY <1>2, ZenonT(90)
    DEF UserStep, Deposit, DepositStakeAccount, WithdrawStakeAccount, OrderUnstake, Claim,
        CrankStep, StakeReserve, StakeReserveNothing, DeactivateStake, UpdateActive,
        UpdateDeactivated, CreateCanonicalStake, MergeStakes
  <2> QED BY <1>0, <1>2, <2>1, UserStepMovesNone, CrankStepMovesNone, MeteredStays
<1>3. CASE AdvanceEpoch
  BY <1>0, <1>3, AdvanceEpochMetered
<1>4. ASSUME ChainStep, ~AdvanceEpoch
      PROVE  MeteredInv'
  <2>1. UNCHANGED <<epoch, moveVars>>
    BY <1>4 DEF ChainStep, AdvancePhase, Reward, Slash, Tip, Donate, DeactivateDelinquent
  <2> QED BY <1>0, <1>4, <2>1, ChainStepMovesNone, MeteredStays
<1>5. CASE PauseStep \/ UNCHANGED vars
  <2>1. UNCHANGED <<stakes, native, epoch, moveVars>>
    BY <1>5 DEF PauseStep, Pause, Resume, vars
  <2> QED BY <1>0, <2>1, ListsStayNoneMoved, MeteredStays
<1> QED BY <1>1, <1>2, <1>3, <1>4, <1>5 DEF Next

LEMMA InitMetered == Init => MeteredInv
<1> SUFFICES ASSUME Init PROVE MeteredInv
  OBVIOUS
<1>1. DeactivatedInPast
  BY DEF Init, DeactivatedInPast, NoAccount, Never
<1>2. \A a \in Accounts : MovedNow[a] = 0
  BY DEF Init, MovedNow, NoRecord
<1>3. Total(Accounts, MovedNow) = 0 /\ Metered = 0
  BY <1>2, TotalZero DEF Init, Metered
<1> QED BY <1>1, <1>3 DEF MeteredInv

(* What the manager's two instructions put into emergency cooling down in   *)
(* an epoch, by the stake accounts of that epoch, was all counted against   *)
(* the cap of moved stake, whatever else moved meanwhile.                   *)
THEOREM EveryMoveMetered == Spec => []MovesAreMetered
<1>1. Init => TypeInv /\ MeteredInv
  BY InitTypeInv, InitMetered
<1>2. TypeInv /\ MeteredInv /\ [Next]_vars => (TypeInv /\ MeteredInv)'
  BY NextTypeInv, NextMetered
<1>3. MeteredInv => MovesAreMetered
  BY DEF MeteredInv, MovedNow, Metered, MovesAreMetered
<1> QED BY <1>1, <1>2, <1>3, PTL DEF Spec
=============================================================================
