------------------------- MODULE StakeSystemProofs -------------------------
(* Type correctness of the staking core, the agreement of the lists with    *)
(* the chain's accounts it depends on, and that the counters are the sums   *)
(* they mirror, in every reachable state and for every instance.            *)
(*                                                                          *)
(* First the types: the voter of a recorded stake is a validator, so what   *)
(* an instruction subtracts from that validator's record is well defined.   *)
(* One lemma for each action; its first steps type the lists, a step names  *)
(* the other changes, and the rest follows.                                 *)
(*                                                                          *)
(* Then the sums.  An instruction touches one or two stake accounts, all of *)
(* one validator: OneRecord and TwoRecords say what the counters must do    *)
(* then, and one lemma for each instruction that changes a record shows     *)
(* that it does that.                                                       *)
EXTENDS StakeSystem, AmountsTheorems, TLAPS

(* The variable groups only abbreviate tuples. *)
USE DEF clockVars, listVars, coolingVars, balanceVars, reserveVars, ticketVars,
        deltaVars, moveVars, programVars

TypeInv == TypeOK /\ StatusAgreesWithNative
-----------------------------------------------------------------------------
LEMMA NaturalArithmetic ==
  ASSUME NEW x \in Nat, NEW y \in Nat
  PROVE  /\ SatSub(x, y) \in Nat
         /\ x * y \in Nat
         /\ y # 0 => x \div y \in Nat
BY DEF SatSub

(* The updates of more than one field of a record keep its type. *)
LEMMA RecordUpdates ==
  ASSUME NEW x \in Nat, NEW e \in Epochs
  PROVE  /\ \A r \in ValidatorRecord :
              [r EXCEPT !.active = x, !.lastDelta = e] \in ValidatorRecord
         /\ \A s \in NativeStake :
              [s EXCEPT !.stake = x, !.extra = 0, !.deactivation = e] \in NativeStake
<1>1. 0 \in Nat
  OBVIOUS
<1> QED BY <1>1, Zenon DEF ValidatorRecord, NativeStake

LEMMA StakeDeltaType == TypeOK => StakeDelta \in Int
BY DEF TypeOK, StakeDelta, MinOf

(* A validator's target is a natural number: the division by the total score *)
(* is made only where it is not zero.                                       *)
LEMMA ValidatorStakeTargetType ==
  ASSUME TypeOK, NEW v \in Validators, NEW total \in Nat
  PROVE  ValidatorStakeTarget(v, total) \in Nat
<1>1. validators[v].score \in Nat /\ totalValidatorScore \in Nat
  BY DEF TypeOK, ValidatorRecord
<1>2. total * validators[v].score \in Nat
  BY <1>1, NaturalArithmetic
<1> QED BY <1>1, <1>2, NaturalArithmetic DEF ValidatorStakeTarget

LEMMA AmountToStakeType ==
  ASSUME TypeOK, StakeDelta > 0, NEW v \in Validators
  PROVE  AmountToStake(v) \in Nat
<1> DEFINE target == ValidatorStakeTarget(v, totalActiveBalance + StakeDelta)
<1>1. StakeDelta \in Nat /\ totalActiveBalance + StakeDelta \in Nat
  BY StakeDeltaType DEF TypeOK
<1>2. target \in Nat /\ validators[v].active \in Nat
  BY <1>1, ValidatorStakeTargetType DEF TypeOK, ValidatorRecord
<1> HIDE DEF target
<1>3. SatSub(target, validators[v].active) \in Nat
  BY <1>2, NaturalArithmetic
<1>4. MinOf(SatSub(target, validators[v].active), StakeDelta) \in Nat
  BY <1>1, <1>3 DEF MinOf
<1> QED BY <1>1, <1>4 DEF AmountToStake, target

LEMMA UnstakeTargetType ==
  ASSUME TypeOK, StakeDelta < 0, NEW v \in Validators
  PROVE  UnstakeTarget(v) \in Nat
<1>1. SatSub(totalActiveBalance, -StakeDelta) \in Nat
  BY StakeDeltaType DEF TypeOK, SatSub
<1> QED BY <1>1, ValidatorStakeTargetType DEF UnstakeTarget
-----------------------------------------------------------------------------
(* An account that is not touched, and one that only its chain side is.     *)
LEMMA StatusUntouched ==
  ASSUME StatusAgreesWithNative, UNCHANGED listVars
  PROVE  StatusAgreesWithNative'
BY DEF StatusAgreesWithNative, RecordAgrees, Listed

LEMMA StatusNative ==
  ASSUME StatusAgreesWithNative, UNCHANGED <<stakes, validators>>,
         NEW a \in Accounts, Listed(a),
         \A b \in Accounts \ {a} : native'[b] = native[b],
         native'[a].voter = native[a].voter,
         native'[a].deactivation = Never => native[a].deactivation = Never
  PROVE  StatusAgreesWithNative'
BY DEF StatusAgreesWithNative, RecordAgrees, Listed

(* One or two records change, and the validator list keeps its members.     *)
LEMMA StatusRecords ==
  ASSUME StatusAgreesWithNative, NEW a \in Accounts, NEW b \in Accounts,
         \A c \in Accounts \ {a, b} : stakes'[c] = stakes[c] /\ native'[c] = native[c],
         RecordAgrees(a)', RecordAgrees(b)',
         \A w \in Validators : ~validators'[w].listed => validators'[w] = validators[w]
  PROVE  StatusAgreesWithNative'
BY DEF StatusAgreesWithNative, RecordAgrees, Listed

LEMMA ListedVoter ==
  ASSUME TypeInv, NEW a \in Accounts, Listed(a)
  PROVE  native[a].voter \in Validators
BY DEF TypeInv, StatusAgreesWithNative, RecordAgrees

(* What the crank leaves in an account, when its validator has more than is *)
(* to be left with it: all but the validator's excess, or but what is needed. *)
LEMMA AmountToKeepType ==
  ASSUME TypeInv, NEW a \in Accounts, native[a].voter \in Validators, StakeDelta < 0,
         validators[native[a].voter].active > UnstakeTarget(native[a].voter)
  PROVE  /\ AmountToKeep(a) \in 0 .. stakes[a].delegated
         /\ AmountToKeep(a) >= stakes[a].delegated + StakeDelta
         /\ \/ AmountToKeep(a) = 0
            \/ AmountToKeep(a) = stakes[a].delegated + StakeDelta
            \/ stakes[a].delegated - AmountToKeep(a)
                 = validators[native[a].voter].active - UnstakeTarget(native[a].voter)
<1> DEFINE v    == native[a].voter
           over == MinOf(validators[v].active - UnstakeTarget(v), -StakeDelta)
<1>1. UnstakeTarget(v) \in Nat /\ StakeDelta \in Int
  BY UnstakeTargetType, StakeDeltaType DEF TypeInv
<1>2. validators[v].active \in Nat /\ stakes[a].delegated \in Nat
  BY DEF TypeInv, TypeOK, ValidatorRecord, StakeRecord
<1>3. /\ over \in Nat /\ over <= -StakeDelta
      /\ over = -StakeDelta \/ over = validators[v].active - UnstakeTarget(v)
  BY <1>1, <1>2 DEF MinOf
<1>4. AmountToKeep(a) = SatSub(stakes[a].delegated, over)
  BY DEF AmountToKeep
<1> HIDE DEF over
<1> QED BY <1>1, <1>2, <1>3, <1>4 DEF SatSub

LEMMA InitTypeInv == Init => TypeInv
<1> SUFFICES ASSUME Init PROVE TypeInv
  OBVIOUS
<1>1. stakes \in [Accounts -> StakeRecord] /\ native \in [Accounts -> NativeStake]
  BY DEF Init, StakeRecord, NoRecord, NativeStake, NoAccount, Epochs, Never
<1>2. validators \in [Validators -> ValidatorRecord] /\ tickets \in [Tickets -> Ticket]
  BY DEF Init, ValidatorRecord, NoValidator, Ticket, NoTicket, Epochs, Never
<1>3. TypeOK
  BY <1>1, <1>2 DEF Init, TypeOK, Phases, Epochs, Never
<1>4. StatusAgreesWithNative
  BY DEF Init, StatusAgreesWithNative, RecordAgrees, Listed, NoRecord
<1> QED BY <1>3, <1>4 DEF TypeInv
-----------------------------------------------------------------------------
(* Users. *)

LEMMA DepositType ==
  ASSUME TypeInv, NEW n \in Deposits, Deposit(n)
  PROVE  TypeInv'
<1>1. n \in Nat
  BY AmountsAssumption
<1>2. TypeOK'
  BY <1>1 DEF Deposit, TypeInv, TypeOK
<1>3. StatusAgreesWithNative'
  BY StatusUntouched DEF Deposit, TypeInv
<1> QED BY <1>2, <1>3 DEF TypeInv

LEMMA DepositStakeAccountType ==
  ASSUME TypeInv, NEW a \in Accounts, NEW v \in Validators, NEW n \in StakeDeposits,
         NEW e \in 0 .. MaxEpoch, DepositStakeAccount(a, v, n, e)
  PROVE  TypeInv'
<1>1. n \in Nat /\ e \in Nat
  BY AmountsAssumption
<1>2. stakes' \in [Accounts -> StakeRecord]
  BY <1>1 DEF DepositStakeAccount, TypeInv, TypeOK, NewRecord, StakeRecord
<1>3. native' \in [Accounts -> NativeStake]
  BY <1>1 DEF DepositStakeAccount, TypeInv, TypeOK, NativeStake, Epochs, Never
<1>4. validators' \in [Validators -> ValidatorRecord]
  BY <1>1 DEF DepositStakeAccount, TypeInv, TypeOK, ValidatorRecord
<1>5. /\ UNCHANGED <<clockVars, paused, totalValidatorScore, coolingVars, reserveVars,
                     ticketVars, deltaVars, moveVars>>
      /\ totalActiveBalance' = totalActiveBalance + n
  BY DEF DepositStakeAccount
<1>6. TypeOK'
  BY <1>1, <1>2, <1>3, <1>4, <1>5 DEF TypeInv, TypeOK
<1>7. StatusAgreesWithNative'
  <2>1. \A b \in Accounts \ {a} : stakes'[b] = stakes[b] /\ native'[b] = native[b]
    BY DEF DepositStakeAccount, TypeInv, TypeOK
  <2>2. stakes'[a] = NewRecord(n, FALSE, "Active") /\ native'[a].voter = v
    BY DEF DepositStakeAccount, TypeInv, TypeOK
  <2>3. \A w \in Validators : ~validators'[w].listed => validators'[w] = validators[w]
    BY DEF DepositStakeAccount, TypeInv, TypeOK, ValidatorRecord
  <2>4. RecordAgrees(a)'
    BY <2>2 DEF RecordAgrees, Listed, NewRecord
  <2> QED BY <2>1, <2>3, <2>4, StatusRecords DEF TypeInv
<1> QED BY <1>6, <1>7 DEF TypeInv

LEMMA WithdrawStakeAccountType ==
  ASSUME TypeInv, NEW a \in Accounts, NEW n \in Withdrawals, WithdrawStakeAccount(a, n)
  PROVE  TypeInv'
<1>1. n \in Nat /\ native[a].voter \in Validators
  BY ListedVoter, AmountsAssumption DEF WithdrawStakeAccount, Listed
<1>2. stakes' \in [Accounts -> StakeRecord]
  BY <1>1, AmountsAssumption DEF WithdrawStakeAccount, TypeInv, TypeOK, StakeRecord
<1>3. native' \in [Accounts -> NativeStake]
  BY <1>1, AmountsAssumption
  DEF WithdrawStakeAccount, CheckStakeAmountAndValidator, TypeInv, TypeOK,
      NativeStake, StakeRecord
<1>4. validators' \in [Validators -> ValidatorRecord]
  BY <1>1 DEF WithdrawStakeAccount, TypeInv, TypeOK, ValidatorRecord
<1>5. /\ UNCHANGED <<clockVars, paused, totalValidatorScore, coolingVars, reserveVars,
                     ticketVars, deltaVars, moveVars>>
      /\ totalActiveBalance >= n /\ totalActiveBalance' = totalActiveBalance - n
  BY DEF WithdrawStakeAccount
<1>6. TypeOK'
  BY <1>1, <1>2, <1>3, <1>4, <1>5 DEF TypeInv, TypeOK
<1>7. StatusAgreesWithNative'
  <2>1. \A b \in Accounts \ {a} : stakes'[b] = stakes[b] /\ native'[b] = native[b]
    BY DEF WithdrawStakeAccount, TypeInv, TypeOK
  <2>2. /\ stakes'[a].status = "Active" /\ ~stakes'[a].emergency
        /\ native'[a].voter = native[a].voter
    BY DEF WithdrawStakeAccount, TypeInv, TypeOK, StakeRecord, NativeStake
  <2>3. \A w \in Validators : ~validators'[w].listed => validators'[w] = validators[w]
    BY DEF WithdrawStakeAccount, CheckStakeAmountAndValidator, TypeInv, TypeOK, ValidatorRecord
  <2>4. RecordAgrees(a)'
    BY <1>1, <2>2 DEF RecordAgrees, Listed
  <2> QED BY <2>1, <2>3, <2>4, StatusRecords DEF TypeInv
<1> QED BY <1>6, <1>7 DEF TypeInv

LEMMA OrderUnstakeType ==
  ASSUME TypeInv, NEW t \in Tickets, NEW n \in Orders, OrderUnstake(t, n)
  PROVE  TypeInv'
<1>1. n \in Nat
  BY AmountsAssumption
<1>2. tickets' \in [Tickets -> Ticket]
  BY <1>1 DEF OrderUnstake, TicketEpoch, TypeInv, TypeOK, Ticket
<1>3. TypeOK'
  BY <1>1, <1>2 DEF OrderUnstake, TypeInv, TypeOK
<1>4. StatusAgreesWithNative'
  BY StatusUntouched DEF OrderUnstake, TypeInv
<1> QED BY <1>3, <1>4 DEF TypeInv

LEMMA ClaimType ==
  ASSUME TypeInv, NEW t \in Tickets, Claim(t)
  PROVE  TypeInv'
<1>1. tickets[t].lamports \in Nat
  BY DEF TypeInv, TypeOK, Ticket
<1>2. tickets' \in [Tickets -> Ticket]
  BY DEF Claim, TypeInv, TypeOK, Ticket, NoTicket
<1>3. TypeOK'
  BY <1>1, <1>2 DEF Claim, Payable, TypeInv, TypeOK
<1>4. StatusAgreesWithNative'
  BY StatusUntouched DEF Claim, TypeInv
<1> QED BY <1>3, <1>4 DEF TypeInv
-----------------------------------------------------------------------------
(* The stake-delta crank. *)

LEMMA StakeReserveType ==
  ASSUME TypeInv, NEW v \in Validators, NEW a \in Accounts, StakeReserve(v, a)
  PROVE  TypeInv'
<1> DEFINE n == AmountToStake(v)
<1>1. n \in Nat
  BY AmountToStakeType DEF StakeReserve, StakeReserveRun, TypeInv
<1> HIDE DEF n
<1>2. stakes' \in [Accounts -> StakeRecord]
  BY <1>1 DEF StakeReserve, TypeInv, TypeOK, NewRecord, StakeRecord, n
<1>3. native' \in [Accounts -> NativeStake]
  BY <1>1 DEF StakeReserve, TypeInv, TypeOK, NativeStake, Epochs, Never, n
<1>4. validators' \in [Validators -> ValidatorRecord]
  <2>1. validators \in [Validators -> ValidatorRecord] /\ epoch \in Epochs
    BY DEF TypeInv, TypeOK, Epochs
  <2>2. validators' = [validators EXCEPT ![v] =
                         [validators[v] EXCEPT !.active = @ + n, !.lastDelta = epoch]]
    BY <2>1, Zenon DEF StakeReserve, n
  <2>3. [validators[v] EXCEPT !.active = @ + n, !.lastDelta = epoch] \in ValidatorRecord
    <3>1. validators[v].active + n \in Nat
      BY <1>1, <2>1 DEF ValidatorRecord
    <3> QED BY <2>1, <3>1, RecordUpdates, Zenon
  <2> QED BY <2>1, <2>2, <2>3
<1>5. extraStakeDeltaRuns' \in Nat
  BY DEF StakeReserve, StakeReserveRun, TypeInv, TypeOK
<1>6. /\ UNCHANGED <<clockVars, paused, totalValidatorScore, coolingVars, ticketVars, moveVars>>
      /\ n <= reserveBalance /\ reserveBalance' = reserveBalance - n
      /\ n <= availableReserveBalance
      /\ availableReserveBalance' = availableReserveBalance - n
      /\ totalActiveBalance' = totalActiveBalance + n
      /\ lastStakeDeltaEpoch' = epoch
  BY DEF StakeReserve, n
<1>7. TypeOK'
  BY <1>1, <1>2, <1>3, <1>4, <1>5, <1>6 DEF TypeInv, TypeOK, Epochs
<1>8. StatusAgreesWithNative'
  <2>1. \A b \in Accounts \ {a} : stakes'[b] = stakes[b] /\ native'[b] = native[b]
    BY DEF StakeReserve, TypeInv, TypeOK
  <2>2. stakes'[a] = NewRecord(n, FALSE, "Active") /\ native'[a].voter = v
    BY DEF StakeReserve, TypeInv, TypeOK, n
  <2>3. \A w \in Validators : ~validators'[w].listed => validators'[w] = validators[w]
    BY DEF StakeReserve, StakeReserveRun, TypeInv, TypeOK, ValidatorRecord
  <2>4. RecordAgrees(a)'
    BY <2>2 DEF RecordAgrees, Listed, NewRecord
  <2> QED BY <2>1, <2>3, <2>4, StatusRecords DEF TypeInv
<1> QED BY <1>7, <1>8 DEF TypeInv

LEMMA StakeReserveNothingType ==
  ASSUME TypeInv, NEW v \in Validators, StakeReserveNothing(v)
  PROVE  TypeInv'
<1>1. TypeOK'
  BY DEF StakeReserveNothing, StakeReserveRun, TypeInv, TypeOK
<1>2. StatusAgreesWithNative'
  BY StatusUntouched DEF StakeReserveNothing, TypeInv
<1> QED BY <1>1, <1>2 DEF TypeInv

(* What the two ways of deactivating a stake do to the lists. *)
LEMMA DeactivateWholeType ==
  ASSUME TypeInv, NEW a \in Accounts, NEW emergency \in BOOLEAN,
         Listed(a), DeactivateWhole(a, emergency)
  PROVE  /\ stakes' \in [Accounts -> StakeRecord]
         /\ native' \in [Accounts -> NativeStake]
         /\ RecordAgrees(a)'
         /\ \A b \in Accounts \ {a} : stakes'[b] = stakes[b] /\ native'[b] = native[b]
<1>1. stakes' \in [Accounts -> StakeRecord]
  BY DEF DeactivateWhole, TypeInv, TypeOK, StakeRecord
<1>2. native' \in [Accounts -> NativeStake]
  BY DEF DeactivateWhole, TypeInv, TypeOK, NativeStake, Epochs
<1>3. \A b \in Accounts \ {a} : stakes'[b] = stakes[b] /\ native'[b] = native[b]
  BY DEF DeactivateWhole, TypeInv, TypeOK
<1>4. /\ stakes'[a].status = "Deactivating"
      /\ native'[a].voter = native[a].voter /\ native'[a].deactivation = epoch
  <2>1. stakes[a] \in StakeRecord /\ native[a] \in NativeStake
    BY DEF TypeInv, TypeOK
  <2>2. /\ stakes'[a] = [stakes[a] EXCEPT !.status = "Deactivating", !.emergency = emergency]
        /\ native'[a] = [native[a] EXCEPT !.deactivation = epoch]
    BY DEF DeactivateWhole, TypeInv, TypeOK
  <2> QED BY <2>1, <2>2 DEF StakeRecord, NativeStake
<1>5. RecordAgrees(a)'
  BY <1>4, ListedVoter DEF RecordAgrees, Listed, TypeInv, TypeOK, Never
<1> QED BY <1>1, <1>2, <1>3, <1>5

LEMMA DeactivateSplitType ==
  ASSUME TypeInv, NEW a \in Accounts, NEW b \in Accounts, NEW emergency \in BOOLEAN,
         NEW n \in Nat, n <= stakes[a].delegated, n <= native[a].stake,
         stakes[a].status = "Active", DeactivateSplit(a, b, n, emergency)
  PROVE  /\ stakes' \in [Accounts -> StakeRecord]
         /\ native' \in [Accounts -> NativeStake]
         /\ RecordAgrees(a)' /\ RecordAgrees(b)'
         /\ \A c \in Accounts \ {a, b} : stakes'[c] = stakes[c] /\ native'[c] = native[c]
<1>1. a # b
  BY DEF DeactivateSplit, Fresh, Listed
<1>2. stakes' \in [Accounts -> StakeRecord]
  BY <1>1 DEF DeactivateSplit, TypeInv, TypeOK, StakeRecord, NewRecord
<1>3. native' \in [Accounts -> NativeStake]
  <2>1. native \in [Accounts -> NativeStake] /\ epoch \in Epochs
    BY DEF TypeInv, TypeOK, Epochs
  <2> DEFINE rest == [native[a] EXCEPT !.stake = @ - n]
             part == [native[a] EXCEPT !.stake = n, !.extra = 0, !.deactivation = epoch]
  <2>2. native' = [native EXCEPT ![a] = rest, ![b] = part]
    BY <2>1, Zenon DEF DeactivateSplit
  <2>3. rest \in NativeStake
    BY <2>1 DEF NativeStake
  <2>4. part \in NativeStake
    BY <2>1, RecordUpdates, Zenon
  <2> HIDE DEF rest, part
  <2> QED BY <2>1, <2>2, <2>3, <2>4
<1>4. \A c \in Accounts \ {a, b} : stakes'[c] = stakes[c] /\ native'[c] = native[c]
  BY DEF DeactivateSplit, TypeInv, TypeOK
<1>5. /\ stakes'[a].status = "Active" /\ stakes'[a].emergency = stakes[a].emergency
      /\ stakes'[b] = NewRecord(n, emergency, "Deactivating")
  BY <1>1 DEF DeactivateSplit, TypeInv, TypeOK, StakeRecord
<1>6. /\ native'[a].voter = native[a].voter
      /\ native'[b].voter = native[a].voter /\ native'[b].deactivation = epoch
  BY <1>1 DEF DeactivateSplit, TypeInv, TypeOK, NativeStake
<1>7. RecordAgrees(a)' /\ RecordAgrees(b)'
  <2>1. native[a].voter \in Validators /\ ~stakes[a].emergency
    BY DEF TypeInv, StatusAgreesWithNative, RecordAgrees, Listed
  <2> QED BY <1>5, <1>6, <2>1 DEF RecordAgrees, Listed, NewRecord, TypeInv, TypeOK, Never
<1> QED BY <1>2, <1>3, <1>4, <1>7

LEMMA DeactivateStakeType ==
  ASSUME TypeInv, NEW a \in Accounts, NEW b \in Accounts, DeactivateStake(a, b)
  PROVE  TypeInv'
<1> DEFINE v     == native[a].voter
           rec   == stakes[a]
           keep  == AmountToKeep(a)
           whole == keep < 2 * MinStake
           n     == IF whole THEN rec.delegated ELSE rec.delegated - keep
<1>1. Listed(a) /\ v \in Validators
  BY ListedVoter DEF DeactivateStake, Listed
<1>2. rec \in StakeRecord /\ rec.delegated \in Nat /\ native[a].stake = rec.delegated
  BY DEF TypeInv, TypeOK, StakeRecord, DeactivateStake, CheckStakeAmountAndValidator
<1>3. n \in Nat /\ n <= rec.delegated
  <2>1. keep \in 0 .. rec.delegated
    BY <1>1, AmountToKeepType DEF DeactivateStake
  <2> HIDE DEF keep
  <2> QED BY <1>2, <2>1
<1>4. /\ ~paused /\ rec.status = "Active" /\ validators[v].listed
      /\ validators[v].active >= n /\ totalActiveBalance >= n
      /\ \/ whole /\ DeactivateWhole(a, FALSE)
         \/ ~whole /\ DeactivateSplit(a, b, n, FALSE)
      /\ validators' = [validators EXCEPT ![v].active = @ - n,
                                          ![v].lastDelta = IF whole THEN @ ELSE epoch]
      /\ totalActiveBalance' = totalActiveBalance - n
      /\ delayedUnstakeCoolingDown' = delayedUnstakeCoolingDown + n
      /\ lastStakeDeltaEpoch' = epoch
      /\ UNCHANGED <<clockVars, paused, totalValidatorScore, emergencyCoolingDown,
                     reserveVars, ticketVars, extraStakeDeltaRuns, moveVars>>
  BY Zenon DEF DeactivateStake, CheckStakeAmountAndValidator
<1> HIDE DEF n, whole, rec
<1>5. \E c \in Accounts :
        /\ stakes' \in [Accounts -> StakeRecord] /\ native' \in [Accounts -> NativeStake]
        /\ RecordAgrees(a)' /\ RecordAgrees(c)'
        /\ \A d \in Accounts \ {a, c} : stakes'[d] = stakes[d] /\ native'[d] = native[d]
  <2>1. CASE DeactivateWhole(a, FALSE)
    <3>1. FALSE \in BOOLEAN
      OBVIOUS
    <3> QED BY <1>1, <2>1, <3>1, DeactivateWholeType
  <2>2. CASE DeactivateSplit(a, b, n, FALSE)
    <3>1. FALSE \in BOOLEAN /\ n <= stakes[a].delegated /\ n <= native[a].stake
      BY <1>2, <1>3 DEF rec
    <3> QED BY <1>3, <1>4, <2>2, <3>1, DeactivateSplitType DEF rec
  <2> QED BY <1>4, <2>1, <2>2
<1>6. /\ validators' \in [Validators -> ValidatorRecord]
      /\ \A w \in Validators : ~validators'[w].listed => validators'[w] = validators[w]
  <2> DEFINE last == IF whole THEN validators[v].lastDelta ELSE epoch
             new == [validators[v] EXCEPT !.active = @ - n, !.lastDelta = last]
  <2>1. validators \in [Validators -> ValidatorRecord] /\ epoch \in Epochs
    BY DEF TypeInv, TypeOK, Epochs
  <2>2. validators[v].active - n \in Nat /\ last \in Epochs
    BY <1>1, <1>3, <1>4, <2>1 DEF ValidatorRecord
  <2>3. validators' = [validators EXCEPT ![v] = new]
    BY <1>4, <2>1, Zenon
  <2>4. new \in ValidatorRecord
    BY <1>1, <2>1, <2>2, RecordUpdates, Zenon
  <2>5. new.listed = validators[v].listed
    BY <1>1, <2>1, Zenon DEF ValidatorRecord
  <2>6. validators[v].listed
    BY <1>4
  <2> HIDE DEF new
  <2>7. /\ validators' \in [Validators -> ValidatorRecord]
        /\ validators'[v].listed
        /\ \A w \in Validators \ {v} : validators'[w] = validators[w]
    BY <1>1, <2>1, <2>3, <2>4, <2>5, <2>6
  <2> QED BY <2>6, <2>7
<1>7. TypeOK'
  <2>1. TypeOK
    BY DEF TypeInv
  <2>2. /\ totalActiveBalance - n \in Nat /\ delayedUnstakeCoolingDown + n \in Nat
        /\ epoch \in Epochs
    BY <1>3, <1>4, <2>1 DEF TypeOK, Epochs
  <2>3. /\ stakes' \in [Accounts -> StakeRecord] /\ native' \in [Accounts -> NativeStake]
    BY <1>5
  <2> QED BY <1>4, <1>6, <2>1, <2>2, <2>3 DEF TypeOK
<1>8. StatusAgreesWithNative'
  BY <1>5, <1>6, StatusRecords DEF TypeInv
<1> QED BY <1>7, <1>8 DEF TypeInv
-----------------------------------------------------------------------------
(* The validator manager. *)

LEMMA AddValidatorType ==
  ASSUME TypeInv, NEW v \in Validators, NEW score \in Scores, AddValidator(v, score)
  PROVE  TypeInv'
<1>1. score \in Nat
  BY AmountsAssumption
<1>2. validators' \in [Validators -> ValidatorRecord]
  BY <1>1 DEF AddValidator, TypeInv, TypeOK, ValidatorRecord, Epochs, Never
<1>3. TypeOK'
  BY <1>1, <1>2 DEF AddValidator, TypeInv, TypeOK
<1>4. StatusAgreesWithNative'
  BY DEF AddValidator, TypeInv, TypeOK, StatusAgreesWithNative, RecordAgrees, Listed
<1> QED BY <1>3, <1>4 DEF TypeInv

LEMMA RemoveValidatorType ==
  ASSUME TypeInv, NEW v \in Validators, RemoveValidator(v)
  PROVE  TypeInv'
<1>1. validators' \in [Validators -> ValidatorRecord]
  BY DEF RemoveValidator, TypeInv, TypeOK, ValidatorRecord, NoValidator, Epochs, Never
<1>2. validators[v].score \in Nat
  BY DEF TypeInv, TypeOK, ValidatorRecord
<1>3. TypeOK'
  BY <1>1, <1>2 DEF RemoveValidator, TypeInv, TypeOK
<1>4. StatusAgreesWithNative'
  BY DEF RemoveValidator, TypeInv, TypeOK, StatusAgreesWithNative, RecordAgrees, Listed
<1> QED BY <1>3, <1>4 DEF TypeInv

LEMMA SetValidatorScoreType ==
  ASSUME TypeInv, NEW v \in Validators, NEW score \in Scores, SetValidatorScore(v, score)
  PROVE  TypeInv'
<1>1. score \in Nat /\ validators[v].score \in Nat
  BY AmountsAssumption DEF TypeInv, TypeOK, ValidatorRecord
<1>2. validators' \in [Validators -> ValidatorRecord]
  BY <1>1 DEF SetValidatorScore, TypeInv, TypeOK, ValidatorRecord
<1>3. /\ UNCHANGED <<clockVars, paused, stakes, native, balanceVars, reserveVars,
                     ticketVars, deltaVars, moveVars>>
      /\ totalValidatorScore >= validators[v].score
      /\ totalValidatorScore' = totalValidatorScore - validators[v].score + score
  BY DEF SetValidatorScore
<1>4. TypeOK'
  BY <1>1, <1>2, <1>3 DEF TypeInv, TypeOK
<1>5. \A w \in Validators : ~validators'[w].listed => validators'[w] = validators[w]
  BY DEF SetValidatorScore, TypeInv, TypeOK, ValidatorRecord
<1>6. StatusAgreesWithNative'
  BY <1>3, <1>5 DEF TypeInv, StatusAgreesWithNative, RecordAgrees, Listed
<1> QED BY <1>4, <1>6 DEF TypeInv

LEMMA ConfigValidatorSystemType ==
  ASSUME TypeInv, NEW runs \in ExtraRuns, ConfigValidatorSystem(runs)
  PROVE  TypeInv'
<1>1. runs \in Nat
  BY AmountsAssumption
<1>2. TypeOK'
  BY <1>1 DEF ConfigValidatorSystem, TypeInv, TypeOK
<1>3. StatusAgreesWithNative'
  BY StatusUntouched DEF ConfigValidatorSystem, TypeInv
<1> QED BY <1>2, <1>3 DEF TypeInv

(* What the two emergency instructions do to the counters keeps their types. *)
LEMMA MoveToEmergencyType ==
  ASSUME TypeInv, NEW v \in Validators, validators[v].listed, NEW n \in Nat,
         MoveToEmergency(v, n),
         stakes' \in [Accounts -> StakeRecord], native' \in [Accounts -> NativeStake]
  PROVE  /\ TypeOK'
         /\ \A w \in Validators : ~validators'[w].listed => validators'[w] = validators[w]
<1>1. validators' \in [Validators -> ValidatorRecord]
  BY DEF MoveToEmergency, TypeInv, TypeOK, ValidatorRecord
<1>2. \A w \in Validators : ~validators'[w].listed => validators'[w] = validators[w]
  BY DEF MoveToEmergency, TypeInv, TypeOK, ValidatorRecord
<1>3. /\ UNCHANGED <<clockVars, paused, totalValidatorScore, delayedUnstakeCoolingDown,
                     reserveVars, ticketVars, deltaVars>>
      /\ totalActiveBalance >= n /\ totalActiveBalance' = totalActiveBalance - n
      /\ emergencyCoolingDown' = emergencyCoolingDown + n
      /\ lastStakeMoveEpoch' = epoch
      /\ stakeMoved' = (IF epoch = lastStakeMoveEpoch THEN stakeMoved ELSE 0) + n
  BY DEF MoveToEmergency, OnStakeMoved
<1>4. TypeOK'
  BY <1>1, <1>3 DEF TypeInv, TypeOK
<1> QED BY <1>2, <1>4

LEMMA EmergencyUnstakeType ==
  ASSUME TypeInv, NEW a \in Accounts, EmergencyUnstake(a)
  PROVE  TypeInv'
<1>1. Listed(a) /\ native[a].voter \in Validators
  BY ListedVoter DEF EmergencyUnstake, Listed
<1>2. /\ stakes[a].delegated \in Nat /\ validators[native[a].voter].listed
      /\ DeactivateWhole(a, TRUE)
      /\ MoveToEmergency(native[a].voter, stakes[a].delegated)
  BY DEF EmergencyUnstake, CheckStakeAmountAndValidator, TypeInv, TypeOK, StakeRecord
<1>3. TRUE \in BOOLEAN
  OBVIOUS
<1>4. /\ stakes' \in [Accounts -> StakeRecord] /\ native' \in [Accounts -> NativeStake]
      /\ RecordAgrees(a)'
      /\ \A b \in Accounts \ {a} : stakes'[b] = stakes[b] /\ native'[b] = native[b]
  BY <1>1, <1>2, <1>3, DeactivateWholeType
<1>5. /\ TypeOK'
      /\ \A w \in Validators : ~validators'[w].listed => validators'[w] = validators[w]
  BY <1>1, <1>2, <1>4, MoveToEmergencyType
<1>6. StatusAgreesWithNative'
  BY <1>4, <1>5, StatusRecords DEF TypeInv
<1> QED BY <1>5, <1>6 DEF TypeInv

LEMMA PartialUnstakeType ==
  ASSUME TypeInv, NEW a \in Accounts, NEW b \in Accounts, NEW desired \in Unstakes,
         PartialUnstake(a, b, desired)
  PROVE  TypeInv'
<1> DEFINE v     == native[a].voter
           n     == PartialAmount(v, desired)
           whole == SatSub(stakes[a].delegated, n) < MinStake
           m     == IF whole THEN stakes[a].delegated ELSE n
<1>1. Listed(a) /\ v \in Validators /\ stakes[a].status = "Active"
  BY ListedVoter DEF PartialUnstake, Listed
<1>2. stakes[a].delegated \in Nat /\ native[a].stake = stakes[a].delegated
  BY DEF TypeInv, TypeOK, StakeRecord, PartialUnstake, CheckStakeAmountAndValidator
<1>3. n \in Nat
  <2> DEFINE target == ValidatorStakeTarget(v, totalActiveBalance + StakeDelta)
  <2>1. totalActiveBalance + StakeDelta \in Nat
    BY StakeDeltaType DEF PartialUnstake, TypeInv, TypeOK
  <2>2. target \in Nat /\ validators[v].active \in Nat /\ desired \in Nat
    BY <1>1, <2>1, ValidatorStakeTargetType, AmountsAssumption
    DEF TypeInv, TypeOK, ValidatorRecord
  <2>3. validators[v].active > target + MinStake
    BY DEF PartialUnstake
  <2> HIDE DEF target
  <2>4. MinOf(desired, validators[v].active - target) \in Nat
    BY <2>2, <2>3, AmountsAssumption DEF MinOf
  <2> QED BY <2>4 DEF PartialAmount, target
<1>4. /\ validators[v].listed
      /\ \/ whole /\ DeactivateWhole(a, TRUE)
         \/ ~whole /\ DeactivateSplit(a, b, n, TRUE)
      /\ MoveToEmergency(v, m)
  BY Zenon DEF PartialUnstake, CheckStakeAmountAndValidator
<1> HIDE DEF n
<1>5. m \in Nat /\ (~whole => n <= stakes[a].delegated)
  BY <1>2, <1>3, AmountsAssumption DEF SatSub
<1>6. TRUE \in BOOLEAN
  OBVIOUS
<1> HIDE DEF whole, m
<1>7. \E c \in Accounts :
        /\ stakes' \in [Accounts -> StakeRecord] /\ native' \in [Accounts -> NativeStake]
        /\ RecordAgrees(a)' /\ RecordAgrees(c)'
        /\ \A d \in Accounts \ {a, c} : stakes'[d] = stakes[d] /\ native'[d] = native[d]
  <2>1. CASE DeactivateWhole(a, TRUE)
    BY <1>1, <1>6, <2>1, DeactivateWholeType
  <2>2. CASE ~whole /\ DeactivateSplit(a, b, n, TRUE)
    <3>1. n <= stakes[a].delegated /\ n <= native[a].stake
      BY <1>2, <1>5, <2>2
    <3> QED BY <1>1, <1>3, <1>6, <2>2, <3>1, DeactivateSplitType
  <2> QED BY <1>4, <2>1, <2>2
<1>8. /\ TypeOK'
      /\ \A w \in Validators : ~validators'[w].listed => validators'[w] = validators[w]
  BY <1>1, <1>4, <1>5, <1>7, MoveToEmergencyType
<1>9. StatusAgreesWithNative'
  BY <1>7, <1>8, StatusRecords DEF TypeInv
<1> QED BY <1>8, <1>9 DEF TypeInv
-----------------------------------------------------------------------------
(* The update crank. *)

LEMMA UpdateActiveType ==
  ASSUME TypeInv, NEW a \in Accounts, UpdateActive(a)
  PROVE  TypeInv'
<1> DEFINE v   == native[a].voter
           old == stakes[a].delegated
           new == native[a].stake
<1>1. v \in Validators /\ stakes[a].status = "Active" /\ validators[v].listed
  BY ListedVoter DEF UpdateActive, Listed
<1>2. old \in Nat /\ new \in Nat /\ native[a].extra \in Nat /\ validators[v].active \in Nat
  BY <1>1 DEF TypeInv, TypeOK, StakeRecord, NativeStake, ValidatorRecord
<1>3. stakes' \in [Accounts -> StakeRecord]
  BY <1>2 DEF UpdateActive, TypeInv, TypeOK, StakeRecord
<1>4. native' \in [Accounts -> NativeStake]
  BY DEF UpdateActive, TypeInv, TypeOK, NativeStake
<1>5. validators' \in [Validators -> ValidatorRecord]
  BY <1>1, <1>2 DEF UpdateActive, TypeInv, TypeOK, ValidatorRecord
<1>6. /\ UNCHANGED <<clockVars, paused, totalValidatorScore, coolingVars, ticketVars,
                     deltaVars, moveVars>>
      /\ totalActiveBalance + new >= old
      /\ totalActiveBalance' = totalActiveBalance + new - old
      /\ reserveBalance' = reserveBalance + native[a].extra
      /\ availableReserveBalance' = reserveBalance + native[a].extra
  BY DEF UpdateActive, WithdrawToReserve
<1>7. TypeOK'
  BY <1>2, <1>3, <1>4, <1>5, <1>6 DEF TypeInv, TypeOK
<1>8. StatusAgreesWithNative'
  <2>1. \A b \in Accounts \ {a} : stakes'[b] = stakes[b] /\ native'[b] = native[b]
    BY DEF UpdateActive, TypeInv, TypeOK
  <2>2. /\ stakes'[a].status = stakes[a].status
        /\ stakes'[a].emergency = stakes[a].emergency
        /\ native'[a].voter = native[a].voter
    BY DEF UpdateActive, TypeInv, TypeOK, StakeRecord, NativeStake
  <2>3. \A w \in Validators : ~validators'[w].listed => validators'[w] = validators[w]
    BY <1>1 DEF UpdateActive, TypeInv, TypeOK, ValidatorRecord
  <2>4. RecordAgrees(a)'
    BY <1>1, <2>2 DEF TypeInv, StatusAgreesWithNative, RecordAgrees, Listed
  <2> QED BY <2>1, <2>3, <2>4, StatusRecords DEF TypeInv
<1> QED BY <1>7, <1>8 DEF TypeInv

LEMMA UpdateDeactivatedType ==
  ASSUME TypeInv, NEW a \in Accounts, UpdateDeactivated(a)
  PROVE  TypeInv'
<1> DEFINE v == native[a].voter
           n == stakes[a].delegated
<1>1. v \in Validators /\ validators[v].listed
  BY ListedVoter DEF UpdateDeactivated
<1>2. n \in Nat /\ native[a].stake \in Nat /\ native[a].extra \in Nat
  BY DEF TypeInv, TypeOK, StakeRecord, NativeStake
<1>3. stakes' \in [Accounts -> StakeRecord] /\ native' \in [Accounts -> NativeStake]
  BY DEF UpdateDeactivated, TypeInv, TypeOK, StakeRecord, NoRecord, NativeStake,
         NoAccount, Epochs, Never
<1>4. /\ UNCHANGED <<clockVars, paused, totalValidatorScore, ticketVars, deltaVars, moveVars>>
      /\ reserveBalance' = reserveBalance + native[a].stake + native[a].extra
      /\ availableReserveBalance' = reserveBalance + native[a].stake + native[a].extra
  BY <1>2 DEF UpdateDeactivated, WithdrawToReserve, TypeInv, TypeOK
<1>5. /\ validators' \in [Validators -> ValidatorRecord]
      /\ \A w \in Validators : ~validators'[w].listed => validators'[w] = validators[w]
      /\ totalActiveBalance' \in Nat
      /\ delayedUnstakeCoolingDown' \in Nat /\ emergencyCoolingDown' \in Nat
  <2>1. CASE UNCHANGED validators
    BY <1>2, <2>1 DEF UpdateDeactivated, TypeInv, TypeOK
  <2>2. CASE /\ validators[v].active >= n /\ totalActiveBalance >= n
             /\ validators' = [validators EXCEPT ![v].active = @ - n]
             /\ totalActiveBalance' = totalActiveBalance - n
             /\ UNCHANGED coolingVars
    BY <1>1, <1>2, <2>2 DEF TypeInv, TypeOK, ValidatorRecord
  <2> QED BY <2>1, <2>2, Zenon DEF UpdateDeactivated
<1>6. TypeOK'
  BY <1>2, <1>3, <1>4, <1>5 DEF TypeInv, TypeOK
<1>7. StatusAgreesWithNative'
  <2>1. \A b \in Accounts \ {a} : stakes'[b] = stakes[b] /\ native'[b] = native[b]
    BY DEF UpdateDeactivated, TypeInv, TypeOK
  <2>2. stakes'[a] = NoRecord /\ native'[a] = NoAccount
    BY DEF UpdateDeactivated, TypeInv, TypeOK
  <2>3. RecordAgrees(a)'
    BY <2>2 DEF RecordAgrees, Listed, NoRecord
  <2> QED BY <1>5, <2>1, <2>3, StatusRecords DEF TypeInv
<1> QED BY <1>6, <1>7 DEF TypeInv
-----------------------------------------------------------------------------
(* Canonical stake accounts. *)

LEMMA CreateCanonicalStakeType ==
  ASSUME TypeInv, NEW v \in Validators, NEW s \in Accounts, CreateCanonicalStake(v, s)
  PROVE  TypeInv'
<1> DEFINE c == Canonical[v]
<1>1. c \in Accounts /\ c # s /\ native[s].stake \in Nat
  BY SetsAssumption
  DEF CreateCanonicalStake, MovableStake, TypeInv, TypeOK, NativeStake
<1> HIDE DEF c
<1>2. stakes' \in [Accounts -> StakeRecord] /\ native' \in [Accounts -> NativeStake]
  BY <1>1
  DEF CreateCanonicalStake, TypeInv, TypeOK, StakeRecord, NewRecord, NoRecord,
      NativeStake, NoAccount, Epochs, Never, c
<1>3. UNCHANGED <<clockVars, paused, validators, totalValidatorScore, balanceVars,
                  reserveVars, ticketVars, deltaVars, moveVars>>
  BY DEF CreateCanonicalStake
<1>4. TypeOK'
  BY <1>2, <1>3 DEF TypeInv, TypeOK
<1>5. StatusAgreesWithNative'
  <2>1. \A b \in Accounts \ {c, s} : stakes'[b] = stakes[b] /\ native'[b] = native[b]
    BY DEF CreateCanonicalStake, TypeInv, TypeOK, c
  <2>2. /\ stakes'[c] = NewRecord(native[s].stake, FALSE, "Active")
        /\ native'[c] = native[s]
        /\ stakes'[s] = NoRecord /\ native'[s] = NoAccount
    BY <1>1 DEF CreateCanonicalStake, TypeInv, TypeOK, c
  <2>3. native[s].voter \in Validators
    BY ListedVoter DEF CreateCanonicalStake, MovableStake
  <2>4. RecordAgrees(c)' /\ RecordAgrees(s)'
    BY <2>2, <2>3 DEF RecordAgrees, Listed, NewRecord, NoRecord
  <2> QED BY <1>1, <1>3, <2>1, <2>4, StatusRecords DEF TypeInv
<1> QED BY <1>4, <1>5 DEF TypeInv

LEMMA MergeStakesType ==
  ASSUME TypeInv, NEW v \in Validators, NEW s \in Accounts, MergeStakes(v, s)
  PROVE  TypeInv'
<1> DEFINE c     == Canonical[v]
           extra == IF native[c].activation = epoch THEN StakeRent ELSE 0
<1>1. c \in Accounts /\ c # s /\ extra \in Nat
  BY SetsAssumption, AmountsAssumption DEF MergeStakes
<1>2. /\ stakes' = [stakes EXCEPT ![c].delegated = @ + stakes[s].delegated + extra,
                                  ![s] = NoRecord]
      /\ native' = [native EXCEPT ![c].stake = @ + native[s].stake + extra,
                                  ![s] = NoAccount]
      /\ validators' = [validators EXCEPT ![v].active = @ + extra]
      /\ totalActiveBalance' = totalActiveBalance + extra
      /\ UNCHANGED <<clockVars, paused, totalValidatorScore, coolingVars, reserveVars,
                     ticketVars, deltaVars, moveVars>>
      /\ stakes[c].status = "Active" /\ native[c].voter = v /\ validators[v].listed
  BY DEF MergeStakes, MovableStake
<1> HIDE DEF c, extra
<1>3. stakes' \in [Accounts -> StakeRecord]
  BY <1>1, <1>2 DEF TypeInv, TypeOK, StakeRecord, NoRecord
<1>4. native' \in [Accounts -> NativeStake]
  <2> DEFINE merged == [native[c] EXCEPT !.stake = @ + native[s].stake + extra]
  <2>1. native \in [Accounts -> NativeStake]
    BY DEF TypeInv, TypeOK
  <2>2. merged \in NativeStake
    BY <1>1, <2>1 DEF NativeStake
  <2>3. native' = [native EXCEPT ![c] = merged, ![s] = NoAccount]
    BY <1>2
  <2>4. NoAccount \in NativeStake
    BY DEF NativeStake, NoAccount, Epochs, Never
  <2> HIDE DEF merged
  <2> QED BY <2>1, <2>2, <2>3, <2>4
<1>5. validators' \in [Validators -> ValidatorRecord]
  BY <1>1, <1>2 DEF TypeInv, TypeOK, ValidatorRecord
<1>6. TypeOK'
  BY <1>1, <1>2, <1>3, <1>4, <1>5 DEF TypeInv, TypeOK
<1>7. StatusAgreesWithNative'
  <2>1. \A b \in Accounts \ {c, s} : stakes'[b] = stakes[b] /\ native'[b] = native[b]
    BY <1>2 DEF TypeInv, TypeOK
  <2>2. /\ stakes'[c].status = "Active" /\ stakes'[c].emergency = stakes[c].emergency
        /\ native'[c].voter = v
        /\ stakes'[s] = NoRecord /\ native'[s] = NoAccount
    BY <1>1, <1>2 DEF TypeInv, TypeOK, StakeRecord, NativeStake
  <2>3. ~stakes[c].emergency
    BY <1>1, <1>2 DEF TypeInv, StatusAgreesWithNative, RecordAgrees, Listed
  <2>4. RecordAgrees(c)' /\ RecordAgrees(s)'
    BY <2>2, <2>3 DEF RecordAgrees, Listed, NoRecord
  <2>5. \A w \in Validators : ~validators'[w].listed => validators'[w] = validators[w]
    BY <1>2 DEF TypeInv, TypeOK, ValidatorRecord
  <2> QED BY <1>1, <2>1, <2>4, <2>5, StatusRecords DEF TypeInv
<1> QED BY <1>6, <1>7 DEF TypeInv
-----------------------------------------------------------------------------
(* The pause authority and the chain. *)

LEMMA PauseStepType ==
  ASSUME TypeInv, PauseStep
  PROVE  TypeInv'
<1>1. TypeOK'
  BY DEF PauseStep, Pause, Resume, TypeInv, TypeOK
<1>2. StatusAgreesWithNative'
  BY StatusUntouched DEF PauseStep, Pause, Resume, TypeInv
<1> QED BY <1>1, <1>2 DEF TypeInv

LEMMA ClockType ==
  ASSUME TypeInv, AdvancePhase \/ AdvanceEpoch
  PROVE  TypeInv'
<1>1. TypeOK'
  BY DEF AdvancePhase, AdvanceEpoch, TypeInv, TypeOK, Phases
<1>2. StatusAgreesWithNative'
  BY StatusUntouched DEF AdvancePhase, AdvanceEpoch, TypeInv
<1> QED BY <1>1, <1>2 DEF TypeInv

LEMMA DonateType ==
  ASSUME TypeInv, NEW n \in Donations, Donate(n)
  PROVE  TypeInv'
<1>1. TypeOK'
  BY AmountsAssumption DEF Donate, TypeInv, TypeOK
<1>2. StatusAgreesWithNative'
  BY StatusUntouched DEF Donate, TypeInv
<1> QED BY <1>1, <1>2 DEF TypeInv

(* The steps that change one account of the chain and nothing else. *)
LEMMA AccountStepType ==
  ASSUME TypeInv, NEW a \in Accounts, Listed(a), NEW new \in NativeStake,
         native' = [native EXCEPT ![a] = new],
         new.voter = native[a].voter,
         new.deactivation = Never => native[a].deactivation = Never,
         UNCHANGED <<clockVars, reserveBalance, programVars>>
  PROVE  TypeInv'
<1>1. TypeOK'
  BY DEF TypeInv, TypeOK
<1>2. \A b \in Accounts \ {a} : native'[b] = native[b]
  BY DEF TypeInv, TypeOK
<1>3. native'[a] = new
  BY DEF TypeInv, TypeOK
<1>4. StatusAgreesWithNative'
  BY <1>2, <1>3, StatusNative DEF TypeInv
<1> QED BY <1>1, <1>4 DEF TypeInv

LEMMA ChainStepType ==
  ASSUME TypeInv, ChainStep
  PROVE  TypeInv'
<1>1. CASE AdvancePhase \/ AdvanceEpoch
  BY <1>1, ClockType
<1>2. ASSUME NEW a \in Accounts, NEW n \in Rewards, Reward(a, n)
      PROVE  TypeInv'
  <2> DEFINE new == [native[a] EXCEPT !.stake = @ + n]
  <2>1. new \in NativeStake /\ new.voter = native[a].voter
        /\ new.deactivation = native[a].deactivation
    BY AmountsAssumption DEF TypeInv, TypeOK, NativeStake
  <2>2. /\ Listed(a) /\ native' = [native EXCEPT ![a] = new]
        /\ UNCHANGED <<clockVars, reserveBalance, programVars>>
    BY <1>2, Zenon DEF Reward
  <2> HIDE DEF new
  <2> QED BY <2>1, <2>2, AccountStepType
<1>3. ASSUME NEW a \in Accounts, NEW n \in Slashes, Slash(a, n)
      PROVE  TypeInv'
  <2> DEFINE new == [native[a] EXCEPT !.stake = @ - n]
  <2>1. new \in NativeStake /\ new.voter = native[a].voter
        /\ new.deactivation = native[a].deactivation
    BY <1>3, AmountsAssumption DEF Slash, TypeInv, TypeOK, NativeStake
  <2>2. /\ Listed(a) /\ native' = [native EXCEPT ![a] = new]
        /\ UNCHANGED <<clockVars, reserveBalance, programVars>>
    BY <1>3, Zenon DEF Slash
  <2> HIDE DEF new
  <2> QED BY <2>1, <2>2, AccountStepType
<1>4. ASSUME NEW a \in Accounts, NEW n \in Tips, Tip(a, n)
      PROVE  TypeInv'
  <2> DEFINE new == [native[a] EXCEPT !.extra = @ + n]
  <2>1. new \in NativeStake /\ new.voter = native[a].voter
        /\ new.deactivation = native[a].deactivation
    BY AmountsAssumption DEF TypeInv, TypeOK, NativeStake
  <2>2. /\ Listed(a) /\ native' = [native EXCEPT ![a] = new]
        /\ UNCHANGED <<clockVars, reserveBalance, programVars>>
    BY <1>4, Zenon DEF Tip
  <2> HIDE DEF new
  <2> QED BY <2>1, <2>2, AccountStepType
<1>5. CASE \E n \in Donations : Donate(n)
  BY <1>5, DonateType
<1>6. ASSUME NEW a \in Accounts, DeactivateDelinquent(a)
      PROVE  TypeInv'
  <2> DEFINE new == [native[a] EXCEPT !.deactivation = epoch]
  <2>1. new \in NativeStake /\ new.voter = native[a].voter /\ new.deactivation = epoch
    BY DEF TypeInv, TypeOK, NativeStake, Epochs
  <2>2. /\ Listed(a) /\ native' = [native EXCEPT ![a] = new]
        /\ UNCHANGED <<clockVars, reserveBalance, programVars>>
        /\ native[a].deactivation = Never
    BY <1>6, Zenon DEF DeactivateDelinquent
  <2> HIDE DEF new
  <2> QED BY <2>1, <2>2, AccountStepType
<1> QED BY <1>1, <1>2, <1>3, <1>4, <1>5, <1>6 DEF ChainStep
-----------------------------------------------------------------------------
LEMMA NextTypeInv ==
  ASSUME TypeInv, [Next]_vars
  PROVE  TypeInv'
<1>1. CASE UserStep
  BY <1>1, DepositType, DepositStakeAccountType, WithdrawStakeAccountType,
     OrderUnstakeType, ClaimType DEF UserStep
<1>2. CASE CrankStep
  BY <1>2, StakeReserveType, StakeReserveNothingType, DeactivateStakeType,
     UpdateActiveType, UpdateDeactivatedType, CreateCanonicalStakeType,
     MergeStakesType DEF CrankStep
<1>3. CASE ManagerStep
  BY <1>3, AddValidatorType, RemoveValidatorType, SetValidatorScoreType,
     ConfigValidatorSystemType, EmergencyUnstakeType, PartialUnstakeType DEF ManagerStep
<1>4. CASE PauseStep
  BY <1>4, PauseStepType
<1>5. CASE ChainStep
  BY <1>5, ChainStepType
<1>6. CASE UNCHANGED vars
  <2>1. TypeOK'
    BY <1>6 DEF vars, TypeInv, TypeOK
  <2>2. StatusAgreesWithNative'
    BY <1>6, StatusUntouched DEF vars, TypeInv
  <2> QED BY <2>1, <2>2 DEF TypeInv
<1> QED BY <1>1, <1>2, <1>3, <1>4, <1>5, <1>6 DEF Next

(* TypeInv holds in every reachable state, whatever the accounts, amounts,  *)
(* caps and clocks. *)
THEOREM TypeInvInvariant == Spec => []TypeInv
<1>1. Init => TypeInv
  BY InitTypeInv
<1>2. TypeInv /\ [Next]_vars => TypeInv'
  BY NextTypeInv
<1> QED BY <1>1, <1>2, PTL DEF Spec

(* The state is always well typed: no instruction, however they interleave, *)
(* takes an unsigned counter below zero (its own checks prevent it).        *)
THEOREM TypeCorrect == Spec => []TypeOK
<1>1. TypeInv => TypeOK
  BY DEF TypeInv
<1> QED BY <1>1, TypeInvInvariant, PTL

(* The stake list agrees with the chain: a record the program holds as      *)
(* Deactivating is a stake that is deactivated, delegated to a validator,   *)
(* and the emergency mark is only on such a record.                         *)
THEOREM StatusCorrect == Spec => []StatusAgreesWithNative
<1>1. TypeInv => StatusAgreesWithNative
  BY DEF TypeInv
<1> QED BY <1>1, TypeInvInvariant, PTL
-----------------------------------------------------------------------------
(* The sums. *)

(* The three balances together are the recorded stake of all the accounts. *)
RecordedStake == [a \in Accounts |-> stakes[a].delegated]
RecordsAddUp ==
  totalActiveBalance + delayedUnstakeCoolingDown + emergencyCoolingDown
    = Total(Accounts, RecordedStake)

BalancesAddUp == ActiveBalancesAddUp /\ CoolingBalancesAddUp /\ RecordsAddUp

(* What account a adds to each of the sums, and the validator it belongs to. *)
ActivePart(a) == IF stakes[a].status = "Active" THEN stakes[a].delegated ELSE 0
DelayedPart(a) ==
  IF stakes[a].status = "Deactivating" /\ ~stakes[a].emergency THEN stakes[a].delegated ELSE 0
EmergencyPart(a) ==
  IF stakes[a].status = "Deactivating" /\ stakes[a].emergency THEN stakes[a].delegated ELSE 0
Belongs(a, v) == Listed(a) => native[a].voter = v
-----------------------------------------------------------------------------
(* The sums do not move when neither records nor voters nor balances do. *)
LEMMA NoPartMoves ==
  ASSUME BalancesAddUp, UNCHANGED <<stakes, balanceVars>>,
         \A a \in Accounts : native'[a].voter = native[a].voter,
         \A w \in Validators : validators'[w].active = validators[w].active
  PROVE  BalancesAddUp'
<1>1. \A w \in Validators : Total(Accounts, ActiveStake(w)') = Total(Accounts, ActiveStake(w))
  <2> TAKE w \in Validators
  <2>1. \A a \in Accounts : ActiveStake(w)'[a] = ActiveStake(w)[a]
    BY DEF ActiveStake
  <2> QED BY <2>1, TotalSame
<1>2. /\ Total(Accounts, DelayedStake') = Total(Accounts, DelayedStake)
      /\ Total(Accounts, EmergencyStake') = Total(Accounts, EmergencyStake)
  <2>1. \A a \in Accounts : /\ DelayedStake'[a] = DelayedStake[a]
                           /\ EmergencyStake'[a] = EmergencyStake[a]
    BY DEF DelayedStake, EmergencyStake
  <2> QED BY <2>1, TotalSame
<1>3. Total(Validators, ActiveBalance') = Total(Validators, ActiveBalance)
  <2>1. \A w \in Validators : ActiveBalance'[w] = ActiveBalance[w]
    BY DEF ActiveBalance
  <2> QED BY <2>1, TotalSame
<1>4. Total(Accounts, RecordedStake') = Total(Accounts, RecordedStake)
  BY DEF RecordedStake
<1> QED BY <1>1, <1>2, <1>3, <1>4
     DEF BalancesAddUp, ActiveBalancesAddUp, CoolingBalancesAddUp, RecordsAddUp

(* The balance of validator v, and the total with it, moved by d. *)
BalanceMoved(v, d) ==
  /\ validators'[v].active = validators[v].active + d
  /\ \A w \in Validators \ {v} : validators'[w].active = validators[w].active
  /\ totalActiveBalance' = totalActiveBalance + d

LEMMA TotalActiveFollows ==
  ASSUME TypeOK, TypeOK', NEW v \in Validators, NEW d \in Int, BalanceMoved(v, d),
         totalActiveBalance = Total(Validators, ActiveBalance)
  PROVE  totalActiveBalance' = Total(Validators, ActiveBalance')
<1>1. /\ \A w \in Validators : ActiveBalance[w] \in Nat /\ ActiveBalance'[w] \in Nat
      /\ \A w \in Validators \ {v} : ActiveBalance'[w] = ActiveBalance[w]
      /\ ActiveBalance'[v] = ActiveBalance[v] + d
  BY DEF BalanceMoved, ActiveBalance, TypeOK, ValidatorRecord
<1>2. IsFiniteSet(Validators)
  BY SetsAssumption
<1>3. Total(Validators, ActiveBalance')
        = Total(Validators, ActiveBalance) + ActiveBalance'[v] - ActiveBalance[v]
  BY <1>1, <1>2, TotalChange
<1> QED BY <1>1, <1>3 DEF BalanceMoved, TypeOK

(* The counters of stakes cooling down moved by d and e. *)
CoolingMoved(d, e) ==
  /\ delayedUnstakeCoolingDown' = delayedUnstakeCoolingDown + d
  /\ emergencyCoolingDown' = emergencyCoolingDown + e

(* A record is counted in exactly one of the sums. *)
LEMMA PartsOfRecord ==
  ASSUME TypeInv, TypeInv', NEW a \in Accounts
  PROVE  /\ stakes[a].delegated = ActivePart(a) + DelayedPart(a) + EmergencyPart(a)
         /\ stakes'[a].delegated = ActivePart(a)' + DelayedPart(a)' + EmergencyPart(a)'
<1>1. stakes[a] \in StakeRecord /\ (stakes[a].status = "Unknown" => stakes[a].delegated = 0)
  BY DEF TypeInv, TypeOK, StatusAgreesWithNative, RecordAgrees, Listed, NoRecord
<1>2. stakes'[a] \in StakeRecord /\ (stakes'[a].status = "Unknown" => stakes'[a].delegated = 0)
  BY DEF TypeInv, TypeOK, StatusAgreesWithNative, RecordAgrees, Listed, NoRecord
<1> QED BY <1>1, <1>2 DEF ActivePart, DelayedPart, EmergencyPart, StakeRecord

(* One account, of validator v, changes: the counters must follow its parts. *)
LEMMA OneRecord ==
  ASSUME TypeInv, TypeInv', BalancesAddUp,
         NEW a \in Accounts, NEW v \in Validators,
         \A c \in Accounts \ {a} : stakes'[c] = stakes[c] /\ native'[c].voter = native[c].voter,
         Belongs(a, v), Belongs(a, v)',
         NEW x \in Int, BalanceMoved(v, x), ActivePart(a)' = ActivePart(a) + x,
         NEW y \in Int, NEW z \in Int, CoolingMoved(y, z),
         DelayedPart(a)' = DelayedPart(a) + y,
         EmergencyPart(a)' = EmergencyPart(a) + z
  PROVE  BalancesAddUp'
<1>0. TypeOK /\ TypeOK'
  BY DEF TypeInv
<1>1. IsFiniteSet(Accounts)
  BY SetsAssumption
<1>2. ActivePart(a) \in Nat /\ ActivePart(a)' \in Nat
  BY <1>0 DEF ActivePart, TypeOK, StakeRecord
<1>3. ASSUME NEW w \in Validators
      PROVE  validators'[w].active = Total(Accounts, ActiveStake(w)')
  <2>1. \A c \in Accounts : ActiveStake(w)[c] \in Nat /\ ActiveStake(w)'[c] \in Nat
    BY <1>0 DEF ActiveStake, TypeOK, StakeRecord
  <2>2. \A c \in Accounts \ {a} : ActiveStake(w)'[c] = ActiveStake(w)[c]
    BY DEF ActiveStake
  <2>3. Total(Accounts, ActiveStake(w)')
          = Total(Accounts, ActiveStake(w)) + ActiveStake(w)'[a] - ActiveStake(w)[a]
    BY <1>1, <2>1, <2>2, TotalChange
  <2>4. /\ ActiveStake(w)[a] = IF w = v THEN ActivePart(a) ELSE 0
        /\ ActiveStake(w)'[a] = IF w = v THEN ActivePart(a)' ELSE 0
    BY DEF ActiveStake, ActivePart, Belongs, Listed
  <2>5. validators[w].active = Total(Accounts, ActiveStake(w)) /\ validators[w].active \in Nat
    BY <1>0 DEF BalancesAddUp, ActiveBalancesAddUp, TypeOK, ValidatorRecord
  <2>6. CASE w = v
    <3>1. validators'[w].active = validators[w].active + x
      BY <2>6 DEF BalanceMoved
    <3>2. Total(Accounts, ActiveStake(w)')
            = Total(Accounts, ActiveStake(w)) + ActivePart(a)' - ActivePart(a)
      BY <2>3, <2>4, <2>6
    <3> QED BY <1>2, <2>5, <3>1, <3>2
  <2>7. CASE w # v
    <3>1. validators'[w].active = validators[w].active
      BY <2>7 DEF BalanceMoved
    <3>2. Total(Accounts, ActiveStake(w)') = Total(Accounts, ActiveStake(w)) + 0 - 0
      BY <2>3, <2>4, <2>7
    <3> QED BY <2>5, <3>1, <3>2
  <2> QED BY <2>6, <2>7
<1>4. totalActiveBalance' = Total(Validators, ActiveBalance')
  BY <1>0, TotalActiveFollows DEF BalancesAddUp, ActiveBalancesAddUp
<1>5. delayedUnstakeCoolingDown' = Total(Accounts, DelayedStake')
  <2>1. \A c \in Accounts : DelayedStake[c] \in Nat /\ DelayedStake'[c] \in Nat
    BY <1>0 DEF DelayedStake, TypeOK, StakeRecord
  <2>2. \A c \in Accounts \ {a} : DelayedStake'[c] = DelayedStake[c]
    BY DEF DelayedStake
  <2>3. DelayedStake[a] = DelayedPart(a) /\ DelayedStake'[a] = DelayedPart(a)'
    BY <1>0 DEF DelayedStake, DelayedPart, TypeOK, StakeRecord
  <2>4. Total(Accounts, DelayedStake')
          = Total(Accounts, DelayedStake) + DelayedStake'[a] - DelayedStake[a]
    BY <1>1, <2>1, <2>2, TotalChange
  <2>5. delayedUnstakeCoolingDown = Total(Accounts, DelayedStake) /\ delayedUnstakeCoolingDown \in Nat
    BY <1>0 DEF BalancesAddUp, CoolingBalancesAddUp, TypeOK
  <2>6. DelayedPart(a) \in Nat /\ DelayedPart(a)' \in Nat
    BY <1>0 DEF DelayedPart, TypeOK, StakeRecord
  <2> QED BY <2>3, <2>4, <2>5, <2>6 DEF CoolingMoved
<1>6. emergencyCoolingDown' = Total(Accounts, EmergencyStake')
  <2>1. \A c \in Accounts : EmergencyStake[c] \in Nat /\ EmergencyStake'[c] \in Nat
    BY <1>0 DEF EmergencyStake, TypeOK, StakeRecord
  <2>2. \A c \in Accounts \ {a} : EmergencyStake'[c] = EmergencyStake[c]
    BY DEF EmergencyStake
  <2>3. EmergencyStake[a] = EmergencyPart(a) /\ EmergencyStake'[a] = EmergencyPart(a)'
    BY <1>0 DEF EmergencyStake, EmergencyPart, TypeOK, StakeRecord
  <2>4. Total(Accounts, EmergencyStake')
          = Total(Accounts, EmergencyStake) + EmergencyStake'[a] - EmergencyStake[a]
    BY <1>1, <2>1, <2>2, TotalChange
  <2>5. emergencyCoolingDown = Total(Accounts, EmergencyStake) /\ emergencyCoolingDown \in Nat
    BY <1>0 DEF BalancesAddUp, CoolingBalancesAddUp, TypeOK
  <2>6. EmergencyPart(a) \in Nat /\ EmergencyPart(a)' \in Nat
    BY <1>0 DEF EmergencyPart, TypeOK, StakeRecord
  <2> QED BY <2>3, <2>4, <2>5, <2>6 DEF CoolingMoved
<1>7. RecordsAddUp'
  <2>1. /\ stakes[a].delegated = ActivePart(a) + DelayedPart(a) + EmergencyPart(a)
        /\ stakes'[a].delegated = ActivePart(a)' + DelayedPart(a)' + EmergencyPart(a)'
    BY PartsOfRecord
  <2>2. /\ \A c \in Accounts : RecordedStake[c] \in Nat /\ RecordedStake'[c] \in Nat
        /\ \A c \in Accounts \ {a} : RecordedStake'[c] = RecordedStake[c]
        /\ RecordedStake[a] = stakes[a].delegated /\ RecordedStake'[a] = stakes'[a].delegated
    BY <1>0 DEF RecordedStake, TypeOK, StakeRecord
  <2>3. Total(Accounts, RecordedStake')
          = Total(Accounts, RecordedStake) + RecordedStake'[a] - RecordedStake[a]
    BY <1>1, <2>2, TotalChange
  <2>4. RecordedStake'[a] = RecordedStake[a] + x + y + z
    BY <1>0, <2>1, <2>2 DEF ActivePart, DelayedPart, EmergencyPart, TypeOK, StakeRecord
  <2> QED BY <1>0, <2>2, <2>3, <2>4
       DEF BalancesAddUp, RecordsAddUp, BalanceMoved, CoolingMoved, TypeOK
<1> QED BY <1>3, <1>4, <1>5, <1>6, <1>7
     DEF BalancesAddUp, ActiveBalancesAddUp, CoolingBalancesAddUp

(* The same for two accounts of validator v. *)
LEMMA TwoRecords ==
  ASSUME TypeInv, TypeInv', BalancesAddUp,
         NEW a \in Accounts, NEW b \in Accounts, a # b, NEW v \in Validators,
         \A c \in Accounts \ {a, b} :
            stakes'[c] = stakes[c] /\ native'[c].voter = native[c].voter,
         Belongs(a, v), Belongs(a, v)', Belongs(b, v), Belongs(b, v)',
         NEW x \in Int, BalanceMoved(v, x),
         ActivePart(a)' + ActivePart(b)' = ActivePart(a) + ActivePart(b) + x,
         NEW y \in Int, NEW z \in Int, CoolingMoved(y, z),
         DelayedPart(a)' + DelayedPart(b)'
            = DelayedPart(a) + DelayedPart(b) + y,
         EmergencyPart(a)' + EmergencyPart(b)'
            = EmergencyPart(a) + EmergencyPart(b) + z
  PROVE  BalancesAddUp'
<1>0. TypeOK /\ TypeOK'
  BY DEF TypeInv
<1>1. IsFiniteSet(Accounts)
  BY SetsAssumption
<1>2. /\ ActivePart(a) \in Nat /\ ActivePart(a)' \in Nat
      /\ ActivePart(b) \in Nat /\ ActivePart(b)' \in Nat
  BY <1>0 DEF ActivePart, TypeOK, StakeRecord
<1>3. ASSUME NEW w \in Validators
      PROVE  validators'[w].active = Total(Accounts, ActiveStake(w)')
  <2>1. \A c \in Accounts : ActiveStake(w)[c] \in Nat /\ ActiveStake(w)'[c] \in Nat
    BY <1>0 DEF ActiveStake, TypeOK, StakeRecord
  <2>2. \A c \in Accounts \ {a, b} : ActiveStake(w)'[c] = ActiveStake(w)[c]
    BY DEF ActiveStake
  <2>3. Total(Accounts, ActiveStake(w)')
          = Total(Accounts, ActiveStake(w)) + ActiveStake(w)'[a] - ActiveStake(w)[a]
              + ActiveStake(w)'[b] - ActiveStake(w)[b]
    BY <1>1, <2>1, <2>2, TotalChangeTwo
  <2>4. /\ ActiveStake(w)[a] = IF w = v THEN ActivePart(a) ELSE 0
        /\ ActiveStake(w)'[a] = IF w = v THEN ActivePart(a)' ELSE 0
    BY DEF ActiveStake, ActivePart, Belongs, Listed
  <2>5. /\ ActiveStake(w)[b] = IF w = v THEN ActivePart(b) ELSE 0
        /\ ActiveStake(w)'[b] = IF w = v THEN ActivePart(b)' ELSE 0
    BY DEF ActiveStake, ActivePart, Belongs, Listed
  <2>6. validators[w].active = Total(Accounts, ActiveStake(w)) /\ validators[w].active \in Nat
    BY <1>0 DEF BalancesAddUp, ActiveBalancesAddUp, TypeOK, ValidatorRecord
  <2>7. CASE w = v
    <3>1. validators'[w].active = validators[w].active + x
      BY <2>7 DEF BalanceMoved
    <3>2. Total(Accounts, ActiveStake(w)')
            = Total(Accounts, ActiveStake(w)) + ActivePart(a)' - ActivePart(a)
                + ActivePart(b)' - ActivePart(b)
      BY <2>3, <2>4, <2>5, <2>7
    <3> QED BY <1>2, <2>6, <3>1, <3>2
  <2>8. CASE w # v
    <3>1. validators'[w].active = validators[w].active
      BY <2>8 DEF BalanceMoved
    <3>2. Total(Accounts, ActiveStake(w)') = Total(Accounts, ActiveStake(w)) + 0 - 0 + 0 - 0
      BY <2>3, <2>4, <2>5, <2>8
    <3> QED BY <2>6, <3>1, <3>2
  <2> QED BY <2>7, <2>8
<1>4. totalActiveBalance' = Total(Validators, ActiveBalance')
  BY <1>0, TotalActiveFollows DEF BalancesAddUp, ActiveBalancesAddUp
<1>5. delayedUnstakeCoolingDown' = Total(Accounts, DelayedStake')
  <2>1. \A c \in Accounts : DelayedStake[c] \in Nat /\ DelayedStake'[c] \in Nat
    BY <1>0 DEF DelayedStake, TypeOK, StakeRecord
  <2>2. \A c \in Accounts \ {a, b} : DelayedStake'[c] = DelayedStake[c]
    BY DEF DelayedStake
  <2>3. /\ DelayedStake[a] = DelayedPart(a) /\ DelayedStake'[a] = DelayedPart(a)'
        /\ DelayedStake[b] = DelayedPart(b) /\ DelayedStake'[b] = DelayedPart(b)'
    BY <1>0 DEF DelayedStake, DelayedPart, TypeOK, StakeRecord
  <2>4. Total(Accounts, DelayedStake')
          = Total(Accounts, DelayedStake) + DelayedStake'[a] - DelayedStake[a]
              + DelayedStake'[b] - DelayedStake[b]
    BY <1>1, <2>1, <2>2, TotalChangeTwo
  <2>5. delayedUnstakeCoolingDown = Total(Accounts, DelayedStake) /\ delayedUnstakeCoolingDown \in Nat
    BY <1>0 DEF BalancesAddUp, CoolingBalancesAddUp, TypeOK
  <2>6. /\ DelayedPart(a) \in Nat /\ DelayedPart(a)' \in Nat
        /\ DelayedPart(b) \in Nat /\ DelayedPart(b)' \in Nat
    BY <1>0 DEF DelayedPart, TypeOK, StakeRecord
  <2> QED BY <2>3, <2>4, <2>5, <2>6 DEF CoolingMoved
<1>6. emergencyCoolingDown' = Total(Accounts, EmergencyStake')
  <2>1. \A c \in Accounts : EmergencyStake[c] \in Nat /\ EmergencyStake'[c] \in Nat
    BY <1>0 DEF EmergencyStake, TypeOK, StakeRecord
  <2>2. \A c \in Accounts \ {a, b} : EmergencyStake'[c] = EmergencyStake[c]
    BY DEF EmergencyStake
  <2>3. /\ EmergencyStake[a] = EmergencyPart(a) /\ EmergencyStake'[a] = EmergencyPart(a)'
        /\ EmergencyStake[b] = EmergencyPart(b) /\ EmergencyStake'[b] = EmergencyPart(b)'
    BY <1>0 DEF EmergencyStake, EmergencyPart, TypeOK, StakeRecord
  <2>4. Total(Accounts, EmergencyStake')
          = Total(Accounts, EmergencyStake) + EmergencyStake'[a] - EmergencyStake[a]
              + EmergencyStake'[b] - EmergencyStake[b]
    BY <1>1, <2>1, <2>2, TotalChangeTwo
  <2>5. emergencyCoolingDown = Total(Accounts, EmergencyStake) /\ emergencyCoolingDown \in Nat
    BY <1>0 DEF BalancesAddUp, CoolingBalancesAddUp, TypeOK
  <2>6. /\ EmergencyPart(a) \in Nat /\ EmergencyPart(a)' \in Nat
        /\ EmergencyPart(b) \in Nat /\ EmergencyPart(b)' \in Nat
    BY <1>0 DEF EmergencyPart, TypeOK, StakeRecord
  <2> QED BY <2>3, <2>4, <2>5, <2>6 DEF CoolingMoved
<1>7. RecordsAddUp'
  <2>1. /\ stakes[a].delegated = ActivePart(a) + DelayedPart(a) + EmergencyPart(a)
        /\ stakes'[a].delegated = ActivePart(a)' + DelayedPart(a)' + EmergencyPart(a)'
        /\ stakes[b].delegated = ActivePart(b) + DelayedPart(b) + EmergencyPart(b)
        /\ stakes'[b].delegated = ActivePart(b)' + DelayedPart(b)' + EmergencyPart(b)'
    BY PartsOfRecord
  <2>2. /\ \A c \in Accounts : RecordedStake[c] \in Nat /\ RecordedStake'[c] \in Nat
        /\ \A c \in Accounts \ {a, b} : RecordedStake'[c] = RecordedStake[c]
        /\ RecordedStake[a] = stakes[a].delegated /\ RecordedStake'[a] = stakes'[a].delegated
        /\ RecordedStake[b] = stakes[b].delegated /\ RecordedStake'[b] = stakes'[b].delegated
    BY <1>0 DEF RecordedStake, TypeOK, StakeRecord
  <2>3. Total(Accounts, RecordedStake')
          = Total(Accounts, RecordedStake) + RecordedStake'[a] - RecordedStake[a]
              + RecordedStake'[b] - RecordedStake[b]
    BY <1>1, <2>2, TotalChangeTwo
  <2>4. /\ DelayedPart(a) \in Nat /\ DelayedPart(a)' \in Nat
        /\ DelayedPart(b) \in Nat /\ DelayedPart(b)' \in Nat
        /\ EmergencyPart(a) \in Nat /\ EmergencyPart(a)' \in Nat
        /\ EmergencyPart(b) \in Nat /\ EmergencyPart(b)' \in Nat
    BY <1>0 DEF DelayedPart, EmergencyPart, TypeOK, StakeRecord
  <2>5. RecordedStake'[a] + RecordedStake'[b] = RecordedStake[a] + RecordedStake[b] + x + y + z
    BY <1>2, <2>1, <2>2, <2>4
  <2>6. /\ totalActiveBalance + delayedUnstakeCoolingDown + emergencyCoolingDown
             = Total(Accounts, RecordedStake)
        /\ totalActiveBalance \in Nat /\ delayedUnstakeCoolingDown \in Nat
        /\ emergencyCoolingDown \in Nat
    BY <1>0 DEF BalancesAddUp, RecordsAddUp, TypeOK
  <2>7. RecordedStake[a] \in Nat /\ RecordedStake'[a] \in Nat
        /\ RecordedStake[b] \in Nat /\ RecordedStake'[b] \in Nat
    BY <2>2
  <2>8. Total(Accounts, RecordedStake') = Total(Accounts, RecordedStake) + x + y + z
    <3>1. Total(Accounts, RecordedStake) \in Nat
      BY <1>1, <2>2, TotalType
    <3>2. RecordedStake'[a] + RecordedStake'[b] - RecordedStake[a] - RecordedStake[b] = x + y + z
      BY <2>5, <2>7
    <3>3. Total(Accounts, RecordedStake')
            = Total(Accounts, RecordedStake)
                + (RecordedStake'[a] + RecordedStake'[b] - RecordedStake[a] - RecordedStake[b])
      BY <2>3, <2>7, <3>1
    <3> QED BY <3>1, <3>2, <3>3
  <2>9. totalActiveBalance' + delayedUnstakeCoolingDown' + emergencyCoolingDown'
          = totalActiveBalance + delayedUnstakeCoolingDown + emergencyCoolingDown + x + y + z
    BY <2>6 DEF BalanceMoved, CoolingMoved
  <2> QED BY <2>6, <2>8, <2>9 DEF RecordsAddUp
<1> QED BY <1>3, <1>4, <1>5, <1>6, <1>7
     DEF BalancesAddUp, ActiveBalancesAddUp, CoolingBalancesAddUp
-----------------------------------------------------------------------------
(* The instructions that change a record. *)

LEMMA DepositStakeAccountSums ==
  ASSUME TypeInv, TypeInv', BalancesAddUp, NEW a \in Accounts, NEW v \in Validators,
         NEW n \in StakeDeposits, NEW e \in 0 .. MaxEpoch, DepositStakeAccount(a, v, n, e)
  PROVE  BalancesAddUp'
<1>1. n \in Nat
  BY AmountsAssumption
<1>2. /\ stakes'[a] = NewRecord(n, FALSE, "Active") /\ native'[a].voter = v
      /\ \A c \in Accounts \ {a} : stakes'[c] = stakes[c] /\ native'[c].voter = native[c].voter
  BY DEF DepositStakeAccount, TypeInv, TypeOK
<1>3. ActivePart(a) = 0 /\ DelayedPart(a) = 0 /\ EmergencyPart(a) = 0
  BY DEF DepositStakeAccount, Fresh, Listed, ActivePart, DelayedPart, EmergencyPart
<1>4. /\ ActivePart(a)' = ActivePart(a) + n
      /\ DelayedPart(a)' = DelayedPart(a) + 0
      /\ EmergencyPart(a)' = EmergencyPart(a) + 0
  BY <1>1, <1>2, <1>3 DEF ActivePart, DelayedPart, EmergencyPart, NewRecord
<1>5. Belongs(a, v) /\ Belongs(a, v)'
  BY <1>2 DEF DepositStakeAccount, Fresh, Belongs
<1>6. BalanceMoved(v, n) /\ CoolingMoved(0, 0)
  BY DEF DepositStakeAccount, BalanceMoved, CoolingMoved, TypeInv, TypeOK, ValidatorRecord
<1> QED BY <1>1, <1>2, <1>4, <1>5, <1>6, OneRecord DEF TypeInv

LEMMA WithdrawStakeAccountSums ==
  ASSUME TypeInv, TypeInv', BalancesAddUp, NEW a \in Accounts, NEW n \in Withdrawals,
         WithdrawStakeAccount(a, n)
  PROVE  BalancesAddUp'
<1> SUFFICES ASSUME NEW v \in Validators, v = native[a].voter
             PROVE  BalancesAddUp'
  BY ListedVoter DEF WithdrawStakeAccount, Listed
<1>1. n \in Nat /\ -n \in Int /\ stakes[a].delegated \in Nat
  BY AmountsAssumption DEF TypeInv, TypeOK, StakeRecord
<1>2. /\ stakes'[a].status = "Active" /\ stakes'[a].delegated = stakes[a].delegated - n
      /\ native'[a].voter = v
      /\ \A c \in Accounts \ {a} : stakes'[c] = stakes[c] /\ native'[c].voter = native[c].voter
  BY DEF WithdrawStakeAccount, TypeInv, TypeOK, StakeRecord, NativeStake
<1>3. stakes[a].status = "Active"
  BY DEF WithdrawStakeAccount
<1>4. /\ ActivePart(a)' = ActivePart(a) + (-n)
      /\ DelayedPart(a)' = DelayedPart(a) + 0
      /\ EmergencyPart(a)' = EmergencyPart(a) + 0
  BY <1>1, <1>2, <1>3 DEF ActivePart, DelayedPart, EmergencyPart
<1>5. Belongs(a, v) /\ Belongs(a, v)'
  BY <1>2 DEF Belongs
<1>6. BalanceMoved(v, -n) /\ CoolingMoved(0, 0)
  BY <1>1 DEF WithdrawStakeAccount, BalanceMoved, CoolingMoved, TypeInv, TypeOK, ValidatorRecord
<1> QED BY <1>1, <1>2, <1>4, <1>5, <1>6, OneRecord DEF TypeInv

LEMMA StakeReserveSums ==
  ASSUME TypeInv, TypeInv', BalancesAddUp, NEW v \in Validators, NEW a \in Accounts,
         StakeReserve(v, a)
  PROVE  BalancesAddUp'
<1> DEFINE n == AmountToStake(v)
<1>1. n \in Nat
  BY AmountToStakeType DEF StakeReserve, StakeReserveRun, TypeInv
<1> HIDE DEF n
<1>2. /\ stakes'[a] = NewRecord(n, FALSE, "Active") /\ native'[a].voter = v
      /\ \A c \in Accounts \ {a} : stakes'[c] = stakes[c] /\ native'[c].voter = native[c].voter
  BY DEF StakeReserve, TypeInv, TypeOK, n
<1>3. ActivePart(a) = 0 /\ DelayedPart(a) = 0 /\ EmergencyPart(a) = 0
  BY DEF StakeReserve, Fresh, Listed, ActivePart, DelayedPart, EmergencyPart
<1>4. /\ ActivePart(a)' = ActivePart(a) + n
      /\ DelayedPart(a)' = DelayedPart(a) + 0
      /\ EmergencyPart(a)' = EmergencyPart(a) + 0
  BY <1>1, <1>2, <1>3 DEF ActivePart, DelayedPart, EmergencyPart, NewRecord
<1>5. Belongs(a, v) /\ Belongs(a, v)'
  BY <1>2 DEF StakeReserve, Fresh, Belongs
<1>6. BalanceMoved(v, n) /\ CoolingMoved(0, 0)
  BY <1>1 DEF StakeReserve, BalanceMoved, CoolingMoved, TypeInv, TypeOK, ValidatorRecord, n
<1> QED BY <1>1, <1>2, <1>4, <1>5, <1>6, OneRecord DEF TypeInv

LEMMA UpdateActiveSums ==
  ASSUME TypeInv, TypeInv', BalancesAddUp, NEW a \in Accounts, UpdateActive(a)
  PROVE  BalancesAddUp'
<1> SUFFICES ASSUME NEW v \in Validators, v = native[a].voter
             PROVE  BalancesAddUp'
  BY ListedVoter DEF UpdateActive, Listed
<1> DEFINE new == native[a].stake
<1>1. /\ stakes[a].status = "Active" /\ stakes[a].delegated \in Nat
      /\ new \in Nat /\ new - stakes[a].delegated \in Int
  BY DEF UpdateActive, TypeInv, TypeOK, StakeRecord, NativeStake
<1>2. /\ stakes'[a].status = "Active" /\ stakes'[a].delegated = new /\ native'[a].voter = v
      /\ \A c \in Accounts \ {a} : stakes'[c] = stakes[c] /\ native'[c].voter = native[c].voter
  BY DEF UpdateActive, TypeInv, TypeOK, StakeRecord, NativeStake
<1>3. /\ ActivePart(a)' = ActivePart(a) + (new - stakes[a].delegated)
      /\ DelayedPart(a)' = DelayedPart(a) + 0
      /\ EmergencyPart(a)' = EmergencyPart(a) + 0
  BY <1>1, <1>2 DEF ActivePart, DelayedPart, EmergencyPart
<1>4. Belongs(a, v) /\ Belongs(a, v)'
  BY <1>2 DEF Belongs
<1>5. BalanceMoved(v, new - stakes[a].delegated) /\ CoolingMoved(0, 0)
  BY <1>1 DEF UpdateActive, BalanceMoved, CoolingMoved, TypeInv, TypeOK, ValidatorRecord
<1> HIDE DEF new
<1> QED BY <1>1, <1>2, <1>3, <1>4, <1>5, OneRecord DEF TypeInv

(* A cooled-down stake leaves the counter that its record names. *)
LEMMA UpdateDeactivatedSums ==
  ASSUME TypeInv, TypeInv', BalancesAddUp, NEW a \in Accounts, UpdateDeactivated(a)
  PROVE  BalancesAddUp'
<1> SUFFICES ASSUME NEW v \in Validators, v = native[a].voter
             PROVE  BalancesAddUp'
  BY ListedVoter DEF UpdateDeactivated
<1> DEFINE n == stakes[a].delegated
<1>1. n \in Nat /\ -n \in Int /\ stakes[a].emergency \in BOOLEAN
  BY DEF TypeInv, TypeOK, StakeRecord
<1>2. /\ stakes'[a] = NoRecord
      /\ \A c \in Accounts \ {a} : stakes'[c] = stakes[c] /\ native'[c].voter = native[c].voter
  BY DEF UpdateDeactivated, TypeInv, TypeOK
<1>3. ActivePart(a)' = 0 /\ DelayedPart(a)' = 0 /\ EmergencyPart(a)' = 0
  BY <1>2 DEF ActivePart, DelayedPart, EmergencyPart, NoRecord
<1>4. Belongs(a, v) /\ Belongs(a, v)'
  BY <1>2 DEF Belongs, Listed, NoRecord
<1>5. CASE /\ stakes[a].status = "Active"
           /\ validators' = [validators EXCEPT ![v].active = @ - n]
           /\ totalActiveBalance' = totalActiveBalance - n
           /\ UNCHANGED coolingVars
  <2>1. /\ ActivePart(a)' = ActivePart(a) + (-n)
        /\ DelayedPart(a)' = DelayedPart(a) + 0 /\ EmergencyPart(a)' = EmergencyPart(a) + 0
    BY <1>1, <1>3, <1>5 DEF ActivePart, DelayedPart, EmergencyPart
  <2>2. BalanceMoved(v, -n) /\ CoolingMoved(0, 0)
    BY <1>1, <1>5 DEF BalanceMoved, CoolingMoved, TypeInv, TypeOK, ValidatorRecord
  <2> QED BY <1>1, <1>2, <1>4, <2>1, <2>2, OneRecord DEF TypeInv
<1>6. CASE /\ stakes[a].status = "Deactivating" /\ ~stakes[a].emergency
           /\ delayedUnstakeCoolingDown' = delayedUnstakeCoolingDown - n
           /\ UNCHANGED <<validators, totalActiveBalance, emergencyCoolingDown>>
  <2>1. /\ ActivePart(a)' = ActivePart(a) + 0
        /\ DelayedPart(a)' = DelayedPart(a) + (-n) /\ EmergencyPart(a)' = EmergencyPart(a) + 0
    BY <1>1, <1>3, <1>6 DEF ActivePart, DelayedPart, EmergencyPart
  <2>2. BalanceMoved(v, 0) /\ CoolingMoved(-n, 0)
    BY <1>1, <1>6 DEF BalanceMoved, CoolingMoved, TypeInv, TypeOK, ValidatorRecord
  <2> QED BY <1>1, <1>2, <1>4, <2>1, <2>2, OneRecord DEF TypeInv
<1>7. CASE /\ stakes[a].status = "Deactivating" /\ stakes[a].emergency
           /\ emergencyCoolingDown' = emergencyCoolingDown - n
           /\ UNCHANGED <<validators, totalActiveBalance, delayedUnstakeCoolingDown>>
  <2>1. /\ ActivePart(a)' = ActivePart(a) + 0
        /\ DelayedPart(a)' = DelayedPart(a) + 0 /\ EmergencyPart(a)' = EmergencyPart(a) + (-n)
    BY <1>1, <1>3, <1>7 DEF ActivePart, DelayedPart, EmergencyPart
  <2>2. BalanceMoved(v, 0) /\ CoolingMoved(0, -n)
    BY <1>1, <1>7 DEF BalanceMoved, CoolingMoved, TypeInv, TypeOK, ValidatorRecord
  <2> QED BY <1>1, <1>2, <1>4, <2>1, <2>2, OneRecord DEF TypeInv
<1> QED BY <1>5, <1>6, <1>7, Zenon DEF UpdateDeactivated

(* A deactivation moves n from the balances of validator v to the counter   *)
(* that its mark names, whether the stake goes as a whole or is split.      *)
LEMMA DeactivationSums ==
  ASSUME TypeInv, TypeInv', BalancesAddUp, NEW a \in Accounts, NEW b \in Accounts,
         NEW emergency \in BOOLEAN, NEW n \in Nat,
         NEW v \in Validators, v = native[a].voter, stakes[a].status = "Active",
         \/ n = stakes[a].delegated /\ DeactivateWhole(a, emergency)
         \/ DeactivateSplit(a, b, n, emergency),
         BalanceMoved(v, -n),
         emergency => CoolingMoved(0, n), ~emergency => CoolingMoved(n, 0)
  PROVE  BalancesAddUp'
<1>1. n \in Nat /\ -n \in Int /\ stakes[a].delegated \in Nat
  BY DEF TypeInv, TypeOK, StakeRecord
<1>2. Belongs(a, v)
  BY DEF Belongs
<1>3. CASE n = stakes[a].delegated /\ DeactivateWhole(a, emergency)
  <2>1. /\ stakes'[a].status = "Deactivating" /\ stakes'[a].emergency = emergency
        /\ stakes'[a].delegated = n /\ native'[a].voter = v
        /\ \A c \in Accounts \ {a} :
              stakes'[c] = stakes[c] /\ native'[c].voter = native[c].voter
    <3>1. stakes[a] \in StakeRecord /\ native[a] \in NativeStake
      BY DEF TypeInv, TypeOK
    <3>2. /\ stakes'[a] = [stakes[a] EXCEPT !.status = "Deactivating", !.emergency = emergency]
          /\ native'[a] = [native[a] EXCEPT !.deactivation = epoch]
          /\ \A c \in Accounts \ {a} :
                stakes'[c] = stakes[c] /\ native'[c].voter = native[c].voter
      BY <1>3 DEF DeactivateWhole, TypeInv, TypeOK
    <3> QED BY <1>3, <3>1, <3>2 DEF StakeRecord, NativeStake
  <2>2. Belongs(a, v)'
    BY <2>1 DEF Belongs
  <2>3. /\ ActivePart(a)' = ActivePart(a) + (-n)
        /\ DelayedPart(a)' = DelayedPart(a) + IF emergency THEN 0 ELSE n
        /\ EmergencyPart(a)' = EmergencyPart(a) + IF emergency THEN n ELSE 0
    BY <1>1, <1>3, <2>1 DEF ActivePart, DelayedPart, EmergencyPart
  <2>4. CASE emergency
    BY <1>1, <1>2, <2>1, <2>2, <2>3, <2>4, OneRecord DEF TypeInv
  <2>5. CASE ~emergency
    BY <1>1, <1>2, <2>1, <2>2, <2>3, <2>5, OneRecord DEF TypeInv
  <2> QED BY <2>4, <2>5
<1>4. CASE DeactivateSplit(a, b, n, emergency)
  <2>1. a # b /\ stakes[b].status = "Unknown"
    BY <1>4 DEF DeactivateSplit, Fresh, Listed
  <2>2. /\ stakes'[a].status = "Active" /\ stakes'[a].delegated = stakes[a].delegated - n
        /\ stakes'[b] = NewRecord(n, emergency, "Deactivating")
        /\ native'[a].voter = v /\ native'[b].voter = v
        /\ \A c \in Accounts \ {a, b} :
              stakes'[c] = stakes[c] /\ native'[c].voter = native[c].voter
    BY <1>4, <2>1 DEF DeactivateSplit, TypeInv, TypeOK, StakeRecord, NativeStake
  <2>3. Belongs(b, v) /\ Belongs(a, v)' /\ Belongs(b, v)'
    BY <2>1, <2>2 DEF Belongs, Listed
  <2>4. /\ ActivePart(a)' + ActivePart(b)' = ActivePart(a) + ActivePart(b) + (-n)
        /\ DelayedPart(a)' + DelayedPart(b)'
             = DelayedPart(a) + DelayedPart(b) + IF emergency THEN 0 ELSE n
        /\ EmergencyPart(a)' + EmergencyPart(b)'
             = EmergencyPart(a) + EmergencyPart(b) + IF emergency THEN n ELSE 0
    BY <1>1, <2>1, <2>2 DEF ActivePart, DelayedPart, EmergencyPart, NewRecord
  <2>5. CASE emergency
    BY <1>1, <1>2, <2>1, <2>2, <2>3, <2>4, <2>5, TwoRecords DEF TypeInv
  <2>6. CASE ~emergency
    BY <1>1, <1>2, <2>1, <2>2, <2>3, <2>4, <2>6, TwoRecords DEF TypeInv
  <2> QED BY <2>5, <2>6
<1> QED BY <1>3, <1>4

LEMMA DeactivateStakeSums ==
  ASSUME TypeInv, TypeInv', BalancesAddUp, NEW a \in Accounts, NEW b \in Accounts,
         DeactivateStake(a, b)
  PROVE  BalancesAddUp'
<1> SUFFICES ASSUME NEW v \in Validators, v = native[a].voter
             PROVE  BalancesAddUp'
  BY ListedVoter DEF DeactivateStake, Listed
<1> DEFINE rec   == stakes[a]
           keep  == AmountToKeep(a)
           whole == keep < 2 * MinStake
           n     == IF whole THEN rec.delegated ELSE rec.delegated - keep
<1>1. rec.delegated \in Nat /\ rec.status = "Active"
  BY DEF DeactivateStake, TypeInv, TypeOK, StakeRecord
<1>2. n \in Nat
  <2>1. keep \in 0 .. rec.delegated
    BY AmountToKeepType DEF DeactivateStake
  <2> HIDE DEF keep
  <2> QED BY <1>1, <2>1
<1>3. /\ \/ whole /\ DeactivateWhole(a, FALSE)
         \/ ~whole /\ DeactivateSplit(a, b, n, FALSE)
      /\ validators' = [validators EXCEPT ![v].active = @ - n,
                                          ![v].lastDelta = IF whole THEN @ ELSE epoch]
      /\ totalActiveBalance' = totalActiveBalance - n
      /\ delayedUnstakeCoolingDown' = delayedUnstakeCoolingDown + n
      /\ emergencyCoolingDown' = emergencyCoolingDown
  BY Zenon DEF DeactivateStake
<1>4. whole => n = stakes[a].delegated
  OBVIOUS
<1> HIDE DEF n, whole, rec
<1>5. BalanceMoved(v, -n)
  <2> DEFINE last == IF whole THEN validators[v].lastDelta ELSE epoch
             new == [validators[v] EXCEPT !.active = @ - n, !.lastDelta = last]
  <2>1. validators' = [validators EXCEPT ![v] = new]
    BY <1>3, Zenon DEF TypeInv, TypeOK
  <2>2. new.active = validators[v].active - n
    BY Zenon DEF TypeInv, TypeOK, ValidatorRecord
  <2> HIDE DEF new
  <2>3. /\ validators'[v].active = validators[v].active - n
        /\ \A w \in Validators \ {v} : validators'[w].active = validators[w].active
    BY <2>1, <2>2 DEF TypeInv, TypeOK
  <2> QED BY <1>2, <1>3, <2>3 DEF BalanceMoved, TypeInv, TypeOK, ValidatorRecord
<1>6. CoolingMoved(n, 0) /\ FALSE \in BOOLEAN
  BY <1>3 DEF CoolingMoved, TypeInv, TypeOK
<1> QED BY <1>1, <1>2, <1>3, <1>4, <1>5, <1>6, DeactivationSums DEF rec

LEMMA MoveToEmergencySums ==
  ASSUME TypeInv, NEW v \in Validators, NEW n \in Nat, MoveToEmergency(v, n)
  PROVE  BalanceMoved(v, -n) /\ CoolingMoved(0, n)
BY DEF MoveToEmergency, BalanceMoved, CoolingMoved, TypeInv, TypeOK, ValidatorRecord

LEMMA EmergencyUnstakeSums ==
  ASSUME TypeInv, TypeInv', BalancesAddUp, NEW a \in Accounts, EmergencyUnstake(a)
  PROVE  BalancesAddUp'
<1> SUFFICES ASSUME NEW v \in Validators, v = native[a].voter
             PROVE  BalancesAddUp'
  BY ListedVoter DEF EmergencyUnstake, Listed
<1>1. /\ stakes[a].delegated \in Nat /\ stakes[a].status = "Active"
      /\ DeactivateWhole(a, TRUE) /\ MoveToEmergency(v, stakes[a].delegated)
      /\ TRUE \in BOOLEAN
  BY DEF EmergencyUnstake, TypeInv, TypeOK, StakeRecord
<1>2. BalanceMoved(v, -stakes[a].delegated) /\ CoolingMoved(0, stakes[a].delegated)
  BY <1>1, MoveToEmergencySums
<1> QED BY <1>1, <1>2, DeactivationSums

LEMMA PartialUnstakeSums ==
  ASSUME TypeInv, TypeInv', BalancesAddUp, NEW a \in Accounts, NEW b \in Accounts,
         NEW desired \in Unstakes, PartialUnstake(a, b, desired)
  PROVE  BalancesAddUp'
<1> SUFFICES ASSUME NEW v \in Validators, v = native[a].voter
             PROVE  BalancesAddUp'
  BY ListedVoter DEF PartialUnstake, Listed
<1> DEFINE n     == PartialAmount(v, desired)
           whole == SatSub(stakes[a].delegated, n) < MinStake
           m     == IF whole THEN stakes[a].delegated ELSE n
<1>1. stakes[a].delegated \in Nat /\ stakes[a].status = "Active"
  BY DEF PartialUnstake, TypeInv, TypeOK, StakeRecord
<1>2. n \in Nat
  <2> DEFINE target == ValidatorStakeTarget(v, totalActiveBalance + StakeDelta)
  <2>1. totalActiveBalance + StakeDelta \in Nat
    BY StakeDeltaType DEF PartialUnstake, TypeInv, TypeOK
  <2>2. target \in Nat /\ validators[v].active \in Nat /\ desired \in Nat
    BY <2>1, ValidatorStakeTargetType, AmountsAssumption DEF TypeInv, TypeOK, ValidatorRecord
  <2>3. validators[v].active > target + MinStake
    BY DEF PartialUnstake
  <2> HIDE DEF target
  <2>4. MinOf(desired, validators[v].active - target) \in Nat
    BY <2>2, <2>3, AmountsAssumption DEF MinOf
  <2> QED BY <2>4 DEF PartialAmount, target
<1>3. /\ \/ whole /\ DeactivateWhole(a, TRUE)
         \/ ~whole /\ DeactivateSplit(a, b, n, TRUE)
      /\ MoveToEmergency(v, m)
  BY Zenon DEF PartialUnstake
<1> HIDE DEF n
<1>4. m \in Nat /\ (whole => m = stakes[a].delegated) /\ (~whole => m = n)
  BY <1>1, <1>2
<1> HIDE DEF whole, m
<1>5. BalanceMoved(v, -m) /\ CoolingMoved(0, m) /\ TRUE \in BOOLEAN
  BY <1>3, <1>4, MoveToEmergencySums
<1>6. \/ m = stakes[a].delegated /\ DeactivateWhole(a, TRUE)
      \/ DeactivateSplit(a, b, m, TRUE)
  BY <1>3, <1>4
<1> QED BY <1>1, <1>4, <1>5, <1>6, DeactivationSums

(* The canonical account takes over the record and the validator of s. *)
LEMMA CreateCanonicalStakeSums ==
  ASSUME TypeInv, TypeInv', BalancesAddUp, NEW v \in Validators, NEW s \in Accounts,
         CreateCanonicalStake(v, s)
  PROVE  BalancesAddUp'
<1> DEFINE c == Canonical[v]
<1>1. /\ c \in Accounts /\ c # s /\ stakes[s].delegated \in Nat
      /\ stakes[c].status = "Unknown"
  BY SetsAssumption
  DEF CreateCanonicalStake, MovableStake, Listed, TypeInv, TypeOK, StakeRecord
<1>2. /\ Listed(s) /\ native[s].voter = v /\ native[s].deactivation = Never
      /\ native[s].stake = stakes[s].delegated
  BY DEF CreateCanonicalStake, MovableStake
<1>3. stakes[s].status = "Active" /\ ~stakes[s].emergency
  BY <1>2 DEF TypeInv, StatusAgreesWithNative, RecordAgrees, Listed, TypeOK, StakeRecord
<1>4. /\ stakes'[c] = NewRecord(stakes[s].delegated, FALSE, "Active")
      /\ stakes'[s] = NoRecord /\ native'[c].voter = v
      /\ \A d \in Accounts \ {c, s} :
            stakes'[d] = stakes[d] /\ native'[d].voter = native[d].voter
  BY <1>1, <1>2 DEF CreateCanonicalStake, TypeInv, TypeOK
<1>5. BalanceMoved(v, 0) /\ CoolingMoved(0, 0)
  BY DEF CreateCanonicalStake, BalanceMoved, CoolingMoved, TypeInv, TypeOK, ValidatorRecord
<1> HIDE DEF c
<1> SUFFICES ASSUME NEW d \in Accounts, d = c
             PROVE  BalancesAddUp'
  BY <1>1
<1>6. Belongs(d, v) /\ Belongs(s, v) /\ Belongs(d, v)' /\ Belongs(s, v)'
  BY <1>1, <1>2, <1>4 DEF Belongs, Listed, NoRecord
<1>7. /\ ActivePart(d)' + ActivePart(s)' = ActivePart(d) + ActivePart(s) + 0
      /\ DelayedPart(d)' + DelayedPart(s)' = DelayedPart(d) + DelayedPart(s) + 0
      /\ EmergencyPart(d)' + EmergencyPart(s)' = EmergencyPart(d) + EmergencyPart(s) + 0
  BY <1>1, <1>3, <1>4 DEF ActivePart, DelayedPart, EmergencyPart, NewRecord, NoRecord
<1> QED BY <1>1, <1>4, <1>5, <1>6, <1>7, TwoRecords DEF TypeInv

LEMMA MergeStakesSums ==
  ASSUME TypeInv, TypeInv', BalancesAddUp, NEW v \in Validators, NEW s \in Accounts,
         MergeStakes(v, s)
  PROVE  BalancesAddUp'
<1> SUFFICES ASSUME NEW c \in Accounts, c = Canonical[v]
             PROVE  BalancesAddUp'
  BY SetsAssumption
<1> DEFINE extra == IF native[c].activation = epoch THEN StakeRent ELSE 0
<1>1. /\ c # s /\ extra \in Nat
      /\ stakes[c].delegated \in Nat /\ stakes[s].delegated \in Nat
      /\ stakes[c].status = "Active" /\ stakes[s].status = "Active"
      /\ native[c].voter = v /\ native[s].voter = v
  BY AmountsAssumption DEF MergeStakes, MovableStake, TypeInv, TypeOK, StakeRecord
<1>2. /\ stakes' = [stakes EXCEPT ![c].delegated = @ + stakes[s].delegated + extra,
                                  ![s] = NoRecord]
      /\ native' = [native EXCEPT ![c].stake = @ + native[s].stake + extra,
                                  ![s] = NoAccount]
      /\ validators' = [validators EXCEPT ![v].active = @ + extra]
      /\ totalActiveBalance' = totalActiveBalance + extra
      /\ UNCHANGED coolingVars
  BY DEF MergeStakes
<1> HIDE DEF extra
<1>3. /\ stakes'[c].status = "Active"
      /\ stakes'[c].delegated = stakes[c].delegated + stakes[s].delegated + extra
      /\ stakes'[s] = NoRecord /\ native'[c].voter = v
      /\ \A d \in Accounts \ {c, s} :
            stakes'[d] = stakes[d] /\ native'[d].voter = native[d].voter
  BY <1>1, <1>2 DEF TypeInv, TypeOK, StakeRecord, NativeStake
<1>4. BalanceMoved(v, extra) /\ CoolingMoved(0, 0)
  BY <1>1, <1>2 DEF BalanceMoved, CoolingMoved, TypeInv, TypeOK, ValidatorRecord
<1>5. Belongs(c, v) /\ Belongs(s, v) /\ Belongs(c, v)' /\ Belongs(s, v)'
  BY <1>1, <1>3 DEF Belongs, Listed, NoRecord
<1>6. /\ ActivePart(c)' + ActivePart(s)' = ActivePart(c) + ActivePart(s) + extra
      /\ DelayedPart(c)' + DelayedPart(s)' = DelayedPart(c) + DelayedPart(s) + 0
      /\ EmergencyPart(c)' + EmergencyPart(s)' = EmergencyPart(c) + EmergencyPart(s) + 0
  BY <1>1, <1>3 DEF ActivePart, DelayedPart, EmergencyPart, NoRecord
<1> QED BY <1>1, <1>3, <1>4, <1>5, <1>6, TwoRecords DEF TypeInv
-----------------------------------------------------------------------------
(* The steps that move no stake. *)

LEMMA ValidatorListSums ==
  ASSUME TypeInv, BalancesAddUp, NEW v \in Validators,
         \/ \E score \in Scores : AddValidator(v, score) \/ SetValidatorScore(v, score)
         \/ RemoveValidator(v)
  PROVE  BalancesAddUp'
<1>1. UNCHANGED <<stakes, native, balanceVars>>
  BY DEF AddValidator, SetValidatorScore, RemoveValidator
<1>2. ~validators[v].listed => validators[v].active = 0
  BY DEF TypeInv, StatusAgreesWithNative, NoValidator
<1>3. \A w \in Validators : validators'[w].active = validators[w].active
  BY <1>2 DEF AddValidator, SetValidatorScore, RemoveValidator, NoValidator,
              TypeInv, TypeOK, ValidatorRecord
<1> QED BY <1>1, <1>3, NoPartMoves

LEMMA ChainStepSums ==
  ASSUME TypeInv, BalancesAddUp, ChainStep
  PROVE  BalancesAddUp'
<1>1. UNCHANGED <<stakes, validators, balanceVars>>
  BY DEF ChainStep, AdvancePhase, AdvanceEpoch, Reward, Slash, Tip, Donate,
         DeactivateDelinquent
<1>2. \A a \in Accounts : native'[a].voter = native[a].voter
  BY DEF ChainStep, AdvancePhase, AdvanceEpoch, Reward, Slash, Tip, Donate,
         DeactivateDelinquent, TypeInv, TypeOK, NativeStake
<1> QED BY <1>1, <1>2, NoPartMoves

LEMMA NextBalances ==
  ASSUME TypeInv, TypeInv', BalancesAddUp, [Next]_vars
  PROVE  BalancesAddUp'
<1>1. CASE UserStep
  <2>1. CASE \/ \E n \in Deposits : Deposit(n)
             \/ \E t \in Tickets, n \in Orders : OrderUnstake(t, n)
             \/ \E t \in Tickets : Claim(t)
    BY <2>1, NoPartMoves DEF Deposit, OrderUnstake, Claim
  <2> QED BY <1>1, <2>1, DepositStakeAccountSums, WithdrawStakeAccountSums DEF UserStep
<1>2. CASE CrankStep
  <2>1. CASE \E v \in Validators : StakeReserveNothing(v)
    BY <2>1, NoPartMoves DEF StakeReserveNothing
  <2> QED BY <1>2, <2>1, StakeReserveSums, DeactivateStakeSums, UpdateActiveSums,
             UpdateDeactivatedSums, CreateCanonicalStakeSums, MergeStakesSums DEF CrankStep
<1>3. CASE ManagerStep
  <2>1. CASE \E runs \in ExtraRuns : ConfigValidatorSystem(runs)
    BY <2>1, NoPartMoves DEF ConfigValidatorSystem
  <2> QED BY <1>3, <2>1, ValidatorListSums, EmergencyUnstakeSums, PartialUnstakeSums
          DEF ManagerStep
<1>4. CASE PauseStep
  BY <1>4, NoPartMoves DEF PauseStep, Pause, Resume
<1>5. CASE ChainStep
  BY <1>5, ChainStepSums
<1>6. CASE UNCHANGED vars
  BY <1>6, NoPartMoves DEF vars
<1> QED BY <1>1, <1>2, <1>3, <1>4, <1>5, <1>6 DEF Next

LEMMA InitBalances == Init => BalancesAddUp
<1> SUFFICES ASSUME Init PROVE BalancesAddUp
  OBVIOUS
<1>1. \A w \in Validators : Total(Accounts, ActiveStake(w)) = 0
  <2> TAKE w \in Validators
  <2>1. \A a \in Accounts : ActiveStake(w)[a] = 0
    BY DEF Init, ActiveStake, NoRecord
  <2> QED BY <2>1, TotalZero
<1>2. Total(Accounts, DelayedStake) = 0 /\ Total(Accounts, EmergencyStake) = 0
  <2>1. \A a \in Accounts : DelayedStake[a] = 0 /\ EmergencyStake[a] = 0
    BY DEF Init, DelayedStake, EmergencyStake, NoRecord
  <2> QED BY <2>1, TotalZero
<1>3. Total(Validators, ActiveBalance) = 0
  <2>1. \A w \in Validators : ActiveBalance[w] = 0
    BY DEF Init, ActiveBalance, NoValidator
  <2> QED BY <2>1, TotalZero
<1>4. Total(Accounts, RecordedStake) = 0
  <2>1. \A a \in Accounts : RecordedStake[a] = 0
    BY DEF Init, RecordedStake, NoRecord
  <2> QED BY <2>1, TotalZero
<1> QED BY <1>1, <1>2, <1>3, <1>4
     DEF Init, NoValidator, BalancesAddUp, ActiveBalancesAddUp, CoolingBalancesAddUp,
         RecordsAddUp
-----------------------------------------------------------------------------
(* The other sums. *)

(* Only the manager's instructions on the validator list touch a score; the *)
(* other instructions change other fields of a validator's record.          *)
ScoresKept ==
  /\ UNCHANGED totalValidatorScore
  /\ \A w \in Validators : validators'[w].score = validators[w].score

LEMMA UserStepScores ==
  ASSUME TypeInv, UserStep
  PROVE  ScoresKept
<1>1. ASSUME NEW a \in Accounts, NEW v \in Validators, NEW n \in StakeDeposits,
             NEW e \in 0 .. MaxEpoch, DepositStakeAccount(a, v, n, e)
      PROVE  ScoresKept
  BY <1>1 DEF DepositStakeAccount, ScoresKept, TypeInv, TypeOK, ValidatorRecord
<1>2. ASSUME NEW a \in Accounts, NEW n \in Withdrawals, WithdrawStakeAccount(a, n)
      PROVE  ScoresKept
  BY <1>2 DEF WithdrawStakeAccount, ScoresKept, TypeInv, TypeOK, ValidatorRecord
<1>3. CASE \/ \E n \in Deposits : Deposit(n)
           \/ \E t \in Tickets, n \in Orders : OrderUnstake(t, n)
           \/ \E t \in Tickets : Claim(t)
  BY <1>3 DEF Deposit, OrderUnstake, Claim, ScoresKept
<1> QED BY <1>1, <1>2, <1>3 DEF UserStep

LEMMA CrankStepScores ==
  ASSUME TypeInv, CrankStep
  PROVE  ScoresKept
<1>1. ASSUME NEW v \in Validators, NEW a \in Accounts, StakeReserve(v, a)
      PROVE  ScoresKept
  BY <1>1 DEF StakeReserve, ScoresKept, TypeInv, TypeOK, ValidatorRecord
<1>2. ASSUME NEW a \in Accounts, NEW b \in Accounts, DeactivateStake(a, b)
      PROVE  ScoresKept
  BY <1>2 DEF DeactivateStake, ScoresKept, TypeInv, TypeOK, ValidatorRecord
<1>3. ASSUME NEW a \in Accounts, UpdateActive(a)
      PROVE  ScoresKept
  BY <1>3 DEF UpdateActive, ScoresKept, TypeInv, TypeOK, ValidatorRecord
<1>4. ASSUME NEW a \in Accounts, UpdateDeactivated(a)
      PROVE  ScoresKept
  BY <1>4 DEF UpdateDeactivated, ScoresKept, TypeInv, TypeOK, ValidatorRecord
<1>5. ASSUME NEW v \in Validators, NEW s \in Accounts, MergeStakes(v, s)
      PROVE  ScoresKept
  BY <1>5 DEF MergeStakes, ScoresKept, TypeInv, TypeOK, ValidatorRecord
<1>6. CASE \/ \E v \in Validators : StakeReserveNothing(v)
           \/ \E v \in Validators, s \in Accounts : CreateCanonicalStake(v, s)
  BY <1>6 DEF StakeReserveNothing, CreateCanonicalStake, ScoresKept
<1> QED BY <1>1, <1>2, <1>3, <1>4, <1>5, <1>6 DEF CrankStep

LEMMA MoveStepScores ==
  ASSUME TypeInv,
         \/ \E runs \in ExtraRuns : ConfigValidatorSystem(runs)
         \/ \E a \in Accounts : EmergencyUnstake(a)
         \/ \E a, b \in Accounts, n \in Unstakes : PartialUnstake(a, b, n)
  PROVE  ScoresKept
<1>1. ASSUME NEW v, NEW n, MoveToEmergency(v, n)
      PROVE  ScoresKept
  BY <1>1 DEF MoveToEmergency, ScoresKept, TypeInv, TypeOK, ValidatorRecord
<1>2. CASE \E runs \in ExtraRuns : ConfigValidatorSystem(runs)
  BY <1>2 DEF ConfigValidatorSystem, ScoresKept
<1>3. CASE \E a \in Accounts : EmergencyUnstake(a)
  BY <1>1, <1>3 DEF EmergencyUnstake
<1>4. ASSUME NEW a \in Accounts, NEW b \in Accounts, NEW n \in Unstakes,
             PartialUnstake(a, b, n)
      PROVE  ScoresKept
  BY <1>1, <1>4, Zenon DEF PartialUnstake
<1> QED BY <1>2, <1>3, <1>4

LEMMA NextScores ==
  ASSUME TypeInv, ScoresAddUp, [Next]_vars
  PROVE  ScoresAddUp'
<1>1. IsFiniteSet(Validators) /\ totalValidatorScore \in Nat
  BY SetsAssumption DEF TypeInv, TypeOK
<1>2. ASSUME UNCHANGED totalValidatorScore,
             \A w \in Validators : validators'[w].score = validators[w].score
      PROVE  ScoresAddUp'
  <2>1. \A w \in Validators : Score'[w] = Score[w]
    BY <1>2 DEF Score
  <2>2. Total(Validators, Score') = Total(Validators, Score)
    BY <2>1, TotalSame
  <2> QED BY <1>2, <2>2 DEF ScoresAddUp
<1>3. ASSUME NEW v \in Validators, NEW n \in Nat,
             validators'[v].score = n,
             \A w \in Validators \ {v} : validators'[w].score = validators[w].score,
             totalValidatorScore' = totalValidatorScore - validators[v].score + n
      PROVE  ScoresAddUp'
  <2>1. /\ \A w \in Validators : Score[w] \in Nat /\ Score'[w] \in Nat
        /\ \A w \in Validators \ {v} : Score'[w] = Score[w]
        /\ Score[v] = validators[v].score /\ Score'[v] = n
    BY <1>3 DEF Score, TypeInv, TypeOK, ValidatorRecord
  <2>2. Total(Validators, Score') = Total(Validators, Score) + Score'[v] - Score[v]
    BY <1>1, <2>1, TotalChange
  <2> QED BY <1>1, <1>3, <2>1, <2>2 DEF ScoresAddUp
<1>4. CASE UserStep
  BY <1>2, <1>4, UserStepScores DEF ScoresKept
<1>5. CASE CrankStep
  BY <1>2, <1>5, CrankStepScores DEF ScoresKept
<1>6. CASE ManagerStep
  <2>1. ASSUME NEW v \in Validators, NEW score \in Scores, AddValidator(v, score)
        PROVE  ScoresAddUp'
    <3>1. score \in Nat /\ validators[v].score = 0
      BY <2>1, AmountsAssumption
      DEF AddValidator, TypeInv, StatusAgreesWithNative, NoValidator
    <3>2. /\ validators'[v].score = score
          /\ \A w \in Validators \ {v} : validators'[w].score = validators[w].score
          /\ totalValidatorScore' = totalValidatorScore - validators[v].score + score
      BY <1>1, <2>1, <3>1 DEF AddValidator, TypeInv, TypeOK
    <3> QED BY <1>3, <3>1, <3>2
  <2>2. ASSUME NEW v \in Validators, RemoveValidator(v)
        PROVE  ScoresAddUp'
    <3>1. /\ validators'[v].score = 0
          /\ \A w \in Validators \ {v} : validators'[w].score = validators[w].score
          /\ totalValidatorScore' = totalValidatorScore - validators[v].score + 0
      BY <1>1, <2>2 DEF RemoveValidator, NoValidator, TypeInv, TypeOK, ValidatorRecord
    <3> QED BY <1>3, <3>1
  <2>3. ASSUME NEW v \in Validators, NEW score \in Scores, SetValidatorScore(v, score)
        PROVE  ScoresAddUp'
    <3>1. /\ score \in Nat /\ validators'[v].score = score
          /\ \A w \in Validators \ {v} : validators'[w].score = validators[w].score
          /\ totalValidatorScore' = totalValidatorScore - validators[v].score + score
      BY <2>3, AmountsAssumption DEF SetValidatorScore, TypeInv, TypeOK, ValidatorRecord
    <3> QED BY <1>3, <3>1
  <2>4. CASE \/ \E runs \in ExtraRuns : ConfigValidatorSystem(runs)
             \/ \E a \in Accounts : EmergencyUnstake(a)
             \/ \E a, b \in Accounts, n \in Unstakes : PartialUnstake(a, b, n)
    BY <1>2, <2>4, MoveStepScores DEF ScoresKept
  <2> QED BY <1>6, <2>1, <2>2, <2>3, <2>4 DEF ManagerStep
<1>7. CASE PauseStep \/ ChainStep \/ UNCHANGED vars
  BY <1>2, <1>7
  DEF PauseStep, Pause, Resume, ChainStep, AdvancePhase, AdvanceEpoch, Reward, Slash, Tip,
      Donate, DeactivateDelinquent, vars
<1> QED BY <1>4, <1>5, <1>6, <1>7 DEF Next

LEMMA InitScores == Init => ScoresAddUp
<1> SUFFICES ASSUME Init PROVE ScoresAddUp
  OBVIOUS
<1>1. \A w \in Validators : Score[w] = 0
  BY DEF Init, Score, NoValidator
<1> QED BY <1>1, TotalZero DEF Init, ScoresAddUp

(* Only an order and a claim touch a ticket or the totals of the tickets.   *)
LEMMA OrderUnstakeTickets ==
  ASSUME TypeInv, TicketsAddUp, NEW t \in Tickets, NEW n \in Orders, OrderUnstake(t, n)
  PROVE  TicketsAddUp'
<1> DEFINE S == {u \in Tickets : tickets[u].lamports # 0}
<1>1. n \in Nat /\ n # 0 /\ tickets[t].lamports = 0
  BY AmountsAssumption DEF OrderUnstake
<1>2. /\ tickets'[t].lamports = n
      /\ \A u \in Tickets \ {t} : tickets'[u] = tickets[u]
      /\ circulatingTicketBalance' = circulatingTicketBalance + n
      /\ circulatingTicketCount' = circulatingTicketCount + 1
  BY DEF OrderUnstake, TypeInv, TypeOK
<1>3. circulatingTicketBalance' = Total(Tickets, TicketLamports')
  <2>1. /\ \A u \in Tickets : TicketLamports[u] \in Nat /\ TicketLamports'[u] \in Nat
        /\ \A u \in Tickets \ {t} : TicketLamports'[u] = TicketLamports[u]
        /\ TicketLamports[t] = 0 /\ TicketLamports'[t] = n
    BY <1>1, <1>2 DEF TicketLamports, TypeInv, TypeOK, Ticket
  <2>2. Total(Tickets, TicketLamports')
          = Total(Tickets, TicketLamports) + TicketLamports'[t] - TicketLamports[t]
    BY <2>1, SetsAssumption, TotalChange
  <2> QED BY <1>1, <1>2, <2>1, <2>2 DEF TicketsAddUp, TypeInv, TypeOK
<1>4. circulatingTicketCount' = Cardinality({u \in Tickets : tickets'[u].lamports # 0})
  <2>1. {u \in Tickets : tickets'[u].lamports # 0} = S \cup {t} /\ t \notin S
    BY <1>1, <1>2
  <2>2. IsFiniteSet(S)
    BY SetsAssumption, FS_Subset
  <2>3. Cardinality(S \cup {t}) = Cardinality(S) + 1
    BY <2>1, <2>2, FS_AddElement
  <2> QED BY <1>2, <2>1, <2>3 DEF TicketsAddUp
<1> QED BY <1>3, <1>4 DEF TicketsAddUp

LEMMA ClaimTickets ==
  ASSUME TypeInv, TicketsAddUp, NEW t \in Tickets, Claim(t)
  PROVE  TicketsAddUp'
<1> DEFINE S == {u \in Tickets : tickets[u].lamports # 0}
           n == tickets[t].lamports
<1>1. n \in Nat /\ n # 0
  BY DEF Claim, Payable, Due, TypeInv, TypeOK, Ticket
<1>2. /\ tickets'[t].lamports = 0
      /\ \A u \in Tickets \ {t} : tickets'[u] = tickets[u]
      /\ circulatingTicketBalance' = circulatingTicketBalance - n
      /\ circulatingTicketCount' = circulatingTicketCount - 1
  BY DEF Claim, NoTicket, TypeInv, TypeOK
<1>3. circulatingTicketBalance' = Total(Tickets, TicketLamports')
  <2>1. /\ \A u \in Tickets : TicketLamports[u] \in Nat /\ TicketLamports'[u] \in Nat
        /\ \A u \in Tickets \ {t} : TicketLamports'[u] = TicketLamports[u]
        /\ TicketLamports[t] = n /\ TicketLamports'[t] = 0
    BY <1>1, <1>2 DEF TicketLamports, TypeInv, TypeOK, Ticket
  <2>2. Total(Tickets, TicketLamports')
          = Total(Tickets, TicketLamports) + TicketLamports'[t] - TicketLamports[t]
    BY <2>1, SetsAssumption, TotalChange
  <2> QED BY <1>1, <1>2, <2>1, <2>2 DEF TicketsAddUp, TypeInv, TypeOK
<1>4. circulatingTicketCount' = Cardinality({u \in Tickets : tickets'[u].lamports # 0})
  <2>1. {u \in Tickets : tickets'[u].lamports # 0} = S \ {t} /\ t \in S
    BY <1>1, <1>2
  <2>2. IsFiniteSet(S)
    BY SetsAssumption, FS_Subset
  <2>3. Cardinality(S \ {t}) = Cardinality(S) - 1
    BY <2>1, <2>2, FS_RemoveElement
  <2> QED BY <1>2, <2>1, <2>3 DEF TicketsAddUp
<1> QED BY <1>3, <1>4 DEF TicketsAddUp

LEMMA NextTickets ==
  ASSUME TypeInv, TicketsAddUp, [Next]_vars
  PROVE  TicketsAddUp'
<1>1. CASE UNCHANGED ticketVars
  <2>1. TicketLamports' = TicketLamports
    BY <1>1 DEF TicketLamports
  <2> QED BY <1>1, <2>1 DEF TicketsAddUp
<1>2. CASE UserStep
  <2>1. ASSUME NEW t \in Tickets, NEW n \in Orders, OrderUnstake(t, n)
        PROVE  TicketsAddUp'
    BY <2>1, OrderUnstakeTickets
  <2>2. ASSUME NEW t \in Tickets, Claim(t)
        PROVE  TicketsAddUp'
    BY <2>2, ClaimTickets
  <2>3. CASE \/ \E n \in Deposits : Deposit(n)
             \/ \E a \in Accounts, v \in Validators, n \in StakeDeposits, e \in 0 .. MaxEpoch :
                  DepositStakeAccount(a, v, n, e)
             \/ \E a \in Accounts, n \in Withdrawals : WithdrawStakeAccount(a, n)
    <3>1. UNCHANGED ticketVars
      BY <2>3, ZenonT(90) DEF Deposit, DepositStakeAccount, WithdrawStakeAccount
    <3> QED BY <1>1, <3>1
  <2> QED BY <1>2, <2>1, <2>2, <2>3, Zenon DEF UserStep
<1>3. CASE CrankStep
  <2>1. UNCHANGED ticketVars
    BY <1>3, ZenonT(90)
    DEF CrankStep, StakeReserve, StakeReserveNothing, DeactivateStake, UpdateActive,
        UpdateDeactivated, CreateCanonicalStake, MergeStakes
  <2> QED BY <1>1, <2>1
<1>4. CASE ManagerStep
  <2>1. UNCHANGED ticketVars
    BY <1>4, ZenonT(90)
    DEF ManagerStep, AddValidator, RemoveValidator, SetValidatorScore,
        ConfigValidatorSystem, EmergencyUnstake, PartialUnstake, MoveToEmergency
  <2> QED BY <1>1, <2>1
<1>5. CASE PauseStep \/ ChainStep \/ UNCHANGED vars
  BY <1>1, <1>5
  DEF PauseStep, Pause, Resume, ChainStep, AdvancePhase, AdvanceEpoch, Reward, Slash, Tip,
      Donate, DeactivateDelinquent, vars
<1> QED BY <1>2, <1>3, <1>4, <1>5 DEF Next

LEMMA InitTickets == Init => TicketsAddUp
<1> SUFFICES ASSUME Init PROVE TicketsAddUp
  OBVIOUS
<1>1. \A t \in Tickets : TicketLamports[t] = 0
  BY DEF Init, TicketLamports, NoTicket
<1>2. {t \in Tickets : tickets[t].lamports # 0} = {}
  BY DEF Init, NoTicket
<1> QED BY <1>1, <1>2, TotalZero, FS_EmptySet DEF Init, TicketsAddUp

(* The instructions that take from one of the two reserve balances take the *)
(* same from the other; the update crank makes them equal.                  *)
LEMMA UserStepReserve ==
  ASSUME TypeInv, ReserveBacked, UserStep
  PROVE  ReserveBacked'
<1>1. ASSUME NEW n \in Deposits, Deposit(n)
      PROVE  ReserveBacked'
  BY <1>1, AmountsAssumption DEF Deposit, ReserveBacked, TypeInv, TypeOK
<1>2. ASSUME NEW t \in Tickets, Claim(t)
      PROVE  ReserveBacked'
  <2>1. tickets[t].lamports \in Nat
    BY DEF TypeInv, TypeOK, Ticket
  <2>2. /\ reserveBalance' = reserveBalance - tickets[t].lamports
        /\ availableReserveBalance' = availableReserveBalance - tickets[t].lamports
    BY <1>2 DEF Claim
  <2> QED BY <2>1, <2>2 DEF ReserveBacked, TypeInv, TypeOK
<1>3. CASE \/ \E a \in Accounts, v \in Validators, n \in StakeDeposits, e \in 0 .. MaxEpoch :
                DepositStakeAccount(a, v, n, e)
           \/ \E a \in Accounts, n \in Withdrawals : WithdrawStakeAccount(a, n)
           \/ \E t \in Tickets, n \in Orders : OrderUnstake(t, n)
  <2>1. UNCHANGED reserveVars
    BY <1>3, ZenonT(90) DEF DepositStakeAccount, WithdrawStakeAccount, OrderUnstake
  <2> QED BY <2>1 DEF ReserveBacked
<1> QED BY <1>1, <1>2, <1>3, Zenon DEF UserStep

LEMMA CrankStepReserve ==
  ASSUME TypeInv, ReserveBacked, CrankStep
  PROVE  ReserveBacked'
<1>1. ASSUME NEW v \in Validators, NEW a \in Accounts, StakeReserve(v, a)
      PROVE  ReserveBacked'
  <2>1. AmountToStake(v) \in Nat
    BY <1>1, AmountToStakeType DEF StakeReserve, StakeReserveRun, TypeInv
  <2>2. /\ reserveBalance' = reserveBalance - AmountToStake(v)
        /\ availableReserveBalance' = availableReserveBalance - AmountToStake(v)
    BY <1>1 DEF StakeReserve
  <2> QED BY <2>1, <2>2 DEF ReserveBacked, TypeInv, TypeOK
<1>2. ASSUME NEW a \in Accounts, UpdateActive(a) \/ UpdateDeactivated(a)
      PROVE  ReserveBacked'
  <2>1. availableReserveBalance' = reserveBalance'
    BY <1>2 DEF UpdateActive, UpdateDeactivated, WithdrawToReserve
  <2>2. TypeOK'
    BY <1>2, UpdateActiveType, UpdateDeactivatedType DEF TypeInv
  <2> QED BY <2>1, <2>2 DEF ReserveBacked, TypeOK
<1>3. CASE \/ \E v \in Validators : StakeReserveNothing(v)
           \/ \E a, b \in Accounts : DeactivateStake(a, b)
           \/ \E v \in Validators, s \in Accounts : CreateCanonicalStake(v, s)
           \/ \E v \in Validators, s \in Accounts : MergeStakes(v, s)
  <2>1. UNCHANGED reserveVars
    BY <1>3, ZenonT(90)
    DEF StakeReserveNothing, DeactivateStake, CreateCanonicalStake, MergeStakes
  <2> QED BY <2>1 DEF ReserveBacked
<1> QED BY <1>1, <1>2, <1>3, Zenon DEF CrankStep

LEMMA NextReserve ==
  ASSUME TypeInv, ReserveBacked, [Next]_vars
  PROVE  ReserveBacked'
<1>1. ASSUME NEW n \in Donations, Donate(n)
      PROVE  ReserveBacked'
  BY <1>1, AmountsAssumption DEF Donate, ReserveBacked, TypeInv, TypeOK
<1>2. CASE ManagerStep
  <2>1. UNCHANGED reserveVars
    BY <1>2, ZenonT(90)
    DEF ManagerStep, AddValidator, RemoveValidator, SetValidatorScore,
        ConfigValidatorSystem, EmergencyUnstake, PartialUnstake, MoveToEmergency
  <2> QED BY <2>1 DEF ReserveBacked
<1>3. CASE PauseStep \/ ChainStep \/ UNCHANGED vars
  BY <1>1, <1>3
  DEF PauseStep, Pause, Resume, ChainStep, AdvancePhase, AdvanceEpoch, Reward, Slash, Tip,
      DeactivateDelinquent, ReserveBacked, vars
<1> QED BY <1>2, <1>3, UserStepReserve, CrankStepReserve DEF Next

LEMMA InitReserve == Init => ReserveBacked
BY DEF Init, ReserveBacked
-----------------------------------------------------------------------------
(* What an instruction needs of the state it finds, and leaves behind. *)
SumsInv == TypeInv /\ BalancesAddUp /\ ScoresAddUp /\ TicketsAddUp /\ ReserveBacked

LEMMA SumsInvariant == Spec => []SumsInv
<1>1. Init => SumsInv
  BY InitTypeInv, InitBalances, InitScores, InitTickets, InitReserve DEF SumsInv
<1>2. SumsInv /\ [Next]_vars => SumsInv'
  BY NextTypeInv, NextBalances, NextScores, NextTickets, NextReserve DEF SumsInv
<1> QED BY <1>1, <1>2, PTL DEF Spec

(* Every validator's active balance is the recorded stake of its Active     *)
(* records and the total is the sum over the validators, however cranks,    *)
(* users, the manager and the chain interleave.                             *)
THEOREM ActiveBalancesCorrect == Spec => []ActiveBalancesAddUp
<1>1. SumsInv => ActiveBalancesAddUp
  BY DEF SumsInv, BalancesAddUp
<1> QED BY <1>1, SumsInvariant, PTL

(* The two cooling-down counters are the recorded stake of the ordinary and *)
(* of the emergency deactivations: an account retrieved epochs later is     *)
(* taken from the counter it was added to.                                  *)
THEOREM CoolingBalancesCorrect == Spec => []CoolingBalancesAddUp
<1>1. SumsInv => CoolingBalancesAddUp
  BY DEF SumsInv, BalancesAddUp
<1> QED BY <1>1, SumsInvariant, PTL

(* The total score, by which every stake target divides, is the sum of the  *)
(* scores of the listed validators.                                         *)
THEOREM ScoresCorrect == Spec => []ScoresAddUp
<1>1. SumsInv => ScoresAddUp
  BY DEF SumsInv
<1> QED BY <1>1, SumsInvariant, PTL

(* The circulating tickets' balance and count are those of the ticket       *)
(* accounts that were ordered and not yet claimed.                          *)
THEOREM TicketsCorrect == Spec => []TicketsAddUp
<1>1. SumsInv => TicketsAddUp
  BY DEF SumsInv
<1> QED BY <1>1, SumsInvariant, PTL

(* The recorded reserve balance never exceeds the lamports in the reserve. *)
THEOREM ReserveCorrect == Spec => []ReserveBacked
<1>1. SumsInv => ReserveBacked
  BY DEF SumsInv
<1> QED BY <1>1, SumsInvariant, PTL
=============================================================================
