---------------------- MODULE DelinquentUpgradeProofs ----------------------
(* The upgrade, for every instance that an earlier version may have left.   *)
(*                                                                          *)
(* PriceInv (types, and the total behind the price) holds whatever happens. *)
(* UpgradeInv says for each phase what has been recounted, and of whom: a   *)
(* stake is counted once the loop has passed it, a validator settled once   *)
(* the second loop has.  It needs that no counted stake is deactivated from *)
(* outside before the upgrade is done (NoLateDelinquency), as the run       *)
(* upgrade_recount shows.                                                   *)
EXTENDS DelinquentUpgrade, AmountsTheorems

USE DEF coolingVars, programVars

(* The voter of a recorded stake is a validator; an address without a       *)
(* record has no account.                                                   *)
RecordAgrees(a) ==
  IF Listed(a) THEN native[a].voter \in Validators
               ELSE stakes[a] = NoRecord /\ native[a] = NoAccount

RecordsAgree == \A a \in Accounts : RecordAgrees(a)

TypeInv == TypeOK /\ RecordsAgree
-----------------------------------------------------------------------------
(* Type correctness. *)

LEMMA ValidatorsFinite ==
  /\ IsFiniteSet(Validators)
  /\ \A i, j \in Int : IsFiniteSet(i .. j)
BY UpgradeAssumption, FS_Interval DEF Validators

LEMMA ExcessType ==
  ASSUME TypeOK, NEW k \in 0 .. NumValidators,
         \A v \in upgrader.visited + 1 .. k : validators[v].active >= validators[v].recounted
  PROVE  Excess(k) \in Nat
<1> DEFINE w == [v \in Validators |-> validators[v].active - validators[v].recounted]
           S == upgrader.visited + 1 .. k
<1>1. S \subseteq Validators
  BY UpgradeAssumption DEF TypeOK, Upgrader, Validators
<1>2. \A v \in S : w[v] \in Nat
  BY <1>1 DEF TypeOK, ValidatorRecord
<1>3. IsFiniteSet(S)
  BY <1>1, ValidatorsFinite, FS_Subset
<1> HIDE DEF w, S
<1>4. Total(S, w) \in Nat
  BY <1>2, <1>3, TotalType
<1> QED BY <1>4 DEF Excess, w, S

(* The stake program's accounts are records or none. *)
LEMMA InitType ==
  ASSUME NEW S \in SUBSET Accounts, native \in [Accounts -> NativeStake]
  PROVE  Total(S, [a \in Accounts |-> native[a].stake]) \in Nat
<1>1. IsFiniteSet(S)
  BY UpgradeAssumption, FS_Subset
<1>2. \A a \in S : [b \in Accounts |-> native[b].stake][a] \in Nat
  BY DEF NativeStake
<1> QED BY <1>1, <1>2, TotalType

(* What the next upgrader is. *)
LEMMA ProgressionType ==
  ASSUME NEW u \in Upgrader, Progression(u)
  PROVE  upgrader' \in Upgrader
BY DEF Progression, Upgrader, IteratingValidators

LEMMA RecordTypes ==
  /\ NoRecord \in StakeRecord /\ NoAccount \in NativeStake
  /\ Done \in Upgrader
  /\ \A i, j, k \in Nat : IteratingStakes(i, j, k) \in Upgrader
  /\ \A i, j \in Nat : IteratingValidators(i, j) \in Upgrader
BY DEF NoRecord, StakeRecord, NoAccount, NativeStake, Done, Upgrader,
       IteratingStakes, IteratingValidators

(* What a step changes: one account with its record, and one validator.     *)
OnlyAccount(a) == \A b \in Accounts \ {a} : stakes'[b] = stakes[b] /\ native'[b] = native[b]
OnlyValidator(v) == \A w \in Validators \ {v} : validators'[w] = validators[w]

LEMMA RecordsStillAgree ==
  ASSUME RecordsAgree, NEW a \in Accounts, OnlyAccount(a), RecordAgrees(a)'
  PROVE  RecordsAgree'
BY DEF RecordsAgree, RecordAgrees, Listed, OnlyAccount

(* What an update of an active stake leaves: u is the upgrader it hands to   *)
(* Progression.                                                             *)
UpdatedUpgrader(a) ==
  LET first   == stakes[a].status = "Unknown"
      counted == IF first THEN stakes[a].delegated ELSE 0
  IN  IF InStakes
      THEN IteratingStakes(upgrader.visited + (IF first THEN 1 ELSE 0),
                           upgrader.active + counted + native[a].stake - stakes[a].delegated,
                           upgrader.delinquent)
      ELSE upgrader

LEMMA UpdateActiveEffect ==
  ASSUME TypeInv, NEW a \in Accounts, UpdateActive(a),
         NEW v, v = native[a].voter, NEW old, old = stakes[a].delegated,
         NEW new, new = native[a].stake,
         NEW counted, counted = (IF stakes[a].status = "Unknown" THEN old ELSE 0)
  PROVE  /\ TypeInv'
         /\ v \in Validators /\ old \in Nat /\ new \in Nat
         /\ OnlyAccount(a) /\ OnlyValidator(v)
         /\ stakes'[a].status = "Active" /\ stakes'[a].delegated = new
         /\ native'[a].voter = v /\ native'[a].state = "active"
         /\ validators'[v].active = validators[v].active + new - old
         /\ validators'[v].recounted =
              IF InStakes THEN validators[v].recounted + counted + new - old
                          ELSE validators[v].recounted
         /\ totalActiveBalance' = totalActiveBalance + new - old
         /\ UNCHANGED coolingVars
         /\ UpdatedUpgrader(a) \in Upgrader /\ Progression(UpdatedUpgrader(a))
         /\ ~InValidators /\ Listed(a)
         /\ stakes[a].status = "Unknown" =>
              InStakes /\ validators[v].recounted + counted <= validators[v].active
<1>1. /\ v \in Validators /\ old \in Nat /\ new \in Nat /\ native[a].extra \in Nat
      /\ stakes[a] \in StakeRecord /\ native[a] \in NativeStake
      /\ validators[v] \in ValidatorRecord
  <2>1. Listed(a)
    BY DEF UpdateActive
  <2> QED BY <2>1 DEF TypeInv, TypeOK, RecordsAgree, RecordAgrees, StakeRecord, NativeStake
<1>2. /\ validators[v].active \in Nat /\ validators[v].recounted \in Nat
      /\ upgrader.active \in Nat /\ upgrader.visited \in Nat /\ upgrader.delinquent \in Nat
      /\ upgrader \in Upgrader
  BY <1>1 DEF TypeInv, TypeOK, ValidatorRecord, Upgrader
<1>3. /\ ~InValidators
      /\ stakes[a].status = "Unknown" =>
           InStakes /\ validators[v].recounted + counted <= validators[v].active
      /\ Listed(a) /\ native[a].state = "active"
      /\ validators[v].active + new >= old /\ totalActiveBalance + new >= old
      /\ InStakes => /\ validators[v].recounted + counted + new >= old
                     /\ upgrader.active + counted + new >= old
      /\ reserveBalance' = reserveBalance + native[a].extra
      /\ native' = [native EXCEPT ![a].extra = 0]
      /\ stakes' = [stakes EXCEPT ![a].delegated = new, ![a].status = "Active"]
      /\ totalActiveBalance' = totalActiveBalance + new - old
      /\ UNCHANGED coolingVars
  BY DEF UpdateActive
<1>4. PICK x, y : /\ x = validators[v].active + new - old
                  /\ y = IF InStakes THEN validators[v].recounted + counted + new - old
                                     ELSE validators[v].recounted
  OBVIOUS
<1>5. x \in Nat /\ y \in Nat
  BY <1>1, <1>2, <1>3, <1>4
<1>6. validators' = [validators EXCEPT ![v].active = x, ![v].recounted = y]
  BY <1>4, Zenon DEF UpdateActive, Recount
<1>7. /\ validators' \in [Validators -> ValidatorRecord]
      /\ OnlyValidator(v) /\ validators'[v].active = x /\ validators'[v].recounted = y
  BY <1>1, <1>5, <1>6 DEF TypeInv, TypeOK, ValidatorRecord, OnlyValidator
<1>8. /\ stakes' \in [Accounts -> StakeRecord]
      /\ stakes'[a].status = "Active" /\ stakes'[a].delegated = new
  BY <1>1, <1>3 DEF TypeInv, TypeOK, StakeRecord
<1>9. /\ native' \in [Accounts -> NativeStake]
      /\ native'[a].voter = v /\ native'[a].state = "active"
  BY <1>1, <1>3 DEF TypeInv, TypeOK, NativeStake
<1>10. OnlyAccount(a)
  BY <1>3 DEF TypeInv, TypeOK, OnlyAccount
<1>11. UpdatedUpgrader(a) \in Upgrader
  <2>1. upgrader.visited + (IF stakes[a].status = "Unknown" THEN 1 ELSE 0) \in Nat
    BY <1>2
  <2>2. InStakes => upgrader.active + counted + new - old \in Nat
    BY <1>1, <1>2, <1>3
  <2> QED BY <1>2, <2>1, <2>2, RecordTypes DEF UpdatedUpgrader
<1>12. Progression(UpdatedUpgrader(a))
  BY Zenon DEF UpdateActive, UpdatedUpgrader, Recount
<1>13. upgrader' \in Upgrader
  BY <1>11, <1>12, ProgressionType
<1>14. RecordsAgree'
  <2>1. RecordAgrees(a)'
    BY <1>1, <1>8, <1>9 DEF RecordAgrees, Listed
  <2> QED BY <1>10, <2>1, RecordsStillAgree DEF TypeInv
<1>15. TypeOK'
  BY <1>1, <1>3, <1>7, <1>8, <1>9, <1>13 DEF TypeInv, TypeOK
<1> QED BY <1>1, <1>3, <1>4, <1>7, <1>8, <1>9, <1>10, <1>11, <1>12, <1>14, <1>15 DEF TypeInv

(* The names UpdateDeactivated gives to what it takes off. *)
Found(a) == IF stakes[a].status = "Active" THEN stakes[a].delegated ELSE 0
FromEmergency(a) == stakes[a].emergency \/ stakes[a].status = "Active"
CounterOf(a) == IF FromEmergency(a) THEN emergencyCoolingDown + Found(a)
                                    ELSE delayedUnstakeCoolingDown
TakenOff(a) == Taken(CounterOf(a), stakes[a].delegated)

(* What an update of a stake that has cooled down takes from the balances.   *)
LEMMA UpdateDeactivatedEffect ==
  ASSUME TypeInv, NEW a \in Accounts, UpdateDeactivated(a),
         NEW v, v = native[a].voter, NEW n, n = stakes[a].delegated
  PROVE  /\ TypeInv'
         /\ v \in Validators /\ n \in Nat /\ Found(a) \in Nat /\ CounterOf(a) \in Nat
         /\ TakenOff(a) \in Nat /\ TakenOff(a) <= n /\ TakenOff(a) <= CounterOf(a)
         /\ ~InStakes => TakenOff(a) = n
         /\ OnlyAccount(a) /\ OnlyValidator(v)
         /\ Listed(a) /\ native[a].state = "cold"
         /\ stakes'[a] = NoRecord /\ native'[a] = NoAccount
         /\ validators'[v].active = validators[v].active - Found(a)
         /\ validators'[v].recounted = validators[v].recounted
         /\ totalActiveBalance' = totalActiveBalance - Found(a) - (n - TakenOff(a))
         /\ IF FromEmergency(a) THEN /\ emergencyCoolingDown' = CounterOf(a) - TakenOff(a)
                              /\ UNCHANGED delayedUnstakeCoolingDown
            ELSE /\ delayedUnstakeCoolingDown' = CounterOf(a) - TakenOff(a)
                 /\ UNCHANGED emergencyCoolingDown
         /\ Progression(IF InStakes THEN [upgrader EXCEPT !.delinquent = @ + (n - TakenOff(a))]
                                    ELSE upgrader)
         /\ (IF InStakes THEN [upgrader EXCEPT !.delinquent = @ + (n - TakenOff(a))]
                         ELSE upgrader) \in Upgrader
<1>1. /\ v \in Validators /\ n \in Nat /\ native[a].stake \in Nat /\ native[a].extra \in Nat
      /\ stakes[a] \in StakeRecord /\ validators[v] \in ValidatorRecord
      /\ Listed(a) /\ native[a].state = "cold"
  <2>1. Listed(a) /\ native[a].state = "cold"
    BY DEF UpdateDeactivated
  <2> QED BY <2>1 DEF TypeInv, TypeOK, RecordsAgree, RecordAgrees, StakeRecord, NativeStake
<1>2. /\ validators[v].active \in Nat /\ validators[v].recounted \in Nat
      /\ upgrader \in Upgrader /\ upgrader.delinquent \in Nat
      /\ Found(a) \in Nat /\ CounterOf(a) \in Nat
  BY <1>1 DEF TypeInv, TypeOK, ValidatorRecord, Upgrader, Found, CounterOf, FromEmergency
<1>3. /\ ~InStakes => n <= CounterOf(a)
      /\ validators[v].active >= Found(a)
      /\ totalActiveBalance - Found(a) - (n - TakenOff(a)) >= 0
      /\ validators' = [validators EXCEPT ![v].active = @ - Found(a)]
      /\ totalActiveBalance' = totalActiveBalance - Found(a) - (n - TakenOff(a))
      /\ IF FromEmergency(a) THEN /\ emergencyCoolingDown' = CounterOf(a) - TakenOff(a)
                           /\ UNCHANGED delayedUnstakeCoolingDown
         ELSE /\ delayedUnstakeCoolingDown' = CounterOf(a) - TakenOff(a)
              /\ UNCHANGED emergencyCoolingDown
      /\ reserveBalance' = reserveBalance + native[a].stake + native[a].extra
      /\ stakes' = [stakes EXCEPT ![a] = NoRecord]
      /\ native' = [native EXCEPT ![a] = NoAccount]
  BY Zenon DEF UpdateDeactivated, TotalActiveAfter, Found, CounterOf, FromEmergency, TakenOff
<1>4. Progression(IF InStakes THEN [upgrader EXCEPT !.delinquent = @ + (n - TakenOff(a))]
                              ELSE upgrader)
  BY Zenon DEF UpdateDeactivated, Found, CounterOf, FromEmergency, TakenOff
<1>5. TakenOff(a) \in Nat /\ TakenOff(a) <= n /\ TakenOff(a) <= CounterOf(a) /\ (~InStakes => TakenOff(a) = n)
  BY <1>1, <1>2, <1>3 DEF TakenOff, Taken, MinOf
<1>6. /\ validators' \in [Validators -> ValidatorRecord] /\ OnlyValidator(v)
      /\ validators'[v].active = validators[v].active - Found(a)
      /\ validators'[v].recounted = validators[v].recounted
  <2>1. validators[v].active - Found(a) \in Nat
    BY <1>2, <1>3
  <2>2. validators' = [validators EXCEPT ![v].active = validators[v].active - Found(a)]
    BY <1>3
  <2> QED BY <1>1, <2>1, <2>2 DEF TypeInv, TypeOK, ValidatorRecord, OnlyValidator
<1>7. /\ stakes' \in [Accounts -> StakeRecord] /\ stakes'[a] = NoRecord
      /\ native' \in [Accounts -> NativeStake] /\ native'[a] = NoAccount
      /\ OnlyAccount(a)
  BY <1>3, RecordTypes DEF TypeInv, TypeOK, OnlyAccount
<1>8. (IF InStakes THEN [upgrader EXCEPT !.delinquent = @ + (n - TakenOff(a))]
                   ELSE upgrader) \in Upgrader
  <2>1. upgrader.delinquent + (n - TakenOff(a)) \in Nat
    BY <1>1, <1>2, <1>5
  <2> QED BY <1>2, <2>1 DEF Upgrader
<1>9. upgrader' \in Upgrader
  BY <1>4, <1>8, ProgressionType
<1>10. /\ totalActiveBalance' \in Nat /\ reserveBalance' \in Nat
       /\ delayedUnstakeCoolingDown' \in Nat /\ emergencyCoolingDown' \in Nat
  <2>1. /\ totalActiveBalance \in Nat /\ reserveBalance \in Nat
        /\ delayedUnstakeCoolingDown \in Nat /\ emergencyCoolingDown \in Nat
    BY DEF TypeInv, TypeOK
  <2> QED BY <1>1, <1>2, <1>3, <1>5, <2>1
<1>11. RecordsAgree'
  <2>1. RecordAgrees(a)'
    BY <1>7 DEF RecordAgrees, Listed, NoRecord
  <2> QED BY <1>7, <2>1, RecordsStillAgree DEF TypeInv
<1>12. TypeOK'
  BY <1>6, <1>7, <1>9, <1>10 DEF TypeOK
<1> QED BY <1>1, <1>2, <1>3, <1>4, <1>5, <1>6, <1>7, <1>8, <1>11, <1>12 DEF TypeInv

LEMMA DepositStakeAccountEffect ==
  ASSUME TypeInv, NEW a \in Accounts, NEW v \in Validators, NEW n \in Deposits,
         DepositStakeAccount(a, v, n)
  PROVE  /\ TypeInv'
         /\ n \in Nat /\ ~Listed(a)
         /\ OnlyAccount(a) /\ OnlyValidator(v)
         /\ stakes'[a].status = "Active" /\ stakes'[a].delegated = n
         /\ native'[a].voter = v /\ native'[a].state = "active"
         /\ validators'[v].active = validators[v].active + n
         /\ validators'[v].recounted = validators[v].recounted + (IF Open(v) THEN n ELSE 0)
         /\ totalActiveBalance' = totalActiveBalance + n
         /\ UNCHANGED coolingVars
         /\ InStakes => upgrader' = IteratingStakes(upgrader.visited + 1, upgrader.active + n,
                                                    upgrader.delinquent)
         /\ ~InStakes => upgrader' = upgrader
<1>1. /\ n \in Nat /\ validators[v].active \in Nat /\ validators[v].recounted \in Nat
      /\ upgrader \in Upgrader /\ upgrader.active \in Nat /\ upgrader.visited \in Nat
      /\ upgrader.delinquent \in Nat
  BY UpgradeAssumption DEF TypeInv, TypeOK, ValidatorRecord, Upgrader
<1>2. /\ ~Listed(a)
      /\ stakes' = [stakes EXCEPT ![a] =
           [delegated |-> n, emergency |-> FALSE, status |-> "Active"]]
      /\ native' = [native EXCEPT ![a] =
           [voter |-> v, stake |-> n, extra |-> 0, state |-> "active"]]
      /\ totalActiveBalance' = totalActiveBalance + n
      /\ upgrader' = RecountDeposit(v, n)
      /\ UNCHANGED <<coolingVars, reserveBalance>>
  BY DEF DepositStakeAccount
<1>3. /\ stakes' \in [Accounts -> StakeRecord]
      /\ stakes'[a].status = "Active" /\ stakes'[a].delegated = n
      /\ native' \in [Accounts -> NativeStake]
      /\ native'[a].voter = v /\ native'[a].state = "active"
      /\ OnlyAccount(a)
  BY <1>1, <1>2 DEF TypeInv, TypeOK, StakeRecord, NativeStake, OnlyAccount
<1>4. PICK x, y : /\ x = validators[v].active + n
                  /\ y = IF Open(v) THEN validators[v].recounted + n ELSE validators[v].recounted
  OBVIOUS
<1>5. x \in Nat /\ y \in Nat /\ y = validators[v].recounted + (IF Open(v) THEN n ELSE 0)
  BY <1>1, <1>4
<1>6. validators' = [validators EXCEPT ![v].active = x, ![v].recounted = y]
  BY <1>4, Zenon DEF DepositStakeAccount
<1>7. /\ validators' \in [Validators -> ValidatorRecord]
      /\ OnlyValidator(v) /\ validators'[v].active = x /\ validators'[v].recounted = y
  BY <1>5, <1>6 DEF TypeInv, TypeOK, ValidatorRecord, OnlyValidator
<1>8. /\ InStakes => upgrader' = IteratingStakes(upgrader.visited + 1, upgrader.active + n,
                                                 upgrader.delinquent)
      /\ ~InStakes => upgrader' = upgrader
  <2>1. ASSUME InStakes
        PROVE  upgrader' = [upgrader EXCEPT !.visited = upgrader.visited + 1,
                                            !.active = upgrader.active + n]
    BY <1>2, <2>1, Zenon DEF RecountDeposit
  <2>2. ASSUME InStakes
        PROVE  upgrader' = IteratingStakes(upgrader.visited + 1, upgrader.active + n,
                                           upgrader.delinquent)
    <3>1. PICK x1, y1 : x1 = upgrader.visited + 1 /\ y1 = upgrader.active + n
      OBVIOUS
    <3>2. upgrader' = [upgrader EXCEPT !.visited = x1, !.active = y1]
      BY <2>1, <2>2, <3>1, Zenon
    <3>3. x1 \in Nat /\ y1 \in Nat
      BY <1>1, <3>1
    <3>4. upgrader' = IteratingStakes(x1, y1, upgrader.delinquent)
      BY <1>1, <2>2, <3>2, <3>3 DEF Upgrader, IteratingStakes, InStakes
    <3> QED BY <3>1, <3>4
  <2> QED BY <1>2, <2>2 DEF RecountDeposit
<1>9. upgrader' \in Upgrader
  BY <1>1, <1>8, RecordTypes
<1>10. RecordsAgree'
  <2>1. RecordAgrees(a)'
    BY <1>3 DEF RecordAgrees, Listed
  <2> QED BY <1>3, <2>1, RecordsStillAgree DEF TypeInv
<1>11. TypeOK'
  BY <1>1, <1>2, <1>3, <1>7, <1>9 DEF TypeInv, TypeOK
<1> QED BY <1>1, <1>2, <1>3, <1>4, <1>5, <1>7, <1>8, <1>10, <1>11 DEF TypeInv

LEMMA FinalizeTypes ==
  ASSUME TypeInv, NEW max \in 0 .. NumValidators, FinalizeDelinquentUpgrade(max)
  PROVE  TypeInv'
<1> DEFINE last == MinOf(upgrader.visited + max, NumValidators)
           left == upgrader.delinquent - Excess(last)
<1>1. /\ \A v \in upgrader.visited + 1 .. last : validators[v].active >= validators[v].recounted
      /\ left >= 0
      /\ validators' = [v \in Validators |->
           IF v \in upgrader.visited + 1 .. last THEN Finalized(validators[v])
                                                 ELSE validators[v]]
      /\ upgrader' = IF last = NumValidators THEN Done ELSE IteratingValidators(last, left)
      /\ UNCHANGED <<stakes, native, totalActiveBalance, coolingVars, reserveBalance>>
  BY DEF FinalizeDelinquentUpgrade
<1>2. upgrader.visited \in Nat /\ upgrader.delinquent \in Nat /\ NumValidators \in Nat
  BY UpgradeAssumption DEF TypeInv, TypeOK, Upgrader
<1>3. last \in 0 .. NumValidators
  BY <1>2 DEF MinOf
<1> HIDE DEF last
<1>4. Excess(last) \in Nat
  BY <1>1, <1>3, ExcessType DEF TypeInv
<1>5. left \in Nat
  BY <1>1, <1>2, <1>4
<1>6. upgrader' \in Upgrader
  <2> HIDE DEF left
  <2> QED BY <1>1, <1>3, <1>5, RecordTypes
<1>7. validators' \in [Validators -> ValidatorRecord]
  <2>1. \A v \in Validators : Finalized(validators[v]) \in ValidatorRecord
    BY DEF Finalized, TypeInv, TypeOK, ValidatorRecord
  <2> QED BY <1>1, <2>1 DEF TypeInv, TypeOK
<1>8. RecordsAgree'
  BY <1>1 DEF TypeInv, RecordsAgree, RecordAgrees, Listed
<1> QED BY <1>1, <1>6, <1>7, <1>8 DEF TypeInv, TypeOK

(* The chain changes the lamports or the state of an account, never the     *)
(* validator it is delegated to.                                            *)
VotersKept == \A a \in Accounts :
  native'[a].voter = native[a].voter /\ (~Listed(a) => native'[a] = native[a])

LEMMA ChainStepEffect ==
  ASSUME TypeInv, ChainStep
  PROVE  UNCHANGED programVars /\ native' \in [Accounts -> NativeStake] /\ VotersKept
<1>1. /\ native \in [Accounts -> NativeStake] /\ \A a \in Accounts : RecordAgrees(a)
      /\ Rewards \subseteq Nat /\ Slashes \subseteq Nat /\ Tips \subseteq Nat
  BY UpgradeAssumption DEF TypeInv, TypeOK, RecordsAgree
<1>2. ASSUME NEW a \in Accounts, NEW n \in Rewards, Reward(a, n)
      PROVE  UNCHANGED programVars /\ native' \in [Accounts -> NativeStake] /\ VotersKept
  <2>1. Listed(a)
    BY <1>1, <1>2 DEF Reward, RecordAgrees, NoAccount
  <2> QED BY <1>1, <1>2, <2>1 DEF Reward, NativeStake, VotersKept
<1>3. ASSUME NEW a \in Accounts, NEW n \in Slashes, Slash(a, n)
      PROVE  UNCHANGED programVars /\ native' \in [Accounts -> NativeStake] /\ VotersKept
  <2>1. native[a].stake - n \in Nat
    BY <1>1, <1>3 DEF Slash, NativeStake
  <2>2. native' = [native EXCEPT ![a].stake = native[a].stake - n] /\ UNCHANGED programVars
    BY <1>3 DEF Slash
  <2>3. ~Listed(a) => native[a].stake - n = native[a].stake
    BY <1>1, <1>3 DEF Slash, RecordAgrees, NoAccount
  <2>4. ~Listed(a) => native'[a] = native[a]
    BY <1>1, <2>2, <2>3 DEF NativeStake
  <2> QED BY <1>1, <2>1, <2>2, <2>4 DEF NativeStake, VotersKept
<1>4. ASSUME NEW a \in Accounts, NEW n \in Tips, Tip(a, n)
      PROVE  UNCHANGED programVars /\ native' \in [Accounts -> NativeStake] /\ VotersKept
  BY <1>1, <1>4 DEF Tip, NativeStake, VotersKept
<1>5. ASSUME NEW a \in Accounts, Cool(a)
      PROVE  UNCHANGED programVars /\ native' \in [Accounts -> NativeStake] /\ VotersKept
  <2>1. Listed(a)
    BY <1>1, <1>5 DEF Cool, RecordAgrees, NoAccount
  <2> QED BY <1>1, <1>5, <2>1 DEF Cool, NativeStake, VotersKept
<1>6. ASSUME NEW a \in Accounts, DeactivateDelinquent(a)
      PROVE  UNCHANGED programVars /\ native' \in [Accounts -> NativeStake] /\ VotersKept
  <2>1. Listed(a)
    BY <1>1, <1>6 DEF DeactivateDelinquent, RecordAgrees, NoAccount
  <2> QED BY <1>1, <1>6, <2>1 DEF DeactivateDelinquent, NativeStake, VotersKept
<1> QED BY <1>2, <1>3, <1>4, <1>5, <1>6 DEF ChainStep
-----------------------------------------------------------------------------
(* The total behind the price. *)

LEMMA RecordedTotal ==
  ASSUME TypeOK
  PROVE  Total(Accounts, Recorded) \in Nat
<1>1. \A a \in Accounts : Recorded[a] \in Nat
  BY DEF TypeOK, StakeRecord, Recorded
<1> QED BY <1>1, UpgradeAssumption, TotalType

LEMMA RecordedChange ==
  ASSUME TypeOK, TypeOK', NEW a \in Accounts, OnlyAccount(a)
  PROVE  /\ Total(Accounts, Recorded)'
              = Total(Accounts, Recorded) + stakes'[a].delegated - stakes[a].delegated
         /\ Total(Accounts, Recorded) \in Nat
<1>1. \A b \in Accounts : Recorded[b] = stakes[b].delegated /\ Recorded'[b] = stakes'[b].delegated
  BY DEF Recorded
<1>2. \A b \in Accounts : Recorded[b] \in Nat /\ Recorded'[b] \in Nat
  BY <1>1 DEF TypeOK, StakeRecord
<1>3. \A b \in Accounts \ {a} : Recorded'[b] = Recorded[b]
  BY <1>1 DEF OnlyAccount
<1>4. Total(Accounts, Recorded') = Total(Accounts, Recorded) + Recorded'[a] - Recorded[a]
  BY <1>2, <1>3, UpgradeAssumption, TotalChange
<1> QED BY <1>1, <1>4, RecordedTotal

PriceInv == TypeInv /\ PriceInvariant

(* What a step adds to the total it adds to the records. *)
LEMMA PriceStep ==
  ASSUME PriceInv, TypeInv', NEW a \in Accounts, OnlyAccount(a),
         totalActiveBalance' + delayedUnstakeCoolingDown' + emergencyCoolingDown'
           = totalActiveBalance + delayedUnstakeCoolingDown + emergencyCoolingDown
               + stakes'[a].delegated - stakes[a].delegated
  PROVE  PriceInv'
<1>1. /\ Total(Accounts, Recorded)'
           = Total(Accounts, Recorded) + stakes'[a].delegated - stakes[a].delegated
      /\ Total(Accounts, Recorded) \in Nat
  BY RecordedChange DEF PriceInv, TypeInv
<1>2. totalActiveBalance + delayedUnstakeCoolingDown + emergencyCoolingDown
        = Total(Accounts, Recorded)
  BY DEF PriceInv, PriceInvariant
<1>3. totalActiveBalance' + delayedUnstakeCoolingDown' + emergencyCoolingDown'
        = Total(Accounts, Recorded)'
  BY <1>1, <1>2
<1> QED BY <1>3 DEF PriceInv, PriceInvariant

LEMMA UpdateActivePrice ==
  ASSUME PriceInv, NEW a \in Accounts, UpdateActive(a)
  PROVE  PriceInv'
<1>1. PICK v, old, new, counted :
        /\ v = native[a].voter /\ old = stakes[a].delegated /\ new = native[a].stake
        /\ counted = IF stakes[a].status = "Unknown" THEN old ELSE 0
  OBVIOUS
<1>2. /\ TypeInv' /\ OnlyAccount(a) /\ old \in Nat /\ new \in Nat
      /\ stakes'[a].delegated = new
      /\ totalActiveBalance' = totalActiveBalance + new - old
      /\ UNCHANGED coolingVars
  BY <1>1, UpdateActiveEffect DEF PriceInv
<1>3. totalActiveBalance' + delayedUnstakeCoolingDown' + emergencyCoolingDown'
        = totalActiveBalance + delayedUnstakeCoolingDown + emergencyCoolingDown
            + stakes'[a].delegated - stakes[a].delegated
  BY <1>1, <1>2 DEF PriceInv, TypeInv, TypeOK
<1> QED BY <1>2, <1>3, PriceStep

LEMMA UpdateDeactivatedPrice ==
  ASSUME PriceInv, NEW a \in Accounts, UpdateDeactivated(a)
  PROVE  PriceInv'
<1>1. TypeInv
  BY DEF PriceInv
<1>2. PICK v, n : v = native[a].voter /\ n = stakes[a].delegated
  OBVIOUS
<1>3. /\ TypeInv' /\ OnlyAccount(a)
      /\ n \in Nat /\ Found(a) \in Nat /\ CounterOf(a) \in Nat /\ TakenOff(a) \in Nat
      /\ stakes'[a] = NoRecord
      /\ totalActiveBalance' = totalActiveBalance - Found(a) - (n - TakenOff(a))
      /\ IF FromEmergency(a) THEN /\ emergencyCoolingDown' = CounterOf(a) - TakenOff(a)
                                  /\ UNCHANGED delayedUnstakeCoolingDown
         ELSE /\ delayedUnstakeCoolingDown' = CounterOf(a) - TakenOff(a)
              /\ UNCHANGED emergencyCoolingDown
  BY <1>1, <1>2, UpdateDeactivatedEffect
<1>4. /\ totalActiveBalance \in Nat
      /\ delayedUnstakeCoolingDown \in Nat /\ emergencyCoolingDown \in Nat
  BY <1>1 DEF TypeInv, TypeOK
<1>5. /\ ~FromEmergency(a) => Found(a) = 0
      /\ CounterOf(a) = IF FromEmergency(a) THEN emergencyCoolingDown + Found(a)
                                            ELSE delayedUnstakeCoolingDown
  BY DEF CounterOf, FromEmergency, Found
<1>6. stakes'[a].delegated = 0
  BY <1>3 DEF NoRecord
<1>7. totalActiveBalance' + delayedUnstakeCoolingDown' + emergencyCoolingDown'
        = totalActiveBalance + delayedUnstakeCoolingDown + emergencyCoolingDown
            + stakes'[a].delegated - stakes[a].delegated
  BY <1>2, <1>3, <1>4, <1>5, <1>6
<1> QED BY <1>3, <1>7, PriceStep

LEMMA DepositStakeAccountPrice ==
  ASSUME PriceInv, NEW a \in Accounts, NEW v \in Validators, NEW n \in Deposits,
         DepositStakeAccount(a, v, n)
  PROVE  PriceInv'
<1>1. /\ TypeInv' /\ OnlyAccount(a) /\ n \in Nat /\ ~Listed(a)
      /\ stakes'[a].delegated = n
      /\ totalActiveBalance' = totalActiveBalance + n
      /\ UNCHANGED coolingVars
  BY DepositStakeAccountEffect DEF PriceInv
<1>2. stakes[a].delegated = 0
  BY <1>1 DEF PriceInv, TypeInv, RecordsAgree, RecordAgrees, NoRecord
<1>3. totalActiveBalance' + delayedUnstakeCoolingDown' + emergencyCoolingDown'
        = totalActiveBalance + delayedUnstakeCoolingDown + emergencyCoolingDown
            + stakes'[a].delegated - stakes[a].delegated
  BY <1>1, <1>2 DEF PriceInv, TypeInv, TypeOK
<1> QED BY <1>1, <1>3, PriceStep

(* No record and no total changes. *)
LEMMA SamePrice ==
  ASSUME PriceInv, TypeInv',
         UNCHANGED <<stakes, totalActiveBalance, coolingVars>>
  PROVE  PriceInv'
<1>1. Recorded' = Recorded
  BY DEF Recorded
<1> QED BY <1>1 DEF PriceInv, PriceInvariant

LEMMA ChainStepTypes ==
  ASSUME TypeInv, ChainStep
  PROVE  TypeInv'
<1>1. UNCHANGED programVars /\ native' \in [Accounts -> NativeStake] /\ VotersKept
  BY ChainStepEffect
<1>2. RecordsAgree'
  BY <1>1 DEF TypeInv, RecordsAgree, RecordAgrees, Listed, VotersKept
<1> QED BY <1>1, <1>2 DEF TypeInv, TypeOK

LEMMA NextPrice == PriceInv /\ [Next]_vars => PriceInv'
<1> SUFFICES ASSUME PriceInv, [Next]_vars PROVE PriceInv'
  OBVIOUS
<1>1. ASSUME NEW a \in Accounts, NEW v \in Validators, NEW n \in Deposits,
             DepositStakeAccount(a, v, n)
      PROVE  PriceInv'
  BY <1>1, DepositStakeAccountPrice
<1>2. ASSUME NEW a \in Accounts, UpdateActive(a) PROVE PriceInv'
  BY <1>2, UpdateActivePrice
<1>3. ASSUME NEW a \in Accounts, UpdateDeactivated(a) PROVE PriceInv'
  BY <1>3, UpdateDeactivatedPrice
<1>4. ASSUME NEW max \in 0 .. NumValidators, FinalizeDelinquentUpgrade(max) PROVE PriceInv'
  <2>1. TypeInv'
    BY <1>4, FinalizeTypes DEF PriceInv
  <2>2. UNCHANGED <<stakes, totalActiveBalance, coolingVars>>
    BY <1>4 DEF FinalizeDelinquentUpgrade
  <2> QED BY <2>1, <2>2, SamePrice
<1>5. ASSUME ChainStep PROVE PriceInv'
  <2>1. TypeInv' /\ UNCHANGED programVars
    BY <1>5, ChainStepEffect, ChainStepTypes DEF PriceInv
  <2> QED BY <2>1, SamePrice
<1>6. CASE UNCHANGED vars
  <2>1. TypeInv'
    BY <1>6 DEF vars, PriceInv, TypeInv, TypeOK, RecordsAgree, RecordAgrees, Listed
  <2> QED BY <1>6, <2>1, SamePrice DEF vars
<1> QED BY <1>1, <1>2, <1>3, <1>4, <1>5, <1>6 DEF Next, UserStep, CrankStep
-----------------------------------------------------------------------------
(* The instance the earlier version leaves. *)

LEMMA InitTypes ==
  ASSUME Init
  PROVE  /\ native \in [Accounts -> NativeStake]
         /\ \A a \in Accounts : native[a] # NoAccount => native[a].voter \in Validators
         /\ \E emergencies \in SUBSET {a \in Accounts : native[a].state \in {"cooling", "cold"}},
               miscounted \in [Validators -> Nat] : OldInstance(emergencies, miscounted)
         /\ reserveBalance = 0 /\ upgrader = IteratingStakes(0, 0, 0)
<1>1. native \in [Accounts -> OldStakes \cup {NoAccount}]
  BY DEF Init
<1>2. ASSUME NEW s \in OldStakes PROVE s \in NativeStake /\ s.voter \in Validators
  <2>1. /\ s = [voter |-> s.voter, stake |-> s.stake, extra |-> s.extra, state |-> s.state]
        /\ s.voter \in Validators /\ s.stake \in Stakes /\ s.extra = 0
        /\ s.state \in {"active", "cooling", "cold"}
    BY DEF OldStakes
  <2>2. s.stake \in Nat
    BY <2>1, UpgradeAssumption
  <2> QED BY <2>1, <2>2 DEF NativeStake
<1>3. PICK emergencies \in SUBSET {a \in Accounts : native[a].state \in {"cooling", "cold"}},
           miscounted \in [Validators -> Miscounted] : OldInstance(emergencies, miscounted)
  BY DEF Init
<1>4. miscounted \in [Validators -> Nat]
  BY <1>3, UpgradeAssumption
<1> QED BY <1>1, <1>2, <1>3, <1>4, RecordTypes DEF Init

(* The totals of the sets of stakes the earlier version told apart. *)
NativeStakes == [a \in Accounts |-> native[a].stake]
OldListed == {a \in Accounts : native[a] # NoAccount}
OldActive == {a \in OldListed : native[a].state = "active"}

LEMMA OldTotals ==
  ASSUME native \in [Accounts -> NativeStake],
         NEW emergencies \in SUBSET {a \in Accounts : native[a].state \in {"cooling", "cold"}}
  PROVE  /\ Total(OldActive, NativeStakes) \in Nat
         /\ Total(OldListed \ (OldActive \cup emergencies), NativeStakes) \in Nat
         /\ Total(emergencies, NativeStakes) \in Nat
         /\ Total(OldListed, NativeStakes)
              = Total(OldActive, NativeStakes)
                  + Total(OldListed \ (OldActive \cup emergencies), NativeStakes)
                  + Total(emergencies, NativeStakes)
<1> DEFINE delayed == OldListed \ (OldActive \cup emergencies)
<1>1. \A a \in Accounts : NativeStakes[a] \in Nat
  BY DEF NativeStakes, NativeStake
<1>2. \A a \in emergencies : a \in OldListed /\ a \notin OldActive
  BY DEF OldListed, OldActive, NoAccount
<1>3. OldActive \subseteq Accounts /\ delayed \subseteq Accounts /\ emergencies \subseteq Accounts
  BY DEF OldListed, OldActive
<1>4. IsFiniteSet(OldActive) /\ IsFiniteSet(delayed) /\ IsFiniteSet(emergencies)
  BY <1>3, UpgradeAssumption, FS_Subset
<1>5. OldListed = (OldActive \cup delayed) \cup emergencies
  BY <1>2 DEF OldActive
<1>6. OldActive \cap delayed = {} /\ (OldActive \cup delayed) \cap emergencies = {}
  BY <1>2
<1> HIDE DEF delayed
<1>7. Total(OldActive \cup delayed, NativeStakes)
        = Total(OldActive, NativeStakes) + Total(delayed, NativeStakes)
  BY <1>1, <1>3, <1>4, <1>6, TotalUnion
<1>8. IsFiniteSet(OldActive \cup delayed)
  BY <1>4, FS_Union
<1>9. Total((OldActive \cup delayed) \cup emergencies, NativeStakes)
        = Total(OldActive \cup delayed, NativeStakes) + Total(emergencies, NativeStakes)
  BY <1>1, <1>3, <1>4, <1>6, <1>8, TotalUnion
<1>10. /\ Total(OldActive, NativeStakes) \in Nat /\ Total(delayed, NativeStakes) \in Nat
       /\ Total(emergencies, NativeStakes) \in Nat
  BY <1>1, <1>3, <1>4, TotalType
<1> QED BY <1>5, <1>7, <1>9, <1>10 DEF delayed

LEMMA InitPrice == Init => PriceInv
<1> SUFFICES ASSUME Init PROVE PriceInv
  OBVIOUS
<1>1. /\ native \in [Accounts -> NativeStake]
      /\ \A a \in Accounts : native[a] # NoAccount => native[a].voter \in Validators
      /\ reserveBalance = 0 /\ upgrader = IteratingStakes(0, 0, 0)
  BY InitTypes
<1>2. PICK emergencies \in SUBSET {a \in Accounts : native[a].state \in {"cooling", "cold"}},
           miscounted \in [Validators -> Nat] : OldInstance(emergencies, miscounted)
  BY InitTypes
<1> DEFINE delayed == OldListed \ (OldActive \cup emergencies)
<1>3. /\ stakes = [a \in Accounts |->
           IF a \in OldListed
           THEN [delegated |-> native[a].stake, emergency |-> a \in emergencies,
                 status |-> "Unknown"]
           ELSE NoRecord]
      /\ validators = [v \in Validators |->
           [active |-> Total({a \in OldActive : native[a].voter = v}, NativeStakes)
                         + miscounted[v],
            recounted |-> 0]]
      /\ totalActiveBalance = Total(OldActive, NativeStakes) + Total(Validators, miscounted)
      /\ Total(Validators, miscounted) <= Total(delayed, NativeStakes)
      /\ delayedUnstakeCoolingDown
           = Total(delayed, NativeStakes) - Total(Validators, miscounted)
      /\ emergencyCoolingDown = Total(emergencies, NativeStakes)
  BY <1>2, Zenon DEF OldInstance, OldListed, OldActive, NativeStakes
<1>4. /\ Total(OldActive, NativeStakes) \in Nat /\ Total(delayed, NativeStakes) \in Nat
      /\ Total(emergencies, NativeStakes) \in Nat
      /\ Total(OldListed, NativeStakes)
           = Total(OldActive, NativeStakes) + Total(delayed, NativeStakes)
               + Total(emergencies, NativeStakes)
  BY <1>1, OldTotals
<1>5. Total(Validators, miscounted) \in Nat
  BY ValidatorsFinite, TotalType
<1> HIDE DEF delayed
<1>6. /\ totalActiveBalance \in Nat /\ delayedUnstakeCoolingDown \in Nat
      /\ emergencyCoolingDown \in Nat
      /\ totalActiveBalance + delayedUnstakeCoolingDown + emergencyCoolingDown
           = Total(OldListed, NativeStakes)
  BY <1>3, <1>4, <1>5
<1>7. Total(OldListed, NativeStakes) = Total(Accounts, Recorded)
  <2>1. OldListed \subseteq Accounts
    BY DEF OldListed
  <2>2. \A a \in OldListed : NativeStakes[a] = Recorded[a]
    BY <1>3, <2>1 DEF NativeStakes, Recorded
  <2>3. \A a \in Accounts \ OldListed : Recorded[a] = 0
    BY <1>3 DEF Recorded, NoRecord
  <2> QED BY <2>1, <2>2, <2>3, TotalOfPart
<1>8. stakes \in [Accounts -> StakeRecord]
  <2>1. \A a \in Accounts : native[a].stake \in Nat
    BY <1>1 DEF NativeStake
  <2>2. \A a \in Accounts : [delegated |-> native[a].stake, emergency |-> a \in emergencies,
                              status |-> "Unknown"] \in StakeRecord
    BY <2>1 DEF StakeRecord
  <2> QED BY <1>3, <2>2, RecordTypes
<1>9. validators \in [Validators -> ValidatorRecord]
  <2>1. ASSUME NEW v \in Validators
        PROVE  Total({a \in OldActive : native[a].voter = v}, NativeStakes) \in Nat
    <3>1. {a \in OldActive : native[a].voter = v} \subseteq Accounts
      BY DEF OldActive, OldListed
    <3>2. \A a \in Accounts : NativeStakes[a] \in Nat
      BY <1>1 DEF NativeStakes, NativeStake
    <3>3. IsFiniteSet({a \in OldActive : native[a].voter = v})
      BY <3>1, UpgradeAssumption, FS_Subset
    <3> QED BY <3>1, <3>2, <3>3, TotalType
  <2>2. \A v \in Validators :
          Total({a \in OldActive : native[a].voter = v}, NativeStakes) + miscounted[v] \in Nat
    BY <2>1
  <2> QED BY <1>3, <2>2 DEF ValidatorRecord
<1>10. upgrader \in Upgrader
  BY <1>1, RecordTypes
<1>11. RecordsAgree
  <2> SUFFICES ASSUME NEW a \in Accounts PROVE RecordAgrees(a)
    BY DEF RecordsAgree
  <2>1. CASE a \in OldListed
    BY <1>1, <1>3, <2>1 DEF RecordAgrees, Listed, OldListed
  <2>2. CASE a \notin OldListed
    BY <1>3, <2>2 DEF RecordAgrees, Listed, OldListed, NoRecord
  <2> QED BY <2>1, <2>2
<1> QED BY <1>1, <1>6, <1>7, <1>8, <1>9, <1>10, <1>11
        DEF PriceInv, PriceInvariant, TypeInv, TypeOK

LEMMA PriceAlways == Spec => []PriceInv
<1>1. Init => PriceInv
  BY InitPrice
<1>2. PriceInv /\ [Next]_vars => PriceInv'
  BY NextPrice
<1> QED BY <1>1, <1>2, PTL DEF Spec

(* Every variable keeps its type: no counter of the upgrade goes below zero, *)
(* in whatever order deposits, cranks and the chain act.                     *)
THEOREM UpgradeTypeOK == Spec => []TypeOK
<1>1. PriceInv => TypeOK
  BY DEF PriceInv, TypeInv
<1> QED BY <1>1, PriceAlways, PTL

(* The total behind the mSOL price is what is recorded ("keeping the mSOL    *)
(* price invariant"), for any instance of the earlier version and even where *)
(* counted stakes are deactivated from outside.                              *)
THEOREM UpgradeKeepsPrice == Spec => []PriceInvariant
<1>1. PriceInv => PriceInvariant
  BY DEF PriceInv
<1> QED BY <1>1, PriceAlways, PTL
-----------------------------------------------------------------------------
(* The numbers of the recount.  From here on no stake that was counted is   *)
(* deactivated from outside before the upgrade is Done.                     *)
NoLateDelinquency == LateDelinquency \subseteq {"Done"}

CountedAmount == [a \in Accounts |-> IF Counted(a) THEN stakes[a].delegated ELSE 0]
RecountedBalance == [v \in Validators |-> validators[v].recounted]
CountedAccounts == {a \in Accounts : Counted(a)}

(* The balance of validator v was replaced by its recount.                  *)
Settled(v) == upgrader.phase = "Done" \/ (InValidators /\ v <= upgrader.visited)

Recounted(v) ==
  /\ validators[v].recounted = Total(Accounts, CountedStake(v))
  /\ validators[v].recounted <= validators[v].active
Exact(v) ==
  /\ validators[v].active = Total(Accounts, CountedStake(v))
  /\ validators[v].recounted = 0

CountedIsActive == \A a \in Accounts : Counted(a) => native[a].state = "active"

(* What the visits of the stakes have found so far; u is the upgrader.       *)
Tally(u) ==
  /\ CountedIsActive
  /\ \A v \in Validators : Recounted(v)
  /\ u.visited = Cardinality(CountedAccounts)
  /\ u.active = Total(Validators, RecountedBalance)
  /\ u.active = Total(Accounts, CountedAmount)

(* All stakes are visited.                                                   *)
AllCounted ==
  /\ \A a \in Accounts : Listed(a) => Counted(a)
  /\ delayedUnstakeCoolingDown = 0 /\ emergencyCoolingDown = 0
  /\ \A v \in Validators : IF Settled(v) THEN Exact(v) ELSE Recounted(v)

UpgradeInv ==
  /\ Total(Validators, Active) = totalActiveBalance + upgrader.delinquent
  /\ InStakes => Tally(upgrader)
  /\ ~InStakes => AllCounted
  /\ InValidators => CountedIsActive /\ upgrader.delinquent = Excess(NumValidators)
  /\ upgrader.phase = "Done" => upgrader.delinquent = 0

LEMMA TotalsTypes ==
  ASSUME TypeOK
  PROVE  /\ \A a \in Accounts : CountedAmount[a] \in Nat
         /\ \A v \in Validators : \A a \in Accounts : CountedStake(v)[a] \in Nat
         /\ \A v \in Validators : Active[v] \in Nat /\ RecountedBalance[v] \in Nat
         /\ Total(Accounts, CountedAmount) \in Nat
         /\ \A v \in Validators : Total(Accounts, CountedStake(v)) \in Nat
         /\ Total(Validators, Active) \in Nat /\ Total(Validators, RecountedBalance) \in Nat
<1>1. \A a \in Accounts : stakes[a].delegated \in Nat
  BY DEF TypeOK, StakeRecord
<1>2. /\ \A a \in Accounts : CountedAmount[a] \in Nat
      /\ \A v \in Validators : \A a \in Accounts : CountedStake(v)[a] \in Nat
  BY <1>1 DEF CountedAmount, CountedStake
<1>3. \A v \in Validators : Active[v] \in Nat /\ RecountedBalance[v] \in Nat
  BY DEF TypeOK, ValidatorRecord, Active, RecountedBalance
<1>4. Total(Accounts, CountedAmount) \in Nat
  BY <1>2, UpgradeAssumption, TotalType
<1>5. \A v \in Validators : Total(Accounts, CountedStake(v)) \in Nat
  BY <1>2, UpgradeAssumption, TotalType
<1>6. Total(Validators, Active) \in Nat /\ Total(Validators, RecountedBalance) \in Nat
  BY <1>3, ValidatorsFinite, TotalType
<1> QED BY <1>2, <1>3, <1>4, <1>5, <1>6

LEMMA TotalsTypesNext ==
  TypeOK' => (/\ \A a \in Accounts : CountedAmount[a] \in Nat
              /\ \A v \in Validators : \A a \in Accounts : CountedStake(v)[a] \in Nat
              /\ \A v \in Validators : Active[v] \in Nat /\ RecountedBalance[v] \in Nat
              /\ Total(Accounts, CountedAmount) \in Nat
              /\ \A v \in Validators : Total(Accounts, CountedStake(v)) \in Nat
              /\ Total(Validators, Active) \in Nat
              /\ Total(Validators, RecountedBalance) \in Nat)'
BY TotalsTypes, PTL

(* The counted amount of an account, before and after a step. *)
AmountBefore(a) == IF Counted(a) THEN stakes[a].delegated ELSE 0
AmountAfter(a) == IF Counted(a)' THEN stakes'[a].delegated ELSE 0

(* What the change of one account does to the totals of the counted stakes. *)
LEMMA CountedChange ==
  ASSUME TypeOK, TypeOK', NEW a \in Accounts, OnlyAccount(a), NEW v \in Validators,
         Counted(a) => native[a].voter = v, Counted(a)' => native'[a].voter = v
  PROVE  /\ Total(Accounts, CountedAmount)'
              = Total(Accounts, CountedAmount) + AmountAfter(a) - AmountBefore(a)
         /\ Total(Accounts, CountedStake(v))'
              = Total(Accounts, CountedStake(v)) + AmountAfter(a) - AmountBefore(a)
         /\ \A w \in Validators \ {v} :
              Total(Accounts, CountedStake(w))' = Total(Accounts, CountedStake(w))
<1>1. /\ \A b \in Accounts : CountedAmount[b] \in Nat /\ CountedAmount'[b] \in Nat
      /\ \A w \in Validators : \A b \in Accounts :
           CountedStake(w)[b] \in Nat /\ CountedStake(w)'[b] \in Nat
  BY TotalsTypes, TotalsTypesNext
<1>2. \A b \in Accounts \ {a} :
        /\ CountedAmount'[b] = CountedAmount[b]
        /\ \A w \in Validators : CountedStake(w)'[b] = CountedStake(w)[b]
  BY DEF OnlyAccount, CountedAmount, CountedStake, Counted
<1>3. /\ CountedAmount[a] = AmountBefore(a) /\ CountedAmount'[a] = AmountAfter(a)
      /\ CountedStake(v)[a] = AmountBefore(a) /\ CountedStake(v)'[a] = AmountAfter(a)
  BY DEF CountedAmount, CountedStake, AmountBefore, AmountAfter, Counted
<1>4. \A w \in Validators \ {v} : CountedStake(w)[a] = 0 /\ CountedStake(w)'[a] = 0
  BY DEF CountedStake, Counted
<1>5. Total(Accounts, CountedAmount')
        = Total(Accounts, CountedAmount) + AmountAfter(a) - AmountBefore(a)
  BY <1>1, <1>2, <1>3, UpgradeAssumption, TotalChange
<1>6. Total(Accounts, CountedStake(v)')
        = Total(Accounts, CountedStake(v)) + AmountAfter(a) - AmountBefore(a)
  BY <1>1, <1>2, <1>3, UpgradeAssumption, TotalChange
<1>7. ASSUME NEW w \in Validators \ {v}
      PROVE  Total(Accounts, CountedStake(w)') = Total(Accounts, CountedStake(w))
  <2>1. \A b \in Accounts : CountedStake(w)'[b] = CountedStake(w)[b]
    BY <1>2, <1>4
  <2> QED BY <2>1, TotalSame
<1> QED BY <1>5, <1>6, <1>7

LEMMA BalanceChange ==
  ASSUME TypeOK, TypeOK', NEW v \in Validators, OnlyValidator(v)
  PROVE  /\ Total(Validators, Active)'
              = Total(Validators, Active) + validators'[v].active - validators[v].active
         /\ Total(Validators, RecountedBalance)'
              = Total(Validators, RecountedBalance)
                  + validators'[v].recounted - validators[v].recounted
<1>1. \A w \in Validators : /\ Active[w] \in Nat /\ Active'[w] \in Nat
                            /\ RecountedBalance[w] \in Nat /\ RecountedBalance'[w] \in Nat
  BY TotalsTypes, TotalsTypesNext
<1>2. \A w \in Validators \ {v} :
        Active'[w] = Active[w] /\ RecountedBalance'[w] = RecountedBalance[w]
  BY DEF OnlyValidator, Active, RecountedBalance
<1>3. /\ Active[v] = validators[v].active /\ Active'[v] = validators'[v].active
      /\ RecountedBalance[v] = validators[v].recounted
      /\ RecountedBalance'[v] = validators'[v].recounted
  BY DEF Active, RecountedBalance
<1>4. Total(Validators, Active') = Total(Validators, Active) + Active'[v] - Active[v]
  BY <1>1, <1>2, ValidatorsFinite, TotalChange
<1>5. Total(Validators, RecountedBalance')
        = Total(Validators, RecountedBalance) + RecountedBalance'[v] - RecountedBalance[v]
  BY <1>1, <1>2, ValidatorsFinite, TotalChange
<1> QED BY <1>3, <1>4, <1>5

LEMMA CountedCard ==
  ASSUME NEW a \in Accounts, OnlyAccount(a)
  PROVE  /\ Cardinality(CountedAccounts) \in Nat
         /\ Counted(a)' /\ ~Counted(a) =>
              Cardinality(CountedAccounts)' = Cardinality(CountedAccounts) + 1
         /\ (Counted(a)' <=> Counted(a)) =>
              Cardinality(CountedAccounts)' = Cardinality(CountedAccounts)
<1>1. IsFiniteSet(CountedAccounts)
  BY UpgradeAssumption, FS_Subset DEF CountedAccounts
<1>2. \A b \in Accounts \ {a} : Counted(b)' <=> Counted(b)
  BY DEF Counted, OnlyAccount
<1>3. Counted(a)' /\ ~Counted(a) => /\ CountedAccounts' = CountedAccounts \cup {a}
                                    /\ a \notin CountedAccounts
  BY <1>2 DEF CountedAccounts
<1>4. (Counted(a)' <=> Counted(a)) => CountedAccounts' = CountedAccounts
  BY <1>2 DEF CountedAccounts
<1>5. a \notin CountedAccounts =>
        Cardinality(CountedAccounts \cup {a}) = Cardinality(CountedAccounts) + 1
  BY <1>1, FS_AddElement
<1>6. Cardinality(CountedAccounts) \in Nat
  BY <1>1, FS_CardinalityType
<1> QED BY <1>3, <1>4, <1>5, <1>6

(* What the validators have above their recounts, in all.                    *)
LEMMA SurplusTotal ==
  ASSUME TypeOK, \A v \in Validators : validators[v].recounted <= validators[v].active,
         upgrader.visited = 0
  PROVE  Total(Validators, Active)
           = Total(Validators, RecountedBalance) + Excess(NumValidators)
<1> DEFINE surplus == [v \in Validators |-> validators[v].active - validators[v].recounted]
<1>1. \A v \in Validators : /\ RecountedBalance[v] \in Nat /\ surplus[v] \in Nat
                            /\ Active[v] = RecountedBalance[v] + surplus[v]
  BY DEF TypeOK, ValidatorRecord, Active, RecountedBalance
<1>2. Excess(NumValidators) = Total(Validators, surplus)
  <2>1. upgrader.visited + 1 .. NumValidators = Validators
    BY DEF Validators
  <2> QED BY <2>1 DEF Excess
<1> HIDE DEF surplus
<1>3. Total(Validators, Active)
        = Total(Validators, RecountedBalance) + Total(Validators, surplus)
  BY <1>1, ValidatorsFinite, TotalPlus
<1> QED BY <1>2, <1>3

(* The last visit: all records are counted, and what was delinquent is what  *)
(* the validators have above their recounts.                                 *)
LEMMA TallyCompletes ==
  ASSUME PriceInv, NEW u \in Upgrader, Tally(u), u.visited = StakeCount,
         Total(Validators, Active) = totalActiveBalance + u.delinquent,
         u.active = totalActiveBalance,
         upgrader = IteratingValidators(0, u.delinquent)
  PROVE  UpgradeInv
<1>1. TypeOK /\ TypeInv
  BY DEF PriceInv, TypeInv
<1>2. /\ upgrader.phase = "IteratingValidators" /\ upgrader.visited = 0
      /\ upgrader.delinquent = u.delinquent /\ u.delinquent \in Nat /\ u.active \in Nat
  BY DEF IteratingValidators, Upgrader
<1>3. CountedAccounts = {a \in Accounts : Listed(a)}
  <2>1. IsFiniteSet({a \in Accounts : Listed(a)})
    BY UpgradeAssumption, FS_Subset
  <2>2. CountedAccounts \subseteq {a \in Accounts : Listed(a)}
    BY DEF CountedAccounts, Counted, Listed
  <2>3. Cardinality({a \in Accounts : Listed(a)}) = Cardinality(CountedAccounts)
    BY DEF Tally, StakeCount
  <2> HIDE DEF Listed
  <2> QED BY <2>1, <2>2, <2>3, FS_Subset
<1>4. \A a \in Accounts : Listed(a) => Counted(a)
  BY <1>3 DEF CountedAccounts
<1>5. Total(Accounts, Recorded) = Total(Accounts, CountedAmount)
  <2>1. \A a \in Accounts : Recorded[a] = CountedAmount[a]
    BY <1>1, <1>4 DEF TypeInv, RecordsAgree, RecordAgrees, NoRecord, Recorded, CountedAmount
  <2> QED BY <2>1, TotalSame
<1>6. delayedUnstakeCoolingDown = 0 /\ emergencyCoolingDown = 0
  <2>1. /\ u.active = Total(Accounts, CountedAmount)
        /\ totalActiveBalance + delayedUnstakeCoolingDown + emergencyCoolingDown
             = Total(Accounts, Recorded)
    BY DEF Tally, PriceInv, PriceInvariant
  <2>2. totalActiveBalance \in Nat /\ delayedUnstakeCoolingDown \in Nat
        /\ emergencyCoolingDown \in Nat
    BY <1>1 DEF TypeOK
  <2> QED BY <1>2, <1>5, <2>1, <2>2
<1>7. upgrader.delinquent = Excess(NumValidators)
  <2>1. \A v \in Validators : validators[v].recounted <= validators[v].active
    BY DEF Tally, Recounted
  <2>2. Total(Validators, Active)
          = Total(Validators, RecountedBalance) + Excess(NumValidators)
    BY <1>1, <1>2, <2>1, SurplusTotal
  <2>3. u.active = Total(Validators, RecountedBalance)
    BY DEF Tally
  <2>4. Excess(NumValidators) \in Nat
    <3>1. NumValidators \in 0 .. NumValidators
      BY UpgradeAssumption
    <3>2. \A v \in upgrader.visited + 1 .. NumValidators :
            validators[v].active >= validators[v].recounted
      BY <1>1, <1>2, <2>1 DEF Validators, TypeOK, ValidatorRecord
    <3> QED BY <1>1, <3>1, <3>2, ExcessType
  <2> QED BY <1>2, <2>2, <2>3, <2>4
<1>8. \A v \in Validators : ~Settled(v) /\ Recounted(v)
  BY <1>2 DEF Settled, Validators, Tally
<1>9. AllCounted
  BY <1>4, <1>6, <1>8 DEF AllCounted
<1>10. CountedIsActive
  BY DEF Tally
<1> QED BY <1>2, <1>7, <1>9, <1>10 DEF UpgradeInv, InStakes, InValidators

(* A tally of the stakes goes on, or completes. *)
LEMMA TallyGoesOn ==
  \A u \in Upgrader :
    /\ PriceInv /\ Tally(u) /\ u.phase = "IteratingStakes"
    /\ Total(Validators, Active) = totalActiveBalance + u.delinquent
    /\ u.visited = StakeCount => u.active = totalActiveBalance
    /\ upgrader = u \/ (u.visited = StakeCount /\ upgrader = IteratingValidators(0, u.delinquent))
    => UpgradeInv
<1> SUFFICES ASSUME NEW u \in Upgrader, PriceInv, Tally(u), u.phase = "IteratingStakes",
                    Total(Validators, Active) = totalActiveBalance + u.delinquent,
                    u.visited = StakeCount => u.active = totalActiveBalance,
                    upgrader = u \/ (u.visited = StakeCount
                                       /\ upgrader = IteratingValidators(0, u.delinquent))
             PROVE  UpgradeInv
  OBVIOUS
<1>1. CASE upgrader = u
  BY <1>1 DEF UpgradeInv, InStakes, InValidators
<1>2. CASE u.visited = StakeCount /\ upgrader = IteratingValidators(0, u.delinquent)
  BY <1>2, TallyCompletes
<1> QED BY <1>1, <1>2

LEMMA TallyGoesOnNext ==
  (\A u \in Upgrader :
    /\ PriceInv /\ Tally(u) /\ u.phase = "IteratingStakes"
    /\ Total(Validators, Active) = totalActiveBalance + u.delinquent
    /\ u.visited = StakeCount => u.active = totalActiveBalance
    /\ upgrader = u \/ (u.visited = StakeCount /\ upgrader = IteratingValidators(0, u.delinquent))
    => UpgradeInv)'
BY TallyGoesOn, PTL

(* One validator and one account change while the stakes are iterated.       *)
LEMMA TallyStep ==
  ASSUME PriceInv, PriceInv', Tally(upgrader),
         NEW a \in Accounts, NEW v \in Validators, OnlyAccount(a), OnlyValidator(v),
         Counted(a) => native[a].voter = v,
         Counted(a)' => native'[a].voter = v /\ native'[a].state = "active",
         validators'[v].recounted
           = validators[v].recounted + AmountAfter(a) - AmountBefore(a),
         validators'[v].recounted <= validators'[v].active,
         NEW u \in Upgrader,
         u.visited = Cardinality(CountedAccounts)',
         u.active = upgrader.active + AmountAfter(a) - AmountBefore(a)
  PROVE  Tally(u)'
<1>1. TypeOK /\ TypeOK'
  BY DEF PriceInv, TypeInv
<1>2. /\ Total(Accounts, CountedAmount)'
           = Total(Accounts, CountedAmount) + AmountAfter(a) - AmountBefore(a)
      /\ Total(Accounts, CountedStake(v))'
           = Total(Accounts, CountedStake(v)) + AmountAfter(a) - AmountBefore(a)
      /\ \A w \in Validators \ {v} :
           Total(Accounts, CountedStake(w))' = Total(Accounts, CountedStake(w))
  BY <1>1, CountedChange
<1>3. Total(Validators, RecountedBalance)'
        = Total(Validators, RecountedBalance)
            + validators'[v].recounted - validators[v].recounted
  BY <1>1, BalanceChange
<1>4. /\ Total(Validators, RecountedBalance) \in Nat
      /\ validators[v].recounted \in Nat /\ AmountAfter(a) \in Nat /\ AmountBefore(a) \in Nat
      /\ \A w \in Validators : Total(Accounts, CountedStake(w)) \in Nat
  BY <1>1, TotalsTypes DEF TypeOK, ValidatorRecord, StakeRecord, AmountAfter, AmountBefore
<1>5. CountedIsActive'
  BY DEF Tally, CountedIsActive, Counted, OnlyAccount
<1>6. ASSUME NEW w \in Validators PROVE Recounted(w)'
  <2>1. CASE w = v
    BY <1>2, <1>4, <2>1 DEF Tally, Recounted
  <2>2. CASE w # v
    BY <1>2, <2>2 DEF Tally, Recounted, OnlyValidator
  <2> QED BY <2>1, <2>2
<1>7. u.active = Total(Validators, RecountedBalance)'
  <2>1. upgrader.active = Total(Validators, RecountedBalance)
    BY DEF Tally
  <2> HIDE DEF Tally
  <2> QED BY <1>3, <1>4, <2>1
<1>8. u.active = Total(Accounts, CountedAmount)'
  BY <1>2 DEF Tally
<1> QED BY <1>5, <1>6, <1>7, <1>8 DEF Tally

(* A stake that is counted, or not known yet, and listed.                    *)
LEMMA ListedStatus ==
  ASSUME TypeOK, NEW a \in Accounts
  PROVE  /\ Listed(a) <=> Counted(a) \/ stakes[a].status = "Unknown"
         /\ ~(Counted(a) /\ stakes[a].status = "Unknown")
BY DEF TypeOK, StakeRecord, Listed, Counted

LEMMA UpdateActiveInStakes ==
  ASSUME PriceInv, UpgradeInv, InStakes, NEW a \in Accounts, UpdateActive(a)
  PROVE  UpgradeInv'
<1>1. PICK v, old, new, counted :
        /\ v = native[a].voter /\ old = stakes[a].delegated /\ new = native[a].stake
        /\ counted = IF stakes[a].status = "Unknown" THEN old ELSE 0
  OBVIOUS
<1>2. PriceInv' /\ TypeInv /\ TypeOK /\ TypeOK'
  BY UpdateActivePrice DEF PriceInv, TypeInv
<1>3. /\ v \in Validators /\ old \in Nat /\ new \in Nat
      /\ OnlyAccount(a) /\ OnlyValidator(v)
      /\ stakes'[a].status = "Active" /\ stakes'[a].delegated = new
      /\ native'[a].voter = v /\ native'[a].state = "active"
      /\ validators'[v].active = validators[v].active + new - old
      /\ validators'[v].recounted = validators[v].recounted + counted + new - old
      /\ totalActiveBalance' = totalActiveBalance + new - old
      /\ UpdatedUpgrader(a) \in Upgrader /\ Progression(UpdatedUpgrader(a))
      /\ Listed(a)
      /\ stakes[a].status = "Unknown" => validators[v].recounted + counted <= validators[v].active
  BY <1>1, <1>2, UpdateActiveEffect
<1>4. PICK u \in Upgrader : u = UpdatedUpgrader(a)
  BY <1>3
<1>5. /\ u.phase = "IteratingStakes"
      /\ u.visited = upgrader.visited + (IF stakes[a].status = "Unknown" THEN 1 ELSE 0)
      /\ u.active = upgrader.active + counted + new - old
      /\ u.delinquent = upgrader.delinquent
  BY <1>1, <1>4 DEF UpdatedUpgrader, IteratingStakes
<1>6. /\ Tally(upgrader)
      /\ Total(Validators, Active) = totalActiveBalance + upgrader.delinquent
      /\ upgrader.active \in Nat /\ upgrader.delinquent \in Nat
  BY <1>2 DEF UpgradeInv, TypeOK, Upgrader
<1>7. /\ validators[v].active \in Nat /\ validators[v].recounted \in Nat
      /\ totalActiveBalance \in Nat
      /\ validators[v].recounted <= validators[v].active
  BY <1>2, <1>3, <1>6 DEF TypeOK, ValidatorRecord, Tally, Recounted
<1>8. AmountAfter(a) = new /\ AmountBefore(a) = old - counted
      /\ counted \in Nat
  <2>1. CASE stakes[a].status = "Unknown"
    BY <1>1, <1>3, <2>1 DEF AmountAfter, AmountBefore, Counted
  <2>2. CASE Counted(a)
    BY <1>1, <1>3, <2>2 DEF AmountAfter, AmountBefore, Counted
  <2> QED BY <1>2, <1>3, <2>1, <2>2, ListedStatus
<1>9. u.visited = Cardinality(CountedAccounts)'
  <2>1. Counted(a)'
    BY <1>3 DEF Counted
  <2>2. upgrader.visited = Cardinality(CountedAccounts)
    BY <1>6 DEF Tally
  <2>3. Cardinality(CountedAccounts) \in Nat
    BY <1>3, CountedCard
  <2>4. CASE stakes[a].status = "Unknown"
    BY <1>2, <1>3, <1>5, <2>1, <2>2, <2>3, <2>4, CountedCard, ListedStatus
  <2>5. CASE Counted(a)
    BY <1>2, <1>3, <1>5, <2>1, <2>2, <2>3, <2>5, CountedCard, ListedStatus
  <2> QED BY <1>2, <1>3, <2>4, <2>5, ListedStatus
<1>10. validators'[v].recounted <= validators'[v].active
  <2>1. validators[v].recounted + counted <= validators[v].active
    BY <1>1, <1>3, <1>7
  <2> QED BY <1>3, <1>7, <1>8, <2>1
<1>11. /\ validators'[v].recounted = validators[v].recounted + AmountAfter(a) - AmountBefore(a)
       /\ u.active = upgrader.active + AmountAfter(a) - AmountBefore(a)
  BY <1>3, <1>5, <1>6, <1>7, <1>8
<1>12. Tally(u)'
  BY <1>1, <1>2, <1>3, <1>6, <1>9, <1>10, <1>11, TallyStep
<1>13. Total(Validators, Active)' = totalActiveBalance' + u.delinquent
  <2>1. /\ Total(Validators, Active)'
             = Total(Validators, Active) + validators'[v].active - validators[v].active
        /\ Total(Validators, Active) \in Nat
    BY <1>2, <1>3, BalanceChange, TotalsTypes
  <2> QED BY <1>3, <1>5, <1>6, <1>7, <2>1
<1>14. /\ u.visited = StakeCount' => u.active = totalActiveBalance'
       /\ upgrader' = u \/ (u.visited = StakeCount'
                              /\ upgrader' = IteratingValidators(0, u.delinquent))
  BY <1>3, <1>4, <1>5 DEF Progression
<1> QED BY <1>2, <1>5, <1>12, <1>13, <1>14, TallyGoesOnNext

LEMMA UpdateDeactivatedInStakes ==
  ASSUME PriceInv, UpgradeInv, InStakes, NEW a \in Accounts, UpdateDeactivated(a)
  PROVE  UpgradeInv'
<1>1. PICK v, n : v = native[a].voter /\ n = stakes[a].delegated
  OBVIOUS
<1>2. PriceInv' /\ TypeInv /\ TypeOK /\ TypeOK'
  BY UpdateDeactivatedPrice DEF PriceInv, TypeInv
<1>3. /\ v \in Validators /\ n \in Nat /\ TakenOff(a) \in Nat /\ TakenOff(a) <= n
      /\ OnlyAccount(a) /\ OnlyValidator(v) /\ Listed(a) /\ native[a].state = "cold"
      /\ stakes'[a] = NoRecord
      /\ validators'[v].active = validators[v].active - Found(a)
      /\ validators'[v].recounted = validators[v].recounted
      /\ totalActiveBalance' = totalActiveBalance - Found(a) - (n - TakenOff(a))
      /\ Progression([upgrader EXCEPT !.delinquent = @ + (n - TakenOff(a))])
      /\ [upgrader EXCEPT !.delinquent = @ + (n - TakenOff(a))] \in Upgrader
  BY <1>1, <1>2, UpdateDeactivatedEffect
<1>4. PICK u \in Upgrader : u = [upgrader EXCEPT !.delinquent = @ + (n - TakenOff(a))]
  BY <1>3
<1>5. /\ upgrader \in Upgrader /\ upgrader.delinquent \in Nat /\ upgrader.active \in Nat
      /\ upgrader.phase = "IteratingStakes"
  BY <1>2 DEF TypeOK, Upgrader, InStakes
<1>6. /\ u.phase = "IteratingStakes"
      /\ u.visited = upgrader.visited /\ u.active = upgrader.active
      /\ u.delinquent = upgrader.delinquent + (n - TakenOff(a))
  BY <1>4, <1>5 DEF Upgrader
<1>7. /\ Tally(upgrader)
      /\ Total(Validators, Active) = totalActiveBalance + upgrader.delinquent
  BY DEF UpgradeInv
<1>8. ~Counted(a) /\ ~Counted(a)'
  BY <1>3, <1>7 DEF Tally, CountedIsActive, Counted, NoRecord
<1>9. Found(a) = 0 /\ AmountAfter(a) = 0 /\ AmountBefore(a) = 0
  BY <1>8 DEF Found, AmountAfter, AmountBefore, Counted
<1>10. /\ validators[v].active \in Nat /\ validators[v].recounted \in Nat
       /\ totalActiveBalance \in Nat
       /\ validators[v].recounted <= validators[v].active
  BY <1>2, <1>3, <1>7 DEF TypeOK, ValidatorRecord, Tally, Recounted
<1>11. u.visited = Cardinality(CountedAccounts)'
  BY <1>3, <1>6, <1>7, <1>8, CountedCard DEF Tally
<1>12. /\ validators'[v].recounted = validators[v].recounted + AmountAfter(a) - AmountBefore(a)
       /\ validators'[v].recounted <= validators'[v].active
       /\ u.active = upgrader.active + AmountAfter(a) - AmountBefore(a)
  BY <1>3, <1>5, <1>6, <1>9, <1>10
<1>13. Tally(u)'
  BY <1>2, <1>3, <1>7, <1>8, <1>11, <1>12, TallyStep
<1>14. Total(Validators, Active)' = totalActiveBalance' + u.delinquent
  <2>1. /\ Total(Validators, Active)'
             = Total(Validators, Active) + validators'[v].active - validators[v].active
        /\ Total(Validators, Active) \in Nat
    BY <1>2, <1>3, BalanceChange, TotalsTypes
  <2> QED BY <1>3, <1>5, <1>6, <1>7, <1>9, <1>10, <2>1
<1>15. /\ u.visited = StakeCount' => u.active = totalActiveBalance'
       /\ upgrader' = u \/ (u.visited = StakeCount'
                              /\ upgrader' = IteratingValidators(0, u.delinquent))
  BY <1>3, <1>4, <1>6 DEF Progression
<1> QED BY <1>2, <1>6, <1>13, <1>14, <1>15, TallyGoesOnNext

LEMMA DepositInStakes ==
  ASSUME PriceInv, UpgradeInv, InStakes, NEW a \in Accounts, NEW v \in Validators,
         NEW n \in Deposits, DepositStakeAccount(a, v, n)
  PROVE  UpgradeInv'
<1>1. PriceInv' /\ TypeInv /\ TypeOK /\ TypeOK'
  BY DepositStakeAccountPrice DEF PriceInv, TypeInv
<1>2. /\ n \in Nat /\ ~Listed(a) /\ OnlyAccount(a) /\ OnlyValidator(v)
      /\ stakes'[a].status = "Active" /\ stakes'[a].delegated = n
      /\ native'[a].voter = v /\ native'[a].state = "active"
      /\ validators'[v].active = validators[v].active + n
      /\ validators'[v].recounted = validators[v].recounted + n
      /\ totalActiveBalance' = totalActiveBalance + n
      /\ upgrader' = IteratingStakes(upgrader.visited + 1, upgrader.active + n,
                                     upgrader.delinquent)
  BY <1>1, DepositStakeAccountEffect DEF Open
<1>3. PICK u \in Upgrader : u = IteratingStakes(upgrader.visited + 1, upgrader.active + n,
                                                upgrader.delinquent)
  BY <1>1, <1>2 DEF TypeOK
<1>4. /\ u.phase = "IteratingStakes" /\ u.visited = upgrader.visited + 1
      /\ u.active = upgrader.active + n /\ u.delinquent = upgrader.delinquent
  BY <1>3 DEF IteratingStakes
<1>5. /\ Tally(upgrader)
      /\ Total(Validators, Active) = totalActiveBalance + upgrader.delinquent
      /\ upgrader.active \in Nat /\ upgrader.delinquent \in Nat
  BY <1>1 DEF UpgradeInv, TypeOK, Upgrader
<1>6. ~Counted(a) /\ Counted(a)'
  BY <1>2 DEF Counted, Listed
<1>7. AmountAfter(a) = n /\ AmountBefore(a) = 0
  BY <1>2, <1>6 DEF AmountAfter, AmountBefore
<1>8. /\ validators[v].active \in Nat /\ validators[v].recounted \in Nat
      /\ totalActiveBalance \in Nat
      /\ validators[v].recounted <= validators[v].active
  BY <1>1, <1>5 DEF TypeOK, ValidatorRecord, Tally, Recounted
<1>9. u.visited = Cardinality(CountedAccounts)'
  BY <1>2, <1>4, <1>5, <1>6, CountedCard DEF Tally
<1>10. /\ validators'[v].recounted = validators[v].recounted + AmountAfter(a) - AmountBefore(a)
       /\ validators'[v].recounted <= validators'[v].active
       /\ u.active = upgrader.active + AmountAfter(a) - AmountBefore(a)
  BY <1>2, <1>4, <1>5, <1>7, <1>8
<1>11. Tally(u)'
  BY <1>1, <1>2, <1>5, <1>6, <1>9, <1>10, TallyStep
<1>12. Total(Validators, Active)' = totalActiveBalance' + u.delinquent
  <2>1. /\ Total(Validators, Active)'
             = Total(Validators, Active) + validators'[v].active - validators[v].active
        /\ Total(Validators, Active) \in Nat
    BY <1>1, <1>2, BalanceChange, TotalsTypes
  <2> QED BY <1>2, <1>4, <1>5, <1>8, <2>1
<1> QED BY <1>2, <1>3, <1>4, <1>11, <1>12 DEF UpgradeInv, InStakes, InValidators

(* The same after the stakes are iterated: a validator whose balance was     *)
(* replaced stays exact, another's balance and recount move together.        *)
LEMMA CountedStep ==
  ASSUME PriceInv, PriceInv', UpgradeInv, ~InStakes,
         NEW a \in Accounts, NEW v \in Validators, OnlyAccount(a), OnlyValidator(v),
         Counted(a) => native[a].voter = v,
         Counted(a)' => native'[a].voter = v,
         InValidators /\ Counted(a)' => native'[a].state = "active",
         Listed(a)' => Counted(a)',
         validators'[v].active = validators[v].active + AmountAfter(a) - AmountBefore(a),
         validators'[v].recounted
           = IF Settled(v) THEN validators[v].recounted
             ELSE validators[v].recounted + AmountAfter(a) - AmountBefore(a),
         totalActiveBalance' = totalActiveBalance + AmountAfter(a) - AmountBefore(a),
         UNCHANGED <<coolingVars, upgrader>>
  PROVE  UpgradeInv'
<1>1. TypeOK /\ TypeOK'
  BY DEF PriceInv, TypeInv
<1>2. /\ Total(Accounts, CountedStake(v))'
           = Total(Accounts, CountedStake(v)) + AmountAfter(a) - AmountBefore(a)
      /\ \A w \in Validators \ {v} :
           Total(Accounts, CountedStake(w))' = Total(Accounts, CountedStake(w))
  BY <1>1, CountedChange
<1>3. /\ Total(Validators, Active)'
           = Total(Validators, Active) + validators'[v].active - validators[v].active
      /\ Total(Validators, Active) \in Nat
      /\ Total(Validators, Active) = totalActiveBalance + upgrader.delinquent
  BY <1>1, BalanceChange, TotalsTypes DEF UpgradeInv
<1>4. /\ validators[v].active \in Nat /\ validators[v].recounted \in Nat
      /\ AmountAfter(a) \in Nat /\ AmountBefore(a) \in Nat
      /\ totalActiveBalance \in Nat /\ upgrader.delinquent \in Nat
      /\ \A w \in Validators : Total(Accounts, CountedStake(w)) \in Nat
  BY <1>1, TotalsTypes
  DEF TypeOK, ValidatorRecord, StakeRecord, Upgrader, AmountAfter, AmountBefore
<1>5. Total(Validators, Active)' = totalActiveBalance' + upgrader'.delinquent
  BY <1>3, <1>4
<1>6. \A w \in Validators : Settled(w)' <=> Settled(w)
  BY DEF Settled, InValidators
<1>7. AllCounted
  BY DEF UpgradeInv
<1>8. ASSUME NEW w \in Validators
      PROVE  IF Settled(w)' THEN Exact(w)' ELSE Recounted(w)'
  <2>1. IF Settled(w) THEN Exact(w) ELSE Recounted(w)
    BY <1>7 DEF AllCounted
  <2>2. CASE w = v /\ Settled(w)
    <3>1. validators'[v].active = Total(Accounts, CountedStake(v))'
      BY <1>2, <1>4, <2>1, <2>2 DEF Exact
    <3>2. validators'[v].recounted = 0
      BY <2>1, <2>2 DEF Exact
    <3> QED BY <1>6, <2>2, <3>1, <3>2 DEF Exact
  <2>3. CASE w = v /\ ~Settled(w)
    <3>1. validators'[v].recounted = Total(Accounts, CountedStake(v))'
      BY <1>2, <1>4, <2>1, <2>3 DEF Recounted
    <3>2. validators'[v].recounted <= validators'[v].active
      BY <1>4, <2>1, <2>3 DEF Recounted
    <3> QED BY <1>6, <2>3, <3>1, <3>2 DEF Recounted
  <2>4. CASE w # v
    BY <1>2, <1>6, <2>1, <2>4 DEF Exact, Recounted, OnlyValidator
  <2> QED BY <2>2, <2>3, <2>4
<1>9. AllCounted'
  <2>1. \A b \in Accounts : Listed(b)' => Counted(b)'
    BY <1>7 DEF AllCounted, Listed, Counted, OnlyAccount
  <2>2. delayedUnstakeCoolingDown' = 0 /\ emergencyCoolingDown' = 0
    BY <1>7 DEF AllCounted
  <2> QED BY <1>8, <2>1, <2>2 DEF AllCounted
<1>10. InValidators => CountedIsActive'
  BY DEF UpgradeInv, CountedIsActive, Counted, OnlyAccount
<1>11. InValidators => Excess(NumValidators)' = Excess(NumValidators)
  <2> SUFFICES ASSUME InValidators PROVE Excess(NumValidators)' = Excess(NumValidators)
    OBVIOUS
  <2>1. ASSUME NEW w \in upgrader.visited + 1 .. NumValidators
        PROVE  [x \in Validators |-> validators[x].active - validators[x].recounted]'[w]
                 = [x \in Validators |-> validators[x].active - validators[x].recounted][w]
    <3>1. w \in Validators /\ w > upgrader.visited
      BY <1>1, UpgradeAssumption DEF TypeOK, Upgrader, Validators
    <3>2. ~Settled(w)
      BY <1>1, <3>1 DEF Settled, InValidators, TypeOK, Upgrader, Validators
    <3>3. CASE w = v
      BY <1>4, <3>1, <3>2, <3>3
    <3>4. CASE w # v
      BY <3>1, <3>4 DEF OnlyValidator
    <3> QED BY <3>3, <3>4
  <2> QED BY <2>1, TotalSame DEF Excess
<1> QED BY <1>5, <1>9, <1>10, <1>11 DEF UpgradeInv, InStakes, InValidators

LEMMA DepositCounted ==
  ASSUME PriceInv, UpgradeInv, ~InStakes, NEW a \in Accounts, NEW v \in Validators,
         NEW n \in Deposits, DepositStakeAccount(a, v, n)
  PROVE  UpgradeInv'
<1>1. PriceInv' /\ TypeInv /\ TypeOK
  BY DepositStakeAccountPrice DEF PriceInv, TypeInv
<1>2. /\ n \in Nat /\ ~Listed(a) /\ OnlyAccount(a) /\ OnlyValidator(v)
      /\ stakes'[a].status = "Active" /\ stakes'[a].delegated = n
      /\ native'[a].voter = v /\ native'[a].state = "active"
      /\ validators'[v].active = validators[v].active + n
      /\ validators'[v].recounted = validators[v].recounted + (IF Open(v) THEN n ELSE 0)
      /\ totalActiveBalance' = totalActiveBalance + n
      /\ UNCHANGED <<coolingVars, upgrader>>
  BY <1>1, DepositStakeAccountEffect
<1>3. ~Counted(a) /\ Counted(a)'
  BY <1>2 DEF Counted, Listed
<1>4. AmountAfter(a) = n /\ AmountBefore(a) = 0
  BY <1>2, <1>3 DEF AmountAfter, AmountBefore
<1>5. Open(v) <=> ~Settled(v)
  BY <1>1 DEF Open, Settled, InStakes, InValidators, TypeOK, Upgrader, Validators
<1>6. /\ validators[v].active \in Nat /\ validators[v].recounted \in Nat
      /\ totalActiveBalance \in Nat
  BY <1>1 DEF TypeOK, ValidatorRecord
<1>7. /\ validators'[v].active = validators[v].active + AmountAfter(a) - AmountBefore(a)
      /\ validators'[v].recounted
           = IF Settled(v) THEN validators[v].recounted
             ELSE validators[v].recounted + AmountAfter(a) - AmountBefore(a)
      /\ totalActiveBalance' = totalActiveBalance + AmountAfter(a) - AmountBefore(a)
  BY <1>2, <1>4, <1>5, <1>6
<1> QED BY <1>1, <1>2, <1>3, <1>7, CountedStep

(* Once Done, updates go on as ever. *)
LEMMA UpdateActiveCounted ==
  ASSUME PriceInv, UpgradeInv, ~InStakes, NEW a \in Accounts, UpdateActive(a)
  PROVE  UpgradeInv'
<1>1. PICK v, old, new, counted :
        /\ v = native[a].voter /\ old = stakes[a].delegated /\ new = native[a].stake
        /\ counted = IF stakes[a].status = "Unknown" THEN old ELSE 0
  OBVIOUS
<1>2. PriceInv' /\ TypeInv /\ TypeOK /\ TypeOK'
  BY UpdateActivePrice DEF PriceInv, TypeInv
<1>3. /\ v \in Validators /\ old \in Nat /\ new \in Nat
      /\ OnlyAccount(a) /\ OnlyValidator(v)
      /\ stakes'[a].status = "Active" /\ stakes'[a].delegated = new
      /\ native'[a].voter = v
      /\ validators'[v].active = validators[v].active + new - old
      /\ validators'[v].recounted = validators[v].recounted
      /\ totalActiveBalance' = totalActiveBalance + new - old
      /\ UNCHANGED coolingVars
      /\ Progression(UpdatedUpgrader(a))
      /\ Listed(a) /\ ~InValidators
  BY <1>1, <1>2, UpdateActiveEffect
<1>4. upgrader' = upgrader /\ Settled(v)
  BY <1>2, <1>3
  DEF Progression, UpdatedUpgrader, InStakes, InValidators, Settled, TypeOK, Upgrader
<1>5. Counted(a) /\ Counted(a)'
  BY <1>3 DEF UpgradeInv, AllCounted, Counted
<1>6. AmountAfter(a) = new /\ AmountBefore(a) = old
  BY <1>1, <1>3, <1>5 DEF AmountAfter, AmountBefore
<1> QED BY <1>1, <1>2, <1>3, <1>4, <1>5, <1>6, CountedStep

LEMMA UpdateDeactivatedCounted ==
  ASSUME PriceInv, UpgradeInv, ~InStakes, NEW a \in Accounts, UpdateDeactivated(a)
  PROVE  UpgradeInv'
<1>1. PICK v, n : v = native[a].voter /\ n = stakes[a].delegated
  OBVIOUS
<1>2. PriceInv' /\ TypeInv /\ TypeOK
  BY UpdateDeactivatedPrice DEF PriceInv, TypeInv
<1>3. /\ v \in Validators /\ n \in Nat /\ TakenOff(a) = n
      /\ OnlyAccount(a) /\ OnlyValidator(v) /\ Listed(a) /\ native[a].state = "cold"
      /\ stakes'[a] = NoRecord
      /\ validators'[v].active = validators[v].active - Found(a)
      /\ validators'[v].recounted = validators[v].recounted
      /\ totalActiveBalance' = totalActiveBalance - Found(a) - (n - TakenOff(a))
      /\ IF FromEmergency(a) THEN /\ emergencyCoolingDown' = CounterOf(a) - TakenOff(a)
                                  /\ UNCHANGED delayedUnstakeCoolingDown
         ELSE /\ delayedUnstakeCoolingDown' = CounterOf(a) - TakenOff(a)
              /\ UNCHANGED emergencyCoolingDown
      /\ Progression(upgrader)
  BY <1>1, <1>2, UpdateDeactivatedEffect
<1>4. Counted(a) /\ ~Listed(a)' /\ ~Counted(a)'
  BY <1>3 DEF UpgradeInv, AllCounted, Counted, Listed, NoRecord
<1>5. Found(a) = n /\ FromEmergency(a) /\ CounterOf(a) = emergencyCoolingDown + n
  BY <1>1, <1>4 DEF Counted, Found, FromEmergency, CounterOf
<1>6. AmountAfter(a) = 0 /\ AmountBefore(a) = n
  BY <1>1, <1>4 DEF AmountAfter, AmountBefore
<1>7. ~InValidators
  BY <1>3, <1>4 DEF UpgradeInv, CountedIsActive
<1>8. upgrader' = upgrader /\ Settled(v)
  BY <1>2, <1>3, <1>7
  DEF Progression, InStakes, InValidators, Settled, TypeOK, Upgrader
<1>9. /\ validators[v].active \in Nat /\ totalActiveBalance \in Nat
      /\ emergencyCoolingDown \in Nat
  BY <1>2, <1>3 DEF TypeOK, ValidatorRecord
<1>10. /\ validators'[v].active = validators[v].active + AmountAfter(a) - AmountBefore(a)
       /\ totalActiveBalance' = totalActiveBalance + AmountAfter(a) - AmountBefore(a)
       /\ UNCHANGED coolingVars
  BY <1>3, <1>5, <1>6, <1>9
<1> QED BY <1>1, <1>2, <1>3, <1>4, <1>7, <1>8, <1>10, CountedStep

(* Finalizing moves the surplus of the validators it visits from their       *)
(* balances, and the same from what is left.                                 *)
LEMMA FinalizeInValidators ==
  ASSUME PriceInv, UpgradeInv, NEW max \in 0 .. NumValidators, FinalizeDelinquentUpgrade(max)
  PROVE  UpgradeInv'
<1>1. PriceInv' /\ TypeInv /\ TypeOK /\ TypeOK'
  <2>1. TypeInv'
    BY FinalizeTypes DEF PriceInv
  <2>2. UNCHANGED <<stakes, totalActiveBalance, coolingVars>>
    BY DEF FinalizeDelinquentUpgrade
  <2> QED BY <2>1, <2>2, SamePrice DEF PriceInv, TypeInv
<1>2. PICK last : last = MinOf(upgrader.visited + max, NumValidators)
  OBVIOUS
<1> DEFINE visits == upgrader.visited + 1 .. last
           surplus == [v \in Validators |-> validators[v].active - validators[v].recounted]
           moved == [v \in Validators |-> IF v \in visits THEN surplus[v] ELSE 0]
<1>3. /\ InValidators
      /\ \A v \in visits : validators[v].active >= validators[v].recounted
      /\ upgrader.delinquent - Excess(last) >= 0
      /\ last = NumValidators => upgrader.delinquent - Excess(last) = 0
      /\ validators' = [v \in Validators |->
           IF v \in visits THEN Finalized(validators[v]) ELSE validators[v]]
      /\ upgrader' = IF last = NumValidators THEN Done
                     ELSE IteratingValidators(last, upgrader.delinquent - Excess(last))
      /\ UNCHANGED <<stakes, native, totalActiveBalance, coolingVars, reserveBalance>>
  BY <1>2 DEF FinalizeDelinquentUpgrade
<1>4. /\ upgrader.visited \in Nat /\ upgrader.delinquent \in Nat /\ NumValidators \in Nat
      /\ totalActiveBalance \in Nat
      /\ last \in 0 .. NumValidators
      /\ last # NumValidators => upgrader.visited <= last
  <2>1. upgrader.visited \in Nat /\ upgrader.delinquent \in Nat /\ NumValidators \in Nat
        /\ totalActiveBalance \in Nat
    BY <1>1, UpgradeAssumption DEF TypeOK, Upgrader
  <2> QED BY <1>2, <2>1 DEF MinOf
<1>5. visits \subseteq Validators /\ IsFiniteSet(visits)
  <2>1. visits \subseteq Validators
    BY <1>4 DEF Validators
  <2> QED BY <2>1, ValidatorsFinite, FS_Subset
<1>6. \A v \in Validators : validators[v].active \in Nat /\ validators[v].recounted \in Nat
  BY <1>1 DEF TypeOK, ValidatorRecord
<1>7. /\ AllCounted /\ CountedIsActive
      /\ Total(Validators, Active) = totalActiveBalance + upgrader.delinquent
      /\ upgrader.delinquent = Excess(NumValidators)
      /\ ~InStakes /\ upgrader.phase # "Done"
  BY <1>3 DEF UpgradeInv, InStakes, InValidators
<1>8. Excess(last) \in Nat
  BY <1>1, <1>3, <1>4, ExcessType
<1>9. \A v \in Validators :
        /\ v \in visits => validators'[v].active = validators[v].recounted
                           /\ validators'[v].recounted = 0
        /\ v \notin visits => validators'[v] = validators[v]
  BY <1>3 DEF Finalized
<1>10. Total(Validators, Active)' = Total(Validators, Active) - Excess(last)
  <2>1. \A v \in Validators : /\ Active[v] \in Nat /\ Active'[v] \in Nat /\ moved[v] \in Nat
                              /\ Active[v] = Active'[v] + moved[v]
    BY <1>3, <1>6, <1>9 DEF Active
  <2>2. \A v \in visits : surplus[v] = moved[v]
    BY <1>5
  <2>3. \A v \in Validators \ visits : moved[v] = 0
    OBVIOUS
  <2>4. Excess(last) = Total(visits, surplus)
    BY DEF Excess
  <2> HIDE DEF moved, surplus, visits
  <2>5. Total(Validators, Active) = Total(Validators, Active') + Total(Validators, moved)
    BY <2>1, ValidatorsFinite, TotalPlus
  <2>6. Total(visits, surplus) = Total(Validators, moved)
    BY <1>5, <2>2, <2>3, TotalOfPart
  <2>7. Total(Validators, Active') \in Nat
    BY <2>1, ValidatorsFinite, TotalType
  <2> QED BY <1>8, <2>4, <2>5, <2>6, <2>7
<1>11. upgrader'.delinquent = upgrader.delinquent - Excess(last)
  BY <1>3 DEF Done, IteratingValidators
<1>12. Total(Validators, Active)' = totalActiveBalance' + upgrader'.delinquent
  BY <1>3, <1>4, <1>7, <1>8, <1>10, <1>11
<1>13. \A v \in Validators : Total(Accounts, CountedStake(v))' = Total(Accounts, CountedStake(v))
  BY <1>3 DEF CountedStake, Counted
<1>14. ASSUME NEW v \in Validators
       PROVE  IF Settled(v)' THEN Exact(v)' ELSE Recounted(v)'
  <2>1. IF Settled(v) THEN Exact(v) ELSE Recounted(v)
    BY <1>7 DEF AllCounted
  <2>2. Settled(v) <=> v <= upgrader.visited
    BY <1>3, <1>7 DEF Settled
  <2>3. v \in Nat /\ v >= 1 /\ v <= NumValidators
    BY <1>4 DEF Validators
  <2>4. Settled(v)' <=> v <= last
    BY <1>3, <2>3 DEF Settled, InValidators, Done, IteratingValidators
  <2>5. CASE v \in visits
    BY <1>6, <1>9, <1>13, <2>1, <2>2, <2>3, <2>4, <2>5, <1>4 DEF Exact, Recounted
  <2>6. CASE v \notin visits /\ v <= last
    BY <1>4, <1>9, <1>13, <2>1, <2>2, <2>3, <2>4, <2>6 DEF Exact
  <2>7. CASE v > last
    <3>1. v \notin visits /\ ~(v <= upgrader.visited)
      BY <1>4, <2>3, <2>7
    <3> QED BY <1>4, <1>9, <1>13, <2>1, <2>2, <2>3, <2>4, <2>7, <3>1 DEF Recounted
  <2> QED BY <1>4, <2>3, <2>5, <2>6, <2>7
<1>15. AllCounted'
  BY <1>3, <1>7, <1>14 DEF AllCounted, Listed, Counted
<1>16. CountedIsActive'
  BY <1>3, <1>7 DEF CountedIsActive, Counted
<1>17. last # NumValidators => Excess(NumValidators)' = upgrader.delinquent - Excess(last)
  <2> SUFFICES ASSUME last # NumValidators
               PROVE  Excess(NumValidators)' = upgrader.delinquent - Excess(last)
    OBVIOUS
  <2> DEFINE rest == last + 1 .. NumValidators
             all == upgrader.visited + 1 .. NumValidators
             surplusNext == [v \in Validators |->
                               validators'[v].active - validators'[v].recounted]
  <2>1. upgrader.visited <= last
    BY <1>4
  <2>2. all = visits \cup rest /\ visits \cap rest = {} /\ rest \subseteq Validators
    BY <1>4, <2>1 DEF Validators
  <2>3. IsFiniteSet(rest)
    BY <2>2, ValidatorsFinite, FS_Subset
  <2>4. \A v \in visits \cup rest : surplus[v] \in Nat
    <3> SUFFICES ASSUME NEW v \in visits \cup rest PROVE surplus[v] \in Nat
      OBVIOUS
    <3>1. v \in Validators
      BY <1>5, <2>2
    <3>2. validators[v].recounted <= validators[v].active
      <4>1. CASE v \in visits
        BY <1>3, <1>6, <3>1, <4>1
      <4>2. CASE v \in rest
        <5>1. ~Settled(v)
          BY <1>4, <1>7, <2>1, <4>2 DEF Settled
        <5> QED BY <1>7, <3>1, <5>1 DEF AllCounted, Recounted
      <4> QED BY <4>1, <4>2
    <3> QED BY <1>6, <3>1, <3>2
  <2>5. Excess(NumValidators) = Total(all, surplus) /\ Excess(last) = Total(visits, surplus)
    BY DEF Excess
  <2>6. upgrader'.visited = last
    BY <1>3 DEF IteratingValidators
  <2>7. Excess(NumValidators)' = Total(rest, surplusNext)
    BY <2>6 DEF Excess
  <2>8. \A v \in rest : surplusNext[v] = surplus[v]
    BY <1>4, <1>9, <2>2
  <2> HIDE DEF visits, rest, all, surplus, surplusNext
  <2>9. Total(all, surplus) = Total(visits, surplus) + Total(rest, surplus)
    BY <1>5, <2>2, <2>3, <2>4, TotalUnion
  <2>10. Total(rest, surplusNext) = Total(rest, surplus)
    BY <2>8, TotalSame
  <2>11. Total(rest, surplus) \in Nat
    BY <2>3, <2>4, TotalType
  <2> QED BY <1>7, <1>8, <2>5, <2>7, <2>9, <2>10, <2>11
<1>18. ~InStakes'
  BY <1>3 DEF InStakes, Done, IteratingValidators
<1>19. /\ InValidators' => last # NumValidators
       /\ (upgrader.phase = "Done")' => last = NumValidators
  BY <1>3 DEF InValidators, Done, IteratingValidators
<1> QED BY <1>3, <1>11, <1>12, <1>15, <1>16, <1>17, <1>18, <1>19 DEF UpgradeInv

(* No number changes. *)
LEMMA SameNumbers ==
  ASSUME UpgradeInv, UNCHANGED programVars,
         \A a \in Accounts : native'[a].voter = native[a].voter,
         upgrader.phase # "Done" /\ CountedIsActive => CountedIsActive'
  PROVE  UpgradeInv'
<1>1. \A v \in Validators : CountedStake(v)' = CountedStake(v)
  BY DEF CountedStake, Counted
<1>2. /\ Active' = Active /\ RecountedBalance' = RecountedBalance
      /\ CountedAmount' = CountedAmount /\ CountedAccounts' = CountedAccounts
  BY DEF Active, RecountedBalance, CountedAmount, CountedAccounts, Counted
<1>3. Excess(NumValidators)' = Excess(NumValidators)
  BY DEF Excess
<1>4. \A v \in Validators : (Settled(v)' <=> Settled(v)) /\ (Exact(v)' <=> Exact(v))
                            /\ (Recounted(v)' <=> Recounted(v))
  BY <1>1 DEF Settled, InValidators, Exact, Recounted
<1>5. AllCounted => AllCounted'
  BY <1>4 DEF AllCounted, Listed, Counted
<1>6. InStakes => Tally(upgrader)'
  BY <1>2, <1>4 DEF UpgradeInv, Tally, InStakes
<1>7. InValidators => CountedIsActive'
  BY DEF UpgradeInv, InValidators
<1> QED BY <1>2, <1>3, <1>5, <1>6, <1>7 DEF UpgradeInv, InStakes, InValidators

LEMMA ChainStepNumbers ==
  ASSUME NoLateDelinquency, PriceInv, UpgradeInv, ChainStep
  PROVE  UpgradeInv'
<1>1. UNCHANGED programVars /\ VotersKept
  BY ChainStepEffect DEF PriceInv
<1>2. native \in [Accounts -> NativeStake]
  BY DEF PriceInv, TypeInv, TypeOK
<1>3. ASSUME upgrader.phase # "Done", CountedIsActive, NEW b \in Accounts, Counted(b)
      PROVE  native'[b].state = "active"
  <2>1. native[b].state = "active"
    BY <1>3 DEF CountedIsActive
  <2>2. ASSUME NEW a \in Accounts, NEW n \in Rewards, Reward(a, n)
        PROVE  native'[b].state = native[b].state
    BY <1>2, <2>2 DEF Reward, NativeStake
  <2>3. ASSUME NEW a \in Accounts, NEW n \in Slashes, Slash(a, n)
        PROVE  native'[b].state = native[b].state
    BY <1>2, <2>3 DEF Slash, NativeStake
  <2>4. ASSUME NEW a \in Accounts, NEW n \in Tips, Tip(a, n)
        PROVE  native'[b].state = native[b].state
    BY <1>2, <2>4 DEF Tip, NativeStake
  <2>5. ASSUME NEW a \in Accounts, Cool(a) PROVE native'[b].state = native[b].state
    BY <1>2, <2>1, <2>5 DEF Cool
  <2>6. ASSUME NEW a \in Accounts, DeactivateDelinquent(a)
        PROVE  native'[b].state = native[b].state
    <3>1. a # b
      BY <1>3, <2>6 DEF DeactivateDelinquent, NoLateDelinquency, Counted
    <3> QED BY <1>2, <2>6, <3>1 DEF DeactivateDelinquent
  <2> QED BY <2>1, <2>2, <2>3, <2>4, <2>5, <2>6 DEF ChainStep
<1>4. upgrader.phase # "Done" /\ CountedIsActive => CountedIsActive'
  BY <1>1, <1>3 DEF CountedIsActive, Counted
<1> QED BY <1>1, <1>4, SameNumbers DEF VotersKept

LEMMA NextNumbers ==
  ASSUME NoLateDelinquency
  PROVE  PriceInv /\ UpgradeInv /\ [Next]_vars => UpgradeInv'
<1> SUFFICES ASSUME PriceInv, UpgradeInv, [Next]_vars PROVE UpgradeInv'
  OBVIOUS
<1>1. ASSUME NEW a \in Accounts, NEW v \in Validators, NEW n \in Deposits,
             DepositStakeAccount(a, v, n)
      PROVE  UpgradeInv'
  BY <1>1, DepositInStakes, DepositCounted
<1>2. ASSUME NEW a \in Accounts, UpdateActive(a) PROVE UpgradeInv'
  BY <1>2, UpdateActiveInStakes, UpdateActiveCounted
<1>3. ASSUME NEW a \in Accounts, UpdateDeactivated(a) PROVE UpgradeInv'
  BY <1>3, UpdateDeactivatedInStakes, UpdateDeactivatedCounted
<1>4. ASSUME NEW max \in 0 .. NumValidators, FinalizeDelinquentUpgrade(max) PROVE UpgradeInv'
  BY <1>4, FinalizeInValidators
<1>5. ASSUME ChainStep PROVE UpgradeInv'
  BY <1>5, ChainStepNumbers
<1>6. CASE UNCHANGED vars
  BY <1>6, SameNumbers DEF vars, CountedIsActive, Counted
<1> QED BY <1>1, <1>2, <1>3, <1>4, <1>5, <1>6 DEF Next, UserStep, CrankStep

LEMMA InitNumbers == Init => UpgradeInv
<1> SUFFICES ASSUME Init PROVE UpgradeInv
  OBVIOUS
<1>1. /\ native \in [Accounts -> NativeStake]
      /\ \A a \in Accounts : native[a] # NoAccount => native[a].voter \in Validators
      /\ upgrader = IteratingStakes(0, 0, 0)
  BY InitTypes
<1>2. PICK emergencies \in SUBSET {a \in Accounts : native[a].state \in {"cooling", "cold"}},
           miscounted \in [Validators -> Nat] : OldInstance(emergencies, miscounted)
  BY InitTypes
<1>3. /\ stakes = [a \in Accounts |->
           IF a \in OldListed
           THEN [delegated |-> native[a].stake, emergency |-> a \in emergencies,
                 status |-> "Unknown"]
           ELSE NoRecord]
      /\ validators = [v \in Validators |->
           [active |-> Total({a \in OldActive : native[a].voter = v}, NativeStakes)
                         + miscounted[v],
            recounted |-> 0]]
      /\ totalActiveBalance = Total(OldActive, NativeStakes) + Total(Validators, miscounted)
  BY <1>2, Zenon DEF OldInstance, OldListed, OldActive, NativeStakes
<1>4. TypeOK
  BY InitPrice DEF PriceInv, TypeInv
<1>5. \A a \in Accounts : ~Counted(a)
  BY <1>3 DEF Counted, NoRecord
<1>6. /\ upgrader.phase = "IteratingStakes" /\ upgrader.visited = 0
      /\ upgrader.active = 0 /\ upgrader.delinquent = 0
  BY <1>1 DEF IteratingStakes
<1>7. Tally(upgrader)
  <2>1. CountedIsActive
    BY <1>5 DEF CountedIsActive
  <2>2. ASSUME NEW v \in Validators PROVE Recounted(v)
    <3>1. Total(Accounts, CountedStake(v)) = 0
      BY <1>5, TotalZero DEF CountedStake
    <3>2. validators[v].recounted = 0 /\ validators[v].active \in Nat
      BY <1>3, <1>4 DEF TypeOK, ValidatorRecord
    <3> QED BY <3>1, <3>2 DEF Recounted
  <2>3. Cardinality(CountedAccounts) = 0
    <3>1. CountedAccounts = {}
      BY <1>5 DEF CountedAccounts
    <3> QED BY <3>1, FS_EmptySet
  <2>4. Total(Validators, RecountedBalance) = 0
    BY <1>3, TotalZero DEF RecountedBalance
  <2>5. Total(Accounts, CountedAmount) = 0
    BY <1>5, TotalZero DEF CountedAmount
  <2> QED BY <1>6, <2>1, <2>2, <2>3, <2>4, <2>5 DEF Tally
<1>8. Total(Validators, Active) = totalActiveBalance
  <2> DEFINE voterOf == [a \in Accounts |-> native[a].voter]
             stakesOf == [v \in Validators |-> {a \in OldActive : native[a].voter = v}]
             stakeOf == [v \in Validators |-> Total(stakesOf[v], NativeStakes)]
  <2>1. OldActive \subseteq Accounts /\ IsFiniteSet(OldActive)
    <3>1. OldActive \subseteq Accounts
      BY DEF OldActive, OldListed
    <3> QED BY <3>1, UpgradeAssumption, FS_Subset
  <2>2. \A a \in Accounts : NativeStakes[a] \in Nat
    BY <1>1 DEF NativeStakes, NativeStake
  <2>3. \A a \in OldActive : voterOf[a] \in Validators /\ NativeStakes[a] \in Nat
    BY <1>1, <2>1, <2>2 DEF OldActive, OldListed
  <2>4. \A v \in Validators : \A a : a \in stakesOf[v] <=> a \in OldActive /\ voterOf[a] = v
    BY <2>1
  <2>5. \A v \in Validators : stakeOf[v] = Total(stakesOf[v], NativeStakes) /\ stakeOf[v] \in Nat
    <3> SUFFICES ASSUME NEW v \in Validators PROVE Total(stakesOf[v], NativeStakes) \in Nat
      OBVIOUS
    <3>1. stakesOf[v] \subseteq OldActive
      OBVIOUS
    <3> HIDE DEF stakesOf
    <3>2. IsFiniteSet(stakesOf[v])
      BY <2>1, <3>1, FS_Subset
    <3> QED BY <2>1, <2>2, <3>1, <3>2, TotalType
  <2>6. \A v \in Validators : Active[v] = stakeOf[v] + miscounted[v]
    BY <1>3 DEF Active
  <2> HIDE DEF voterOf, stakesOf, stakeOf
  <2>7. Total(OldActive, NativeStakes) = Total(Validators, stakeOf)
    <3>1. IsFiniteSet(OldActive) /\ IsFiniteSet(Validators)
      BY <2>1, ValidatorsFinite
    <3>2. Weighed(OldActive, NativeStakes)
      BY <2>3 DEF Weighed
    <3>3. SortedByKey(OldActive, voterOf, Validators, stakesOf)
      BY <2>3, <2>4 DEF SortedByKey
    <3>4. TotalledByPart(Validators, stakesOf, NativeStakes, stakeOf)
      BY <2>5 DEF TotalledByPart
    <3> QED BY <3>1, <3>2, <3>3, <3>4, TotalByKey
  <2>8. Total(Validators, Active) = Total(Validators, stakeOf) + Total(Validators, miscounted)
    BY <2>5, <2>6, ValidatorsFinite, TotalPlus
  <2> QED BY <1>3, <2>7, <2>8
<1>9. totalActiveBalance \in Nat
  BY <1>4 DEF TypeOK
<1> QED BY <1>6, <1>7, <1>8, <1>9 DEF UpgradeInv, InStakes, InValidators

LEMMA NumbersAlways ==
  ASSUME NoLateDelinquency
  PROVE  Spec => [](PriceInv /\ UpgradeInv)
<1>1. Init => UpgradeInv
  BY InitNumbers
<1>2. PriceInv /\ UpgradeInv /\ [Next]_vars => UpgradeInv'
  BY NextNumbers
<1> QED BY <1>1, <1>2, PriceAlways, PTL DEF Spec

(* While the stakes are iterated the recount is that of the visited records. *)
THEOREM StakesInLine ==
  ASSUME NoLateDelinquency
  PROVE  Spec => []StakeNumbersInLine
<1>1. UpgradeInv => StakeNumbersInLine
  BY DEF UpgradeInv, Tally, Recounted, StakeNumbersInLine, CountedAccounts, RecountedBalance
<1> QED BY <1>1, NumbersAlways, PTL

(* While the validators are iterated what is left is what those ahead have   *)
(* too much, so that no call of finalize_delinquent_upgrade fails.           *)
THEOREM ValidatorsInLine ==
  ASSUME NoLateDelinquency
  PROVE  Spec => []ValidatorNumbersInLine
<1>1. ASSUME PriceInv, UpgradeInv PROVE ValidatorNumbersInLine
  <2> SUFFICES ASSUME InValidators
               PROVE  /\ \A v \in Validators :
                           IF v <= upgrader.visited
                           THEN /\ validators[v].active = Total(Accounts, CountedStake(v))
                                /\ validators[v].recounted = 0
                           ELSE /\ validators[v].recounted = Total(Accounts, CountedStake(v))
                                /\ validators[v].active >= validators[v].recounted
                      /\ upgrader.delinquent = Excess(NumValidators)
    BY DEF ValidatorNumbersInLine
  <2>1. \A v \in Validators : IF Settled(v) THEN Exact(v) ELSE Recounted(v)
    BY <1>1 DEF UpgradeInv, AllCounted, InStakes, InValidators
  <2>2. \A v \in Validators : Settled(v) <=> v <= upgrader.visited
    BY DEF Settled, InValidators
  <2>3. \A v \in Validators : validators[v].active \in Nat /\ validators[v].recounted \in Nat
    BY <1>1 DEF PriceInv, TypeInv, TypeOK, ValidatorRecord
  <2>4. upgrader.delinquent = Excess(NumValidators)
    BY <1>1 DEF UpgradeInv
  <2> QED BY <2>1, <2>2, <2>3, <2>4 DEF Exact, Recounted
<1> QED BY <1>1, NumbersAlways, PTL

(* Once Done nothing of the old miscount or of the recount is left.          *)
THEOREM UpgradeIsExact ==
  ASSUME NoLateDelinquency
  PROVE  Spec => []ExactWhenDone
<1>1. ASSUME PriceInv, UpgradeInv PROVE ExactWhenDone
  <2> SUFFICES ASSUME upgrader.phase = "Done"
               PROVE  /\ \A a \in Accounts : stakes[a].status # "Unknown"
                      /\ \A v \in Validators : Exact(v)
                      /\ totalActiveBalance = Total(Validators, Active)
                      /\ delayedUnstakeCoolingDown = 0 /\ emergencyCoolingDown = 0
    BY DEF ExactWhenDone, Exact
  <2>1. AllCounted /\ \A v \in Validators : Settled(v)
    BY <1>1 DEF UpgradeInv, InStakes, Settled
  <2>2. \A a \in Accounts : stakes[a].status # "Unknown"
    BY <2>1 DEF AllCounted, Listed, Counted
  <2>3. totalActiveBalance = Total(Validators, Active)
    BY <1>1 DEF UpgradeInv, PriceInv, TypeInv, TypeOK
  <2> QED BY <2>1, <2>2, <2>3 DEF AllCounted
<1> QED BY <1>1, NumbersAlways, PTL
=============================================================================
