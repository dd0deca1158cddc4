------------------------ MODULE DelayedUnstakeProofs ------------------------
(* What is due can be paid once the extra wait of a claim is over, however  *)
(* many validators, stakes and tickets there are, without slashing and      *)
(* while nobody pauses the program.                                         *)
(*                                                                          *)
(* A ticket that is owed is covered in three ways in turn.  In the last     *)
(* slots the reserve and what cools down cover it, or what is missing is    *)
(* still to be unstaked from validators that may be split: DeltaCovers.     *)
(* Early in the next epoch the reserve covers it together with the stakes   *)
(* that have cooled down: EarlyCovered.  Once these are retrieved, the      *)
(* reserve alone does: ReserveCovers.  Each is kept by all that may happen  *)
(* in its part of an epoch, and leads to the next when the bot is done.     *)
EXTENDS DelayedUnstake, StakeSystemVault

USE DEF clockVars, listVars, coolingVars, balanceVars, reserveVars, ticketVars,
        deltaVars, moveVars, programVars

NoPause == MayPause = FALSE

(* What is owed to the tickets dated from epoch e or before.                *)
OwedTo(e) == [t \in Tickets |->
  IF tickets[t].createdEpoch <= e THEN tickets[t].lamports ELSE 0]
OwedBy(e) == Total(Tickets, OwedTo(e))

(* What is recorded of the stakes that were deactivated before this epoch.  *)
Retrievable == [a \in Accounts |->
  IF native[a].deactivation # Never /\ native[a].deactivation < epoch
  THEN stakes[a].delegated ELSE 0]

(* All that may pay tickets in the next epoch, and what the validators are  *)
(* to have when all that is owed is unstaked.                               *)
CoolingCover == reserveBalance + delayedUnstakeCoolingDown + emergencyCoolingDown
LeftToDivide == totalActiveBalance + CoolingCover - OwedBy(epoch)

SplitNow(v) == validators[v].lastDelta = epoch
AtTarget(v) == validators[v].active <= ValidatorStakeTarget(v, LeftToDivide)

(* The voter of a recorded stake stays on the list; outside the first slots *)
(* of an epoch a stake that is not deactivated is as its record says.       *)
UpToDate(a) ==
  Listed(a) =>
    /\ validators[native[a].voter].listed
    /\ /\ phase # "early"
       /\ stakes[a].status = "Active"
       /\ native[a].deactivation = Never
       => stakes[a].delegated = native[a].stake
RecordsUpToDate == \A a \in Accounts : UpToDate(a)

(* Stake-delta activity of this epoch is of its last slots.                 *)
DeltaOf(v) ==
  /\ validators[v].lastDelta <= epoch
  /\ SplitNow(v) => StakeDeltaBegun
DeltaInWindow ==
  /\ lastStakeDeltaEpoch <= epoch
  /\ StakeDeltaBegun => phase = "window"
  /\ \A v \in Validators : DeltaOf(v)

EarlyCovered ==
  phase = "early" =>
    OwedBy(epoch - 1) <= reserveBalance + Total(Accounts, Retrievable)
ReserveCovers ==
  phase = "settled" => OwedBy(epoch - 1) <= reserveBalance

(* In the last slots: covered, or every validator that was split already is *)
(* at its target, so that the others have what is missing.                  *)
DeltaCovers ==
  phase = "window" =>
    \/ OwedBy(epoch) <= CoolingCover
    \/ \A v \in Validators : SplitNow(v) => AtTarget(v)

TimelyInv ==
  /\ VaultInv /\ MeteredInv /\ ~paused
  /\ RecordsUpToDate /\ DeltaInWindow
  /\ EarlyCovered /\ ReserveCovers
-----------------------------------------------------------------------------
LEMMA OwedType ==
  ASSUME TypeOK, NEW e \in Int
  PROVE  /\ \A t \in Tickets : OwedTo(e)[t] \in Nat
         /\ OwedBy(e) \in Nat
<1>1. \A t \in Tickets : OwedTo(e)[t] \in Nat
  BY DEF OwedTo, TypeOK, Ticket
<1> QED BY <1>1, SetsAssumption, TotalType DEF OwedBy

LEMMA OwedTypeNext ==
  ASSUME TypeOK', NEW e \in Int
  PROVE  /\ \A t \in Tickets : OwedTo(e)'[t] \in Nat
         /\ OwedBy(e)' \in Nat
<1>1. \A t \in Tickets : OwedTo(e)'[t] \in Nat
  BY DEF OwedTo, TypeOK, Ticket
<1> QED BY <1>1, SetsAssumption, TotalType DEF OwedBy

(* What is owed by any epoch is not more than the tickets that circulate.   *)
LEMMA OwedOfCirculating ==
  ASSUME TypeOK, TicketsAddUp, NEW e \in Int
  PROVE  OwedBy(e) <= circulatingTicketBalance
<1>1. \A t \in Tickets : /\ OwedTo(e)[t] \in Nat /\ TicketLamports[t] \in Nat
                         /\ OwedTo(e)[t] <= TicketLamports[t]
  BY OwedType DEF OwedTo, TicketLamports, TypeOK, Ticket
<1> QED BY <1>1, SetsAssumption, TotalMonotone DEF OwedBy, TicketsAddUp

LEMMA OwedOfCirculatingNext ==
  ASSUME TypeOK', TicketsAddUp', NEW e \in Int
  PROVE  OwedBy(e)' <= circulatingTicketBalance'
<1>1. \A t \in Tickets : /\ OwedTo(e)'[t] \in Nat /\ TicketLamports'[t] \in Nat
                         /\ OwedTo(e)'[t] <= TicketLamports'[t]
  BY OwedTypeNext DEF OwedTo, TicketLamports, TypeOK, Ticket
<1> QED BY <1>1, SetsAssumption, TotalMonotone DEF OwedBy, TicketsAddUp

(* Once the wait is over, what is due is what was owed by the last epoch.   *)
LEMMA DueWhenSettled ==
  ASSUME TypeOK, phase = "settled"
  PROVE  Total(Tickets, DueLamports) = OwedBy(epoch - 1)
<1>1. \A t \in Tickets : DueLamports[t] = OwedTo(epoch - 1)[t]
  BY DEF DueLamports, Due, OwedTo, TypeOK, Ticket
<1> QED BY <1>1, TotalSame DEF OwedBy

LEMMA InvCovers == TimelyInv => DueTicketsCovered
<1> SUFFICES ASSUME TimelyInv, phase = "settled" PROVE DueCovered
  BY DEF DueTicketsCovered
<1>1. TypeOK
  BY DEF TimelyInv, VaultInv, SumsInv, TypeInv
<1>2. Total(Tickets, DueLamports) = OwedBy(epoch - 1)
  BY <1>1, DueWhenSettled
<1> QED BY <1>2 DEF DueCovered, TimelyInv, ReserveCovers

LEMMA InitTimely == Init => TimelyInv
<1> SUFFICES ASSUME Init PROVE TimelyInv
  OBVIOUS
<1>1. VaultInv /\ MeteredInv
  BY InitVault, InitMetered
<1>2. RecordsUpToDate /\ DeltaInWindow
  BY DEF Init, RecordsUpToDate, UpToDate, Listed, NoRecord, DeltaInWindow, DeltaOf,
         SplitNow, StakeDeltaBegun, NoValidator, Never
<1>3. OwedBy(epoch - 1) = 0
  <2>1. \A t \in Tickets : OwedTo(epoch - 1)[t] = 0
    BY DEF Init, OwedTo, NoTicket
  <2> QED BY <2>1, TotalZero DEF OwedBy
<1>4. Total(Accounts, Retrievable) = 0
  <2>1. \A a \in Accounts : Retrievable[a] = 0
    BY DEF Init, Retrievable, NoAccount, Never
  <2> QED BY <2>1, TotalZero
<1>5. EarlyCovered /\ ReserveCovers
  BY <1>3, <1>4 DEF EarlyCovered, ReserveCovers, Init
<1> QED BY <1>1, <1>2, <1>5 DEF TimelyInv, Init
-----------------------------------------------------------------------------
(* The epochs that are recorded get older together: nothing else changes.   *)
LEMMA OlderType ==
  ASSUME NEW e \in Epochs
  PROVE  /\ Older(e) \in Epochs
         /\ Older(e) = Never <=> e = Never
         /\ e \in Nat => Older(e) \in Nat
         /\ \A f \in Nat \ {0} : e <= f => Older(e) <= f - 1
<1>1. CASE e = Never
  BY <1>1 DEF Older, Epochs, Never
<1>2. CASE e \in Nat
  <2>1. e # Never
    BY <1>2 DEF Never
  <2>2. Older(e) = IF e > 1 THEN e - 1 ELSE 0
    BY <2>1 DEF Older, SatSub
  <2> QED BY <1>2, <2>1, <2>2 DEF Epochs, Never
<1> QED BY <1>1, <1>2 DEF Epochs

LEMMA NextEpochLists ==
  ASSUME TypeOK, NextEpoch
  PROVE  /\ TypeOK'
         /\ epoch' = epoch /\ epoch \in Nat \ {0}
         /\ phase = "window" /\ phase' = "early"
         /\ UNCHANGED <<paused, stakes, totalValidatorScore, balanceVars, reserveVars,
                        circulatingTicketBalance, circulatingTicketCount>>
         /\ \A a \in Accounts :
              /\ native'[a].voter = native[a].voter
              /\ native'[a].stake = native[a].stake
              /\ native'[a].extra = native[a].extra
              /\ native'[a].deactivation = Older(native[a].deactivation)
              /\ native[a] = NoAccount => native'[a] = NoAccount
         /\ \A v \in Validators :
              /\ validators'[v].listed = validators[v].listed
              /\ validators'[v].active = validators[v].active
              /\ validators'[v].score = validators[v].score
              /\ validators'[v].lastDelta = Older(validators[v].lastDelta)
              /\ validators[v] = NoValidator => validators'[v] = NoValidator
         /\ \A t \in Tickets :
              /\ tickets'[t].lamports = tickets[t].lamports
              /\ tickets'[t].createdEpoch = Older(tickets[t].createdEpoch)
<1>1. /\ epoch' = epoch /\ epoch \in Nat \ {0} /\ phase = "window" /\ phase' = "early"
      /\ UNCHANGED <<paused, stakes, totalValidatorScore, balanceVars, reserveVars,
                     circulatingTicketBalance, circulatingTicketCount,
                     extraStakeDeltaRuns, stakeMoved>>
      /\ lastStakeDeltaEpoch' = Older(lastStakeDeltaEpoch)
      /\ lastStakeMoveEpoch' = Older(lastStakeMoveEpoch)
  <2>1. epoch \in Nat /\ epoch = MaxEpoch
    BY DEF NextEpoch, TypeOK
  <2>2. epoch \in Nat \ {0}
    BY <2>1, EpochsAssumption
  <2> QED BY <2>2 DEF NextEpoch
<1>2. \A a \in Accounts :
        /\ native[a] \in NativeStake
        /\ native'[a] = [native[a] EXCEPT !.activation = Older(@), !.deactivation = Older(@)]
  BY DEF NextEpoch, TypeOK
<1>3. ASSUME NEW a \in Accounts
      PROVE  /\ native'[a] \in NativeStake
             /\ native'[a].voter = native[a].voter
             /\ native'[a].stake = native[a].stake
             /\ native'[a].extra = native[a].extra
             /\ native'[a].deactivation = Older(native[a].deactivation)
             /\ native[a] = NoAccount => native'[a] = NoAccount
  <2>1. Older(native[a].activation) \in Nat /\ Older(native[a].deactivation) \in Epochs
    BY <1>2, OlderType DEF NativeStake, Epochs
  <2>2. /\ native'[a] \in NativeStake
        /\ native'[a].voter = native[a].voter
        /\ native'[a].stake = native[a].stake
        /\ native'[a].extra = native[a].extra
        /\ native'[a].activation = Older(native[a].activation)
        /\ native'[a].deactivation = Older(native[a].deactivation)
    BY <1>2, <2>1 DEF NativeStake
  <2>3. Older(0) = 0 /\ Older(Never) = Never
    BY DEF Older, SatSub, Never
  <2>4. ASSUME native[a] = NoAccount PROVE native'[a] = NoAccount
    BY <2>2, <2>3, <2>4 DEF NativeStake, NoAccount
  <2> QED BY <2>2, <2>4
<1>4. \A v \in Validators :
        /\ validators[v] \in ValidatorRecord
        /\ validators'[v] = [validators[v] EXCEPT !.lastDelta = Older(@)]
  BY DEF NextEpoch, TypeOK
<1>5. ASSUME NEW v \in Validators
      PROVE  /\ validators'[v] \in ValidatorRecord
             /\ validators'[v].listed = validators[v].listed
             /\ validators'[v].active = validators[v].active
             /\ validators'[v].score = validators[v].score
             /\ validators'[v].lastDelta = Older(validators[v].lastDelta)
             /\ validators[v] = NoValidator => validators'[v] = NoValidator
  <2>1. Older(validators[v].lastDelta) \in Epochs /\ Older(Never) = Never
    BY <1>4, OlderType DEF ValidatorRecord, Older
  <2>2. /\ validators'[v] \in ValidatorRecord
        /\ validators'[v].listed = validators[v].listed
        /\ validators'[v].active = validators[v].active
        /\ validators'[v].score = validators[v].score
        /\ validators'[v].lastDelta = Older(validators[v].lastDelta)
    BY <1>4, <2>1 DEF ValidatorRecord
  <2>3. ASSUME validators[v] = NoValidator PROVE validators'[v] = NoValidator
    <3>1. Older(validators[v].lastDelta) = Never
      BY <2>1, <2>3 DEF NoValidator
    <3>2. validators'[v] = [NoValidator EXCEPT !.lastDelta = Never]
      BY <1>4, <2>3, <3>1
    <3> QED BY <2>3, <3>2 DEF NoValidator
  <2> QED BY <2>2, <2>3
<1>6. ASSUME NEW t \in Tickets
      PROVE  /\ tickets'[t] \in Ticket
             /\ tickets'[t].lamports = tickets[t].lamports
             /\ tickets'[t].createdEpoch = Older(tickets[t].createdEpoch)
  <2>1. tickets[t] \in Ticket /\ tickets'[t] = [tickets[t] EXCEPT !.createdEpoch = Older(@)]
    BY DEF NextEpoch, TypeOK
  <2>2. Older(tickets[t].createdEpoch) \in Nat
    BY <2>1, OlderType DEF Ticket, Epochs
  <2> QED BY <2>1, <2>2, Zenon DEF Ticket
<1>7. TypeOK'
  <2>1. native' \in [Accounts -> NativeStake]
    BY <1>3, Zenon DEF NextEpoch
  <2>2. validators' \in [Validators -> ValidatorRecord]
    BY <1>5, Zenon DEF NextEpoch
  <2>3. tickets' \in [Tickets -> Ticket]
    BY <1>6, Zenon DEF NextEpoch
  <2>4. lastStakeDeltaEpoch' \in Epochs /\ lastStakeMoveEpoch' \in Nat
    BY <1>1, OlderType DEF TypeOK, Epochs
  <2> QED BY <1>1, <2>1, <2>2, <2>3, <2>4 DEF TypeOK, Phases
<1> QED BY <1>1, <1>3, <1>4, <1>5, <1>6, <1>7

LEMMA NextEpochVault ==
  ASSUME VaultInv, MeteredInv, NextEpoch
  PROVE  VaultInv' /\ MeteredInv'
<1>0. TypeOK /\ StatusAgreesWithNative
  BY DEF VaultInv, SumsInv, TypeInv
<1>1. /\ TypeOK' /\ epoch' = epoch /\ epoch \in Nat \ {0}
      /\ UNCHANGED <<stakes, totalValidatorScore, balanceVars, reserveVars,
                     circulatingTicketBalance, circulatingTicketCount>>
  BY <1>0, NextEpochLists
<1>2. \A a \in Accounts :
        /\ native'[a].voter = native[a].voter
        /\ native'[a].stake = native[a].stake
        /\ native'[a].deactivation = Older(native[a].deactivation)
        /\ native[a] = NoAccount => native'[a] = NoAccount
  BY <1>0, NextEpochLists
<1>3. \A v \in Validators :
        /\ validators'[v].listed = validators[v].listed
        /\ validators'[v].active = validators[v].active
        /\ validators'[v].score = validators[v].score
        /\ validators[v] = NoValidator => validators'[v] = NoValidator
  BY <1>0, NextEpochLists
<1>4. \A t \in Tickets : tickets'[t].lamports = tickets[t].lamports
  BY <1>0, NextEpochLists
<1>5. \A a \in Accounts :
        /\ native'[a].deactivation = Never <=> native[a].deactivation = Never
        /\ native'[a].deactivation <= epoch - 1
  <2> TAKE a \in Accounts
  <2>1. native[a].deactivation \in Epochs /\ native[a].deactivation <= epoch
    BY <1>0 DEF TypeOK, NativeStake, MeteredInv, DeactivatedInPast
  <2> QED BY <1>1, <1>2, <2>1, OlderType
<1>6. StatusAgreesWithNative'
  <2>1. ASSUME NEW a \in Accounts PROVE RecordAgrees(a)'
    <3>1. RecordAgrees(a) /\ stakes'[a] = stakes[a]
      BY <1>0, <1>1 DEF StatusAgreesWithNative
    <3> QED BY <1>2, <1>5, <3>1 DEF RecordAgrees, Listed
  <2>2. ASSUME NEW v \in Validators, ~validators'[v].listed
        PROVE  validators'[v] = NoValidator
    BY <1>0, <1>3, <2>2 DEF StatusAgreesWithNative
  <2> QED BY <2>1, <2>2 DEF StatusAgreesWithNative
<1>7. BalancesAddUp'
  BY <1>1, <1>2, <1>3, NoPartMoves DEF VaultInv, SumsInv
<1>8. ScoresAddUp'
  <2>1. \A v \in Validators : Score'[v] = Score[v]
    BY <1>3 DEF Score
  <2>2. Total(Validators, Score') = Total(Validators, Score)
    BY <2>1, TotalSame
  <2> QED BY <1>1, <2>2 DEF ScoresAddUp, VaultInv, SumsInv
<1>9. TicketsAddUp'
  <2>1. \A t \in Tickets : TicketLamports'[t] = TicketLamports[t]
    BY <1>4 DEF TicketLamports
  <2>2. Total(Tickets, TicketLamports') = Total(Tickets, TicketLamports)
    BY <2>1, TotalSame
  <2>3. {t \in Tickets : tickets'[t].lamports # 0} = {t \in Tickets : tickets[t].lamports # 0}
    BY <1>4
  <2> QED BY <1>1, <2>2, <2>3 DEF TicketsAddUp, VaultInv, SumsInv
<1>10. SumsInv'
  BY <1>1, <1>6, <1>7, <1>8, <1>9 DEF SumsInv, TypeInv, ReserveBacked, VaultInv
<1>11. RecordsBacked' /\ Solvent'
  BY <1>1, <1>2 DEF VaultInv, RecordsBacked, RecordBacked, Solvent, TotalLamportsUnderControl
<1>12. MeteredInv'
  <2>1. \A a \in Accounts : native'[a].deactivation <= epoch' /\ native'[a].deactivation # epoch'
    <3> TAKE a \in Accounts
    <3>1. native'[a].deactivation \in Epochs
      BY <1>1 DEF TypeOK, NativeStake
    <3> QED BY <1>1, <1>5, <3>1 DEF Epochs, Never
  <2>2. \A a \in Accounts : MovedNow'[a] = 0
    BY <2>1 DEF MovedNow
  <2>3. Total(Accounts, MovedNow') = 0
    BY <2>2, TotalZero
  <2> QED BY <1>1, <2>1, <2>3, MovedNowTypeNext DEF MeteredInv, DeactivatedInPast
<1> QED BY <1>10, <1>11, <1>12 DEF VaultInv

(* How an epoch begins, by its number or by the age of what is recorded.    *)
EpochBegins ==
  /\ phase = "window" /\ phase' = "early"
  /\ UNCHANGED <<paused, stakes, reserveBalance>>
  /\ \A a \in Accounts :
       /\ native'[a].voter = native[a].voter
       /\ native'[a].deactivation # Never /\ native'[a].deactivation < epoch'
            <=> native[a].deactivation # Never
  /\ \A v \in Validators :
       /\ validators'[v].listed = validators[v].listed
       /\ validators'[v].lastDelta < epoch'
  /\ lastStakeDeltaEpoch' < epoch'
  /\ \A t \in Tickets :
       /\ tickets'[t].lamports = tickets[t].lamports
       /\ tickets'[t].createdEpoch <= epoch' - 1 <=> tickets[t].createdEpoch <= epoch

LEMMA AdvanceEpochBegins ==
  ASSUME TypeOK, DeactivatedInPast, DeltaInWindow, AdvanceEpoch
  PROVE  EpochBegins
<1>1. /\ epoch \in Nat /\ epoch' = epoch + 1 /\ phase = "window" /\ phase' = "early"
      /\ UNCHANGED <<paused, stakes, reserveBalance, native, validators, tickets,
                     lastStakeDeltaEpoch>>
  BY DEF AdvanceEpoch, TypeOK
<1>2. \A a \in Accounts :
        /\ native'[a].voter = native[a].voter
        /\ native'[a].deactivation # Never /\ native'[a].deactivation < epoch'
             <=> native[a].deactivation # Never
  <2> TAKE a \in Accounts
  <2>1. native[a].deactivation \in Epochs /\ native[a].deactivation <= epoch
    BY DEF TypeOK, NativeStake, DeactivatedInPast
  <2> QED BY <1>1, <2>1 DEF Epochs, Never
<1>3. /\ \A v \in Validators :
           /\ validators'[v].listed = validators[v].listed
           /\ validators'[v].lastDelta < epoch'
      /\ lastStakeDeltaEpoch' < epoch'
  <2>1. lastStakeDeltaEpoch \in Epochs /\ lastStakeDeltaEpoch <= epoch
    BY DEF TypeOK, DeltaInWindow
  <2>2. ASSUME NEW v \in Validators
        PROVE  validators[v].lastDelta \in Epochs /\ validators[v].lastDelta <= epoch
    BY DEF TypeOK, ValidatorRecord, DeltaInWindow, DeltaOf
  <2> QED BY <1>1, <2>1, <2>2 DEF Epochs, Never
<1>4. \A t \in Tickets :
        /\ tickets'[t].lamports = tickets[t].lamports
        /\ tickets'[t].createdEpoch <= epoch' - 1 <=> tickets[t].createdEpoch <= epoch
  BY <1>1 DEF TypeOK, Ticket
<1> QED BY <1>1, <1>2, <1>3, <1>4 DEF EpochBegins

LEMMA NextEpochBegins ==
  ASSUME TypeOK, DeactivatedInPast, DeltaInWindow, NextEpoch
  PROVE  EpochBegins
<1>1. /\ epoch \in Nat \ {0} /\ epoch' = epoch /\ phase = "window" /\ phase' = "early"
      /\ UNCHANGED <<paused, stakes, reserveBalance>>
      /\ lastStakeDeltaEpoch' = Older(lastStakeDeltaEpoch)
  BY NextEpochLists DEF NextEpoch
<1>2. \A a \in Accounts :
        /\ native'[a].voter = native[a].voter
        /\ native'[a].deactivation # Never /\ native'[a].deactivation < epoch'
             <=> native[a].deactivation # Never
  <2> TAKE a \in Accounts
  <2>1. native[a].deactivation \in Epochs /\ native[a].deactivation <= epoch
    BY DEF TypeOK, NativeStake, DeactivatedInPast
  <2>2. /\ native'[a].voter = native[a].voter
        /\ native'[a].deactivation = Older(native[a].deactivation)
    BY NextEpochLists
  <2>3. /\ Older(native[a].deactivation) \in Epochs
        /\ Older(native[a].deactivation) = Never <=> native[a].deactivation = Never
        /\ Older(native[a].deactivation) <= epoch - 1
    BY <1>1, <2>1, OlderType
  <2> QED BY <1>1, <2>2, <2>3 DEF Epochs, Never
<1>3. /\ \A v \in Validators :
           /\ validators'[v].listed = validators[v].listed
           /\ validators'[v].lastDelta < epoch'
      /\ lastStakeDeltaEpoch' < epoch'
  <2>1. \A e \in Epochs : e <= epoch => Older(e) < epoch
    <3> TAKE e \in Epochs
    <3>1. Older(e) \in Epochs /\ (e <= epoch => Older(e) <= epoch - 1)
      BY <1>1, OlderType
    <3> QED BY <1>1, <3>1 DEF Epochs, Never
  <2>2. lastStakeDeltaEpoch \in Epochs /\ lastStakeDeltaEpoch <= epoch
    BY DEF TypeOK, DeltaInWindow
  <2>3. ASSUME NEW v \in Validators
        PROVE  /\ validators[v].lastDelta \in Epochs /\ validators[v].lastDelta <= epoch
               /\ validators'[v].listed = validators[v].listed
               /\ validators'[v].lastDelta = Older(validators[v].lastDelta)
    BY NextEpochLists DEF TypeOK, ValidatorRecord, DeltaInWindow, DeltaOf
  <2> QED BY <1>1, <2>1, <2>2, <2>3
<1>4. \A t \in Tickets :
        /\ tickets'[t].lamports = tickets[t].lamports
        /\ tickets'[t].createdEpoch <= epoch' - 1 <=> tickets[t].createdEpoch <= epoch
  <2> TAKE t \in Tickets
  <2>1. /\ tickets[t].createdEpoch \in Nat
        /\ tickets'[t].lamports = tickets[t].lamports
        /\ tickets'[t].createdEpoch = Older(tickets[t].createdEpoch)
    BY NextEpochLists DEF TypeOK, Ticket
  <2>2. tickets'[t].createdEpoch
          = IF tickets[t].createdEpoch > 1 THEN tickets[t].createdEpoch - 1 ELSE 0
    BY <2>1 DEF Older, SatSub, Never
  <2> QED BY <1>1, <2>1, <2>2
<1> QED BY <1>1, <1>2, <1>3, <1>4 DEF EpochBegins

(* What is deactivated when an epoch ends can be retrieved in the next.     *)
DeactivatedStake == [a \in Accounts |->
  IF native[a].deactivation # Never THEN stakes[a].delegated ELSE 0]

LEMMA EpochBeginsTimely ==
  ASSUME TypeOK, TypeOK', RecordsUpToDate, EpochBegins,
         OwedBy(epoch) <= reserveBalance + Total(Accounts, DeactivatedStake),
         \A a \in Accounts : Listed(a) => native[a].voter \in Validators
  PROVE  /\ RecordsUpToDate' /\ DeltaInWindow'
         /\ EarlyCovered' /\ ReserveCovers'
<1>1. RecordsUpToDate'
  BY DEF EpochBegins, RecordsUpToDate, UpToDate, Listed
<1>2. DeltaInWindow'
  <2>1. /\ epoch' \in Nat /\ lastStakeDeltaEpoch' \in Int
        /\ \A v \in Validators : validators'[v].lastDelta \in Int
    BY DEF TypeOK, ValidatorRecord, Epochs, Never
  <2> QED BY <2>1 DEF EpochBegins, DeltaInWindow, DeltaOf, SplitNow, StakeDeltaBegun
<1>3. OwedBy(epoch - 1)' = OwedBy(epoch)
  <2>1. \A t \in Tickets : OwedTo(epoch - 1)'[t] = OwedTo(epoch)[t]
    BY DEF EpochBegins, OwedTo
  <2> QED BY <2>1, TotalSame DEF OwedBy
<1>4. Total(Accounts, Retrievable') = Total(Accounts, DeactivatedStake)
  <2>1. \A a \in Accounts : Retrievable'[a] = DeactivatedStake[a]
    BY DEF EpochBegins, Retrievable, DeactivatedStake
  <2> QED BY <2>1, TotalSame
<1>5. EarlyCovered'
  BY <1>3, <1>4 DEF EarlyCovered, EpochBegins
<1> QED BY <1>1, <1>2, <1>5 DEF EpochBegins, ReserveCovers
-----------------------------------------------------------------------------
(* The last slots leave enough to the next epoch.                           *)

LEMMA TargetMonotone ==
  ASSUME TypeOK, NEW v \in Validators, NEW n \in Nat, NEW m \in Nat, n <= m
  PROVE  ValidatorStakeTarget(v, n) <= ValidatorStakeTarget(v, m)
<1>1. validators[v].score \in Nat /\ totalValidatorScore \in Nat
  BY DEF TypeOK, ValidatorRecord
<1>2. CASE totalValidatorScore = 0
  BY <1>2 DEF ValidatorStakeTarget
<1>3. CASE totalValidatorScore # 0
  <2> DEFINE s == validators[v].score
  <2>1. n * s \in Nat /\ m * s \in Nat /\ n * s <= m * s
    BY <1>1
  <2>2. (n * s) \div totalValidatorScore <= (m * s) \div totalValidatorScore
    BY <1>1, <1>3, <2>1, ShareMonotone
  <2> QED BY <1>3, <2>2 DEF ValidatorStakeTarget
<1> QED BY <1>2, <1>3

(* All the targets together are no more than what is divided.               *)
LEMMA TargetsFit ==
  ASSUME TypeOK, ScoresAddUp, NEW n \in Nat,
         NEW u, \A v \in Validators : u[v] = ValidatorStakeTarget(v, n)
  PROVE  Total(Validators, u) <= n
<1>1. CASE totalValidatorScore = 0
  <2>1. \A v \in Validators : u[v] = 0
    BY <1>1 DEF ValidatorStakeTarget
  <2>2. Total(Validators, u) = 0
    BY <2>1, TotalZero
  <2> QED BY <2>2
<1>2. CASE totalValidatorScore # 0
  <2>1. \A v \in Validators :
          Score[v] \in Nat /\ u[v] = (n * Score[v]) \div Total(Validators, Score)
    BY <1>2 DEF ScoresAddUp, Score, ValidatorStakeTarget, TypeOK, ValidatorRecord
  <2>2. Total(Validators, Score) # 0
    BY <1>2 DEF ScoresAddUp
  <2> QED BY <2>1, <2>2, SetsAssumption, SharesFit
<1> QED BY <1>1, <1>2

(* The stake that earns and is not on its way out, by account, validator    *)
(* and altogether.                                                          *)
Live(a) == stakes[a].status = "Active" /\ native[a].deactivation = Never
LiveStake == [a \in Accounts |-> IF Live(a) THEN stakes[a].delegated ELSE 0]
LiveOf(v) == [a \in Accounts |->
  IF Live(a) /\ native[a].voter = v THEN stakes[a].delegated ELSE 0]
LiveBalance == [v \in Validators |-> Total(Accounts, LiveOf(v))]

LEMMA LiveAndDeactivated ==
  ASSUME TypeInv
  PROVE  /\ Total(Accounts, RecordedStake)
              = Total(Accounts, LiveStake) + Total(Accounts, DeactivatedStake)
         /\ Total(Accounts, LiveStake) \in Nat /\ Total(Accounts, DeactivatedStake) \in Nat
<1>1. \A a \in Accounts : stakes[a].delegated \in Nat
  BY DEF TypeInv, TypeOK, StakeRecord
<1>2. \A a \in Accounts : LiveStake[a] \in Nat /\ DeactivatedStake[a] \in Nat
  BY <1>1 DEF LiveStake, DeactivatedStake
<1>3. ASSUME NEW a \in Accounts
      PROVE  RecordedStake[a] = LiveStake[a] + DeactivatedStake[a]
  <2>1. CASE native[a].deactivation # Never
    BY <1>1, <2>1 DEF RecordedStake, LiveStake, DeactivatedStake, Live
  <2>2. CASE native[a].deactivation = Never /\ Listed(a)
    <3>1. stakes[a].status = "Active"
      BY <2>2 DEF TypeInv, StatusAgreesWithNative, RecordAgrees, Listed, TypeOK, StakeRecord
    <3> QED BY <1>1, <2>2, <3>1 DEF RecordedStake, LiveStake, DeactivatedStake, Live
  <2>3. CASE native[a].deactivation = Never /\ ~Listed(a)
    <3>1. stakes[a].delegated = 0
      BY <2>3 DEF TypeInv, StatusAgreesWithNative, RecordAgrees, NoRecord
    <3> QED BY <2>3, <3>1 DEF RecordedStake, LiveStake, DeactivatedStake, Live
  <2> QED BY <2>1, <2>2, <2>3
<1> QED BY <1>2, <1>3, SetsAssumption, TotalPlus, TotalType

LEMMA LiveByValidator ==
  ASSUME TypeInv
  PROVE  Total(Accounts, LiveStake) = Total(Validators, LiveBalance)
<1> DEFINE S    == {a \in Accounts : Live(a)}
           key  == [a \in S |-> native[a].voter]
           part == [v \in Validators |-> {a \in S : native[a].voter = v}]
<1>1. IsFiniteSet(S) /\ S \in SUBSET Accounts
  BY SetsAssumption, FS_Subset
<1>2. Total(S, RecordedStake) = Total(Accounts, LiveStake)
  <2>1. \A a \in S : RecordedStake[a] = LiveStake[a]
    BY DEF RecordedStake, LiveStake
  <2>2. \A a \in Accounts \ S : LiveStake[a] = 0
    BY DEF LiveStake
  <2> HIDE DEF S
  <2> QED BY <1>1, <2>1, <2>2, TotalOfPart
<1>3. TotalledByPart(Validators, part, RecordedStake, LiveBalance)
  <2> SUFFICES ASSUME NEW v \in Validators
               PROVE  Total(Accounts, LiveOf(v)) = Total(part[v], RecordedStake)
    BY DEF TotalledByPart, LiveBalance
  <2>1. part[v] \in SUBSET Accounts
    OBVIOUS
  <2>2. \A a \in part[v] : RecordedStake[a] = LiveOf(v)[a]
    BY DEF RecordedStake, LiveOf
  <2>3. \A a \in Accounts \ part[v] : LiveOf(v)[a] = 0
    BY DEF LiveOf
  <2> HIDE DEF part
  <2> QED BY <2>1, <2>2, <2>3, TotalOfPart
<1>4. SortedByKey(S, key, Validators, part)
  <2>1. \A a \in S : native[a].voter \in Validators
    BY ListedVoter DEF Live, Listed
  <2> QED BY <2>1 DEF SortedByKey
<1>5. Weighed(S, RecordedStake)
  BY DEF Weighed, RecordedStake, TypeInv, TypeOK, StakeRecord
<1> HIDE DEF S, key, part
<1>6. Total(S, RecordedStake) = Total(Validators, LiveBalance)
  BY <1>1, <1>3, <1>4, <1>5, SetsAssumption, TotalByKey
<1> QED BY <1>2, <1>6

LEMMA LiveIsActive ==
  ASSUME TypeOK, ActiveBalancesAddUp, NEW v \in Validators
  PROVE  LiveBalance[v] \in Nat /\ LiveBalance[v] <= validators[v].active
<1>1. \A a \in Accounts : /\ LiveOf(v)[a] \in Nat /\ ActiveStake(v)[a] \in Nat
                          /\ LiveOf(v)[a] <= ActiveStake(v)[a]
  BY DEF LiveOf, ActiveStake, Live, TypeOK, StakeRecord
<1>2. Total(Accounts, LiveOf(v)) \in Nat
  BY <1>1, SetsAssumption, TotalType
<1>3. Total(Accounts, LiveOf(v)) <= Total(Accounts, ActiveStake(v))
  BY <1>1, SetsAssumption, TotalMonotone
<1> QED BY <1>2, <1>3 DEF LiveBalance, ActiveBalancesAddUp

(* What the validators are to have when all that is owed is unstaked is no   *)
(* less than what the crank divides among them.                              *)
LEMMA LeftIsMore ==
  ASSUME VaultInv, StakeDelta < 0
  PROVE  /\ SatSub(totalActiveBalance, -StakeDelta) \in Nat /\ LeftToDivide \in Nat
         /\ SatSub(totalActiveBalance, -StakeDelta) <= LeftToDivide
<1>1. /\ totalActiveBalance \in Nat /\ delayedUnstakeCoolingDown \in Nat
      /\ emergencyCoolingDown \in Nat /\ reserveBalance \in Nat
      /\ availableReserveBalance \in Nat /\ circulatingTicketBalance \in Nat
      /\ TypeOK /\ epoch \in Int
  BY DEF VaultInv, SumsInv, TypeInv, TypeOK
<1>2. OwedBy(epoch) \in Nat /\ OwedBy(epoch) <= circulatingTicketBalance
  BY <1>1, OwedType, OwedOfCirculating DEF VaultInv, SumsInv
<1>3. circulatingTicketBalance <= totalActiveBalance + CoolingCover
  BY <1>1 DEF VaultInv, SumsInv, Solvent, ReserveBacked, TotalLamportsUnderControl, CoolingCover
<1>4. StakeDelta = CoolingCover - circulatingTicketBalance
  BY <1>1 DEF StakeDelta, MinOf, CoolingCover
<1> QED BY <1>1, <1>2, <1>3, <1>4 DEF SatSub, LeftToDivide, CoolingCover

(* The bot is done: a validator that may still be split, and has live stake, *)
(* has no more than its target.                                              *)
LEMMA DoneAtTarget ==
  ASSUME TimelyInv, RoomForSplit, CranksDone, phase = "window", StakeDelta < 0,
         NEW v \in Validators, \/ ~SplitNow(v)
                               \/ AtTarget(v)
  PROVE  LiveBalance[v] <= ValidatorStakeTarget(v, LeftToDivide)
<1>1. /\ VaultInv /\ TypeInv /\ TypeOK /\ ActiveBalancesAddUp
      /\ LeftToDivide \in Nat
  BY LeftIsMore DEF TimelyInv, VaultInv, SumsInv, TypeInv, BalancesAddUp
<1>2. /\ LiveBalance[v] \in Nat /\ LiveBalance[v] <= validators[v].active
      /\ ValidatorStakeTarget(v, LeftToDivide) \in Nat /\ validators[v].active \in Nat
  BY <1>1, LiveIsActive, ValidatorStakeTargetType DEF TypeOK, ValidatorRecord
<1>3. CASE AtTarget(v)
  BY <1>2, <1>3 DEF AtTarget
<1>4. ASSUME ~SplitNow(v), NEW a \in Accounts, Live(a), native[a].voter = v
      PROVE  LiveBalance[v] <= ValidatorStakeTarget(v, LeftToDivide)
  <2>1. Listed(a) /\ ~stakes[a].emergency
    BY <1>1, <1>4 DEF Live, Listed, TypeInv, StatusAgreesWithNative, RecordAgrees
  <2>2. CheckStakeAmountAndValidator(a, v)
    BY <1>4, <2>1 DEF TimelyInv, RecordsUpToDate, UpToDate, Live, CheckStakeAmountAndValidator
  <2>3. ~UnstakeDue(a)
    BY DEF CranksDone
  <2>4. ~(validators[v].active > UnstakeTarget(v))
    BY <1>4, <2>1, <2>2, <2>3
    DEF UnstakeDue, TimelyInv, InStakeDeltaWindow, Live, RoomForSplit, SplitNow
  <2>5. /\ UnstakeTarget(v) \in Nat
        /\ UnstakeTarget(v) <= ValidatorStakeTarget(v, LeftToDivide)
    BY <1>1, UnstakeTargetType, LeftIsMore, TargetMonotone DEF UnstakeTarget
  <2> QED BY <1>2, <2>4, <2>5
<1>5. ASSUME ~ \E a \in Accounts : Live(a) /\ native[a].voter = v
      PROVE  LiveBalance[v] <= ValidatorStakeTarget(v, LeftToDivide)
  <2>1. \A a \in Accounts : LiveOf(v)[a] = 0
    BY <1>5 DEF LiveOf
  <2>2. LiveBalance[v] = 0
    BY <2>1, TotalZero DEF LiveBalance
  <2> QED BY <1>2, <2>2
<1> QED BY <1>3, <1>4, <1>5

LEMMA CoverPasses ==
  ASSUME TimelyInv, DeltaCovers, RoomForSplit, CranksDone, phase = "window"
  PROVE  OwedBy(epoch) <= reserveBalance + Total(Accounts, DeactivatedStake)
<1> DEFINE live == Total(Accounts, LiveStake)
           gone == Total(Accounts, DeactivatedStake)
           owed == OwedBy(epoch)
<1>1. /\ VaultInv /\ TypeInv /\ TypeOK /\ ActiveBalancesAddUp /\ RecordsAddUp /\ ScoresAddUp
      /\ TicketsAddUp
  BY DEF TimelyInv, VaultInv, SumsInv, TypeInv, BalancesAddUp
<1>2. /\ totalActiveBalance \in Nat /\ delayedUnstakeCoolingDown \in Nat
      /\ emergencyCoolingDown \in Nat /\ reserveBalance \in Nat
      /\ circulatingTicketBalance \in Nat /\ epoch \in Int
  BY <1>1 DEF TypeOK
<1>3. owed \in Nat /\ owed <= circulatingTicketBalance
  BY <1>1, <1>2, OwedType, OwedOfCirculating
<1>4. /\ live \in Nat /\ gone \in Nat
      /\ totalActiveBalance + delayedUnstakeCoolingDown + emergencyCoolingDown = live + gone
  BY <1>1, LiveAndDeactivated DEF RecordsAddUp
<1>5. live = Total(Validators, LiveBalance)
  BY <1>1, LiveByValidator
<1>6. CASE owed <= CoolingCover
  <2>1. \A v \in Validators : /\ LiveBalance[v] \in Nat /\ ActiveBalance[v] \in Nat
                              /\ LiveBalance[v] <= ActiveBalance[v]
    BY <1>1, LiveIsActive DEF ActiveBalance, TypeOK, ValidatorRecord
  <2>2. live <= totalActiveBalance
    BY <1>1, <1>5, <2>1, SetsAssumption, TotalMonotone DEF ActiveBalancesAddUp
  <2> HIDE DEF live, gone, owed
  <2> QED BY <1>2, <1>3, <1>4, <1>6, <2>2 DEF CoolingCover, owed, gone
<1>7. CASE owed > CoolingCover
  <2> DEFINE target == [v \in Validators |-> ValidatorStakeTarget(v, LeftToDivide)]
  <2>1. StakeDelta < 0
    <3> HIDE DEF owed
    <3> QED BY <1>2, <1>3, <1>7 DEF StakeDelta, MinOf, CoolingCover
  <2>2. LeftToDivide \in Nat
    BY <1>1, <2>1, LeftIsMore
  <2>3. ASSUME NEW v \in Validators
        PROVE  /\ LiveBalance[v] \in Nat /\ target[v] \in Nat
               /\ LiveBalance[v] <= target[v]
    <3>1. ~SplitNow(v) \/ AtTarget(v)
      <4>1. ~(owed <= CoolingCover)
        <5> HIDE DEF owed
        <5> QED BY <1>2, <1>3, <1>7 DEF CoolingCover
      <4> QED BY <4>1 DEF DeltaCovers
    <3>2. LiveBalance[v] \in Nat /\ ValidatorStakeTarget(v, LeftToDivide) \in Nat
      BY <1>1, <2>2, LiveIsActive, ValidatorStakeTargetType
    <3> QED BY <2>1, <3>1, <3>2, DoneAtTarget
  <2>4. Total(Validators, LiveBalance) <= Total(Validators, target)
    <3> HIDE DEF target
    <3> QED BY <2>3, SetsAssumption, TotalMonotone
  <2>5. Total(Validators, target) <= LeftToDivide
    BY <1>1, <2>2, TargetsFit
  <2>6. Total(Validators, target) \in Nat
    <3> HIDE DEF target
    <3> QED BY <2>3, SetsAssumption, TotalType
  <2> HIDE DEF target, live, gone, owed
  <2>7. live <= LeftToDivide
    BY <1>4, <1>5, <2>2, <2>4, <2>5, <2>6
  <2>8. LeftToDivide = totalActiveBalance + CoolingCover - owed
    BY DEF LeftToDivide, owed
  <2> QED BY <1>2, <1>3, <1>4, <2>2, <2>7, <2>8 DEF CoolingCover, gone, owed
<1> QED BY <1>2, <1>3, <1>6, <1>7 DEF CoolingCover

(* The first slots: nothing that can be retrieved is left, and no record of  *)
(* an active stake is behind the chain.                                      *)
LEMMA RetrievedWhenDone ==
  ASSUME TimelyInv, CranksDone, phase = "early"
  PROVE  /\ OwedBy(epoch - 1) <= reserveBalance
         /\ \A a \in Accounts : Live(a) => stakes[a].delegated = native[a].stake
<1>1. \A a \in Accounts : ~UpdateDue(a) /\ UpToDate(a)
  BY DEF CranksDone, TimelyInv, RecordsUpToDate
<1>2. ASSUME NEW a \in Accounts
      PROVE  Retrievable[a] = 0
  <2>1. CASE ~Listed(a)
    BY <2>1 DEF Retrievable, TimelyInv, VaultInv, SumsInv, TypeInv, StatusAgreesWithNative,
                RecordAgrees, NoRecord, NoAccount
  <2>2. CASE Listed(a)
    BY <1>1, <2>2 DEF Retrievable, UpdateDue, UpToDate, CooledDown, TimelyInv
  <2> QED BY <2>1, <2>2
<1>3. Total(Accounts, Retrievable) = 0
  BY <1>2, TotalZero
<1>4. OwedBy(epoch - 1) <= reserveBalance
  BY <1>3 DEF TimelyInv, EarlyCovered, VaultInv, SumsInv, TypeInv, TypeOK
<1>5. \A a \in Accounts : Live(a) => stakes[a].delegated = native[a].stake
  BY <1>1 DEF Live, UpdateDue, UpToDate, TimelyInv, Listed
<1> QED BY <1>4, <1>5
-----------------------------------------------------------------------------
(* The accounts, step by step.  Within an epoch an account either stays what *)
(* it is, apart from rewards and tips, or it was not deactivated before and *)
(* is as its record says.                                                   *)
ListedStay == \A v \in Validators : validators[v].listed => validators'[v].listed

Stays(c) ==
  /\ stakes'[c] = stakes[c]
  /\ native'[c].voter = native[c].voter /\ native'[c].deactivation = native[c].deactivation
  /\ phase = "early" \/ native'[c].stake = native[c].stake
Moves(c) == native[c].deactivation = Never /\ UpToDate(c)'
AccountsMove == \A c \in Accounts : Stays(c) \/ Moves(c)

LEMMA ListsStayAccountsMove ==
  ASSUME UNCHANGED <<stakes, native>>
  PROVE  AccountsMove
BY DEF AccountsMove, Stays

LEMMA NewAccountMoves ==
  ASSUME TypeInv, ListedStay, NEW a \in Accounts, NEW v \in Validators, NEW n \in Nat,
         NEW e \in Nat, Fresh(a), validators[v].listed,
         stakes' = [stakes EXCEPT ![a] = NewRecord(n, FALSE, "Active")],
         native' = [native EXCEPT ![a] = [voter |-> v, stake |-> n, extra |-> 0,
                                          activation |-> e, deactivation |-> Never]]
  PROVE  AccountsMove
<1>1. \A c \in Accounts \ {a} : Stays(c)
  BY DEF TypeInv, TypeOK, Stays
<1>2. native[a].deactivation = Never
  BY DEF Fresh, TypeInv, StatusAgreesWithNative, RecordAgrees, NoAccount
<1>3. stakes'[a].delegated = n /\ native'[a].stake = n /\ native'[a].voter = v
  BY DEF TypeInv, TypeOK, NewRecord
<1>4. UpToDate(a)'
  BY <1>3 DEF UpToDate, ListedStay
<1> QED BY <1>1, <1>2, <1>4 DEF AccountsMove, Moves

(* A stake that is not deactivated, of a listed validator, gets what its    *)
(* record gets.                                                             *)
LEMMA SameAccountMoves ==
  ASSUME TypeInv, ListedStay, NEW a \in Accounts, Listed(a),
         native[a].deactivation = Never, validators[native[a].voter].listed,
         \A c \in Accounts \ {a} : stakes'[c] = stakes[c] /\ native'[c] = native[c],
         native'[a].voter = native[a].voter,
         \/ native'[a].deactivation # Never
         \/ stakes'[a].delegated = native'[a].stake
  PROVE  AccountsMove
<1>1. \A c \in Accounts \ {a} : Stays(c)
  BY DEF Stays
<1>2. native[a].voter \in Validators
  BY ListedVoter
<1>3. Moves(a)
  BY <1>2 DEF Moves, UpToDate, ListedStay
<1> QED BY <1>1, <1>3 DEF AccountsMove

LEMMA UserStepAccounts ==
  ASSUME TypeInv, ListedStay, UserStep
  PROVE  AccountsMove
<1>1. ASSUME NEW a \in Accounts, NEW v \in Validators, NEW n \in StakeDeposits,
             NEW e \in 0 .. MaxEpoch, DepositStakeAccount(a, v, n, e)
      PROVE  AccountsMove
  <2>1. n \in Nat /\ e \in Nat
    BY AmountsAssumption
  <2> QED BY <1>1, <2>1, NewAccountMoves DEF DepositStakeAccount
<1>2. ASSUME NEW a \in Accounts, NEW n \in Withdrawals, WithdrawStakeAccount(a, n)
      PROVE  AccountsMove
  <2>1. /\ Listed(a) /\ native[a].deactivation = Never
        /\ validators[native[a].voter].listed /\ native[a].stake = stakes[a].delegated
    BY <1>2 DEF WithdrawStakeAccount, CheckStakeAmountAndValidator, Listed
  <2>2. /\ \A c \in Accounts \ {a} : stakes'[c] = stakes[c] /\ native'[c] = native[c]
        /\ native'[a].voter = native[a].voter
        /\ stakes'[a].delegated = stakes[a].delegated - n
        /\ native'[a].stake = native[a].stake - n
    BY <1>2 DEF WithdrawStakeAccount, TypeInv, TypeOK, StakeRecord, NativeStake
  <2> QED BY <2>1, <2>2, SameAccountMoves
<1>3. CASE \/ \E n \in Deposits : Deposit(n)
           \/ \E t \in Tickets, n \in Orders : OrderUnstake(t, n)
           \/ \E t \in Tickets : Claim(t)
  BY <1>3, ListsStayAccountsMove DEF Deposit, OrderUnstake, Claim
<1> QED BY <1>1, <1>2, <1>3 DEF UserStep

LEMMA DeactivationAccounts ==
  ASSUME TypeInv, ListedStay, NEW a \in Accounts, NEW b \in Accounts, NEW n \in Nat,
         NEW emergency \in BOOLEAN, Deactivated(a, b, n, emergency), UpToDate(a)
  PROVE  AccountsMove
<1>1. /\ stakes[a].status = "Active" /\ native[a].stake = stakes[a].delegated
      /\ Listed(a) /\ native[a].voter \in Validators /\ validators[native[a].voter].listed
  BY DEF Deactivated, Listed, UpToDate
<1>2. CASE DeactivateWhole(a, emergency)
  <2>1. /\ \A c \in Accounts \ {a} : stakes'[c] = stakes[c] /\ native'[c] = native[c]
        /\ native[a].deactivation = Never
        /\ native'[a].voter = native[a].voter /\ native'[a].deactivation = epoch
        /\ epoch # Never
    BY <1>2 DEF DeactivateWhole, TypeInv, TypeOK, StakeRecord, NativeStake, Never
  <2> QED BY <1>1, <2>1, SameAccountMoves
<1>3. CASE DeactivateSplit(a, b, n, emergency)
  <2>1. a # b /\ native[b] = NoAccount /\ native[a].deactivation = Never
    BY <1>1, <1>3 DEF DeactivateSplit, Fresh, Listed, TypeInv, StatusAgreesWithNative,
                      RecordAgrees
  <2>2. /\ \A c \in Accounts \ {a, b} : stakes'[c] = stakes[c] /\ native'[c] = native[c]
        /\ stakes'[a].delegated = stakes[a].delegated - n
        /\ native'[a].stake = native[a].stake - n
        /\ native'[a].voter = native[a].voter
    BY <1>3, <2>1 DEF DeactivateSplit, TypeInv, TypeOK, StakeRecord, NativeStake
  <2>3. native'[b].voter = native[a].voter /\ native'[b].stake = n
        /\ stakes'[b].delegated = n
    BY <1>3, <2>1 DEF DeactivateSplit, NewRecord, TypeInv, TypeOK, NativeStake
  <2>4. UpToDate(a)' /\ UpToDate(b)'
    BY <1>1, <2>2, <2>3 DEF UpToDate, ListedStay
  <2>5. Moves(a) /\ Moves(b)
    BY <2>1, <2>4 DEF Moves, NoAccount
  <2> QED BY <2>2, <2>5 DEF AccountsMove, Stays
<1> QED BY <1>2, <1>3 DEF Deactivated

LEMMA CrankStepAccounts ==
  ASSUME TypeInv, ListedStay, RecordsUpToDate, CrankStep,
         ~ \E a \in Accounts : UpdateDeactivated(a)
  PROVE  AccountsMove
<1>1. ASSUME NEW v \in Validators, NEW a \in Accounts, StakeReserve(v, a)
      PROVE  AccountsMove
  <2>1. AmountToStake(v) \in Nat /\ epoch \in Nat
    BY <1>1, AmountToStakeType DEF StakeReserve, StakeReserveRun, TypeInv, TypeOK
  <2> QED BY <1>1, <2>1, NewAccountMoves DEF StakeReserve, StakeReserveRun
<1>2. ASSUME NEW v \in Validators, StakeReserveNothing(v)
      PROVE  AccountsMove
  BY <1>2, ListsStayAccountsMove DEF StakeReserveNothing
<1>3. ASSUME NEW a \in Accounts, NEW b \in Accounts, DeactivateStake(a, b)
      PROVE  AccountsMove
  BY <1>3, DeactivateStakeEffect, DeactivationAccounts DEF RecordsUpToDate
<1>4. ASSUME NEW a \in Accounts, UpdateActive(a)
      PROVE  AccountsMove
  <2>1. /\ Listed(a) /\ native[a].deactivation = Never
        /\ validators[native[a].voter].listed
    BY <1>4 DEF UpdateActive, Listed
  <2>2. /\ \A c \in Accounts \ {a} : stakes'[c] = stakes[c] /\ native'[c] = native[c]
        /\ native'[a].voter = native[a].voter
        /\ stakes'[a].delegated = native[a].stake /\ native'[a].stake = native[a].stake
    BY <1>4 DEF UpdateActive, TypeInv, TypeOK, StakeRecord, NativeStake
  <2> QED BY <2>1, <2>2, SameAccountMoves
<1>5. ASSUME NEW v \in Validators, NEW s \in Accounts, CreateCanonicalStake(v, s)
      PROVE  AccountsMove
  <2> SUFFICES ASSUME NEW c \in Accounts, c = Canonical[v]
               PROVE  AccountsMove
    BY SetsAssumption
  <2>1. /\ c # s /\ native[s].deactivation = Never /\ native[c].deactivation = Never
        /\ native[s].voter = v /\ validators[v].listed
    BY <1>5 DEF CreateCanonicalStake, MovableStake, Listed, TypeInv, StatusAgreesWithNative,
                RecordAgrees, NoAccount
  <2>2. /\ \A d \in Accounts \ {c, s} : stakes'[d] = stakes[d] /\ native'[d] = native[d]
        /\ stakes'[c].delegated = native[s].stake /\ native'[c] = native[s]
        /\ stakes'[s] = NoRecord
    BY <1>5, <2>1 DEF CreateCanonicalStake, NewRecord, TypeInv, TypeOK
  <2>3. UpToDate(c)' /\ UpToDate(s)'
    BY <2>1, <2>2 DEF UpToDate, ListedStay, NoRecord, Listed
  <2> QED BY <2>1, <2>2, <2>3 DEF AccountsMove, Stays, Moves
<1>6. ASSUME NEW v \in Validators, NEW s \in Accounts, MergeStakes(v, s)
      PROVE  AccountsMove
  <2> SUFFICES ASSUME NEW c \in Accounts, c = Canonical[v]
               PROVE  AccountsMove
    BY SetsAssumption
  <2> DEFINE extra == IF native[c].activation = epoch THEN StakeRent ELSE 0
  <2>1. /\ c # s /\ native[s].deactivation = Never /\ native[c].deactivation = Never
        /\ native[c].voter = v /\ validators[v].listed
        /\ stakes[c].delegated = native[c].stake /\ stakes[s].delegated = native[s].stake
    BY <1>6 DEF MergeStakes, MovableStake
  <2>2. /\ \A d \in Accounts \ {c, s} : stakes'[d] = stakes[d] /\ native'[d] = native[d]
        /\ stakes'[c].delegated = stakes[c].delegated + stakes[s].delegated + extra
        /\ native'[c].stake = native[c].stake + native[s].stake + extra
        /\ native'[c].voter = native[c].voter
        /\ stakes'[s] = NoRecord
    <3> HIDE DEF extra
    <3>1. /\ stakes' = [stakes EXCEPT ![c].delegated = @ + stakes[s].delegated + extra,
                                      ![s] = NoRecord]
          /\ native' = [native EXCEPT ![c].stake = @ + native[s].stake + extra,
                                      ![s] = NoAccount]
      BY <1>6 DEF MergeStakes, extra
    <3> QED BY <2>1, <3>1 DEF TypeInv, TypeOK, StakeRecord, NativeStake
  <2>3. UpToDate(c)' /\ UpToDate(s)'
    BY <2>1, <2>2 DEF UpToDate, ListedStay, NoRecord, Listed
  <2> QED BY <2>1, <2>2, <2>3 DEF AccountsMove, Stays, Moves
<1> QED BY <1>1, <1>2, <1>3, <1>4, <1>5, <1>6, Zenon DEF CrankStep

LEMMA ManagerStepAccounts ==
  ASSUME TypeInv, ListedStay, RecordsUpToDate, ManagerStep
  PROVE  AccountsMove
<1>1. ASSUME NEW a \in Accounts, NEW b \in Accounts, NEW n \in Nat, EmergencyMove(a, b, n)
      PROVE  AccountsMove
  BY <1>1, DeactivationAccounts DEF EmergencyMove, RecordsUpToDate
<1>2. CASE \E a \in Accounts : EmergencyUnstake(a)
  BY <1>1, <1>2, EmergencyUnstakeEffect
<1>3. CASE \E a, b \in Accounts, n \in Unstakes : PartialUnstake(a, b, n)
  BY <1>1, <1>3, PartialUnstakeEffect
<1>4. CASE \/ \E v \in Validators, score \in Scores : AddValidator(v, score)
           \/ \E v \in Validators : RemoveValidator(v)
           \/ \E v \in Validators, score \in Scores : SetValidatorScore(v, score)
           \/ \E runs \in ExtraRuns : ConfigValidatorSystem(runs)
  <2>1. UNCHANGED <<stakes, native>>
    BY <1>4, ZenonT(90)
    DEF AddValidator, RemoveValidator, SetValidatorScore, ConfigValidatorSystem
  <2> QED BY <2>1, ListsStayAccountsMove
<1> QED BY <1>2, <1>3, <1>4, Zenon DEF ManagerStep

LEMMA ChainStepAccounts ==
  ASSUME NoSlashing, TypeInv, ListedStay, RecordsUpToDate, ChainStep
  PROVE  AccountsMove
<1>1. ASSUME NEW a \in Accounts, DeactivateDelinquent(a)
      PROVE  AccountsMove
  <2>1. /\ \A c \in Accounts \ {a} : stakes'[c] = stakes[c] /\ native'[c] = native[c]
        /\ native'[a].voter = native[a].voter /\ native'[a].deactivation = epoch
        /\ epoch # Never
    BY <1>1 DEF DeactivateDelinquent, TypeInv, TypeOK, NativeStake, Never
  <2>2. /\ Listed(a) /\ native[a].deactivation = Never
        /\ validators[native[a].voter].listed
    BY <1>1 DEF DeactivateDelinquent, RecordsUpToDate, UpToDate
  <2> QED BY <2>1, <2>2, SameAccountMoves
<1>2. ASSUME NEW a \in Accounts,
             \/ \E n \in Rewards : Reward(a, n)
             \/ \E n \in Tips : Tip(a, n)
      PROVE  AccountsMove
  BY <1>2 DEF Reward, Tip, AccountsMove, Stays, TypeInv, TypeOK, NativeStake
<1>3. CASE AdvancePhase \/ AdvanceEpoch \/ \E n \in Donations : Donate(n)
  BY <1>3, ListsStayAccountsMove DEF AdvancePhase, AdvanceEpoch, Donate
<1>4. ~ \E a \in Accounts, n \in Slashes : Slash(a, n)
  BY DEF NoSlashing
<1> QED BY <1>1, <1>2, <1>3, <1>4 DEF ChainStep

(* Within an epoch the records stay up to date, and what can be retrieved    *)
(* is retrieved or stays.                                                   *)
LEMMA OthersAccounts ==
  ASSUME NoSlashing, TypeInv, RecordsUpToDate, Others
  PROVE  \/ AccountsMove
         \/ \E a \in Accounts : UpdateDeactivated(a)
<1>1. ListedStay
  BY DEF Others, ListedStay
<1>2. CASE PauseStep
  BY <1>2, ListsStayAccountsMove DEF PauseStep, Pause, Resume
<1> QED BY <1>1, <1>2, UserStepAccounts, CrankStepAccounts, ManagerStepAccounts,
           ChainStepAccounts DEF Others, Next

LEMMA OthersRecords ==
  ASSUME NoSlashing, TypeInv, RecordsUpToDate, Others
  PROVE  RecordsUpToDate'
<1>1. ListedStay /\ UNCHANGED clockVars
  BY DEF Others, ListedStay
<1>2. ASSUME NEW c \in Accounts, Stays(c)
      PROVE  UpToDate(c)'
  <2>1. Listed(c)' => Listed(c) /\ native[c].voter \in Validators
    BY <1>2, ListedVoter DEF Stays, Listed
  <2> QED BY <1>1, <1>2, <2>1 DEF Stays, RecordsUpToDate, UpToDate, ListedStay
<1>3. ASSUME NEW a \in Accounts, UpdateDeactivated(a)
      PROVE  RecordsUpToDate'
  <2>1. /\ \A c \in Accounts \ {a} : stakes'[c] = stakes[c] /\ native'[c] = native[c]
        /\ stakes'[a] = NoRecord
    BY <1>3 DEF UpdateDeactivated, TypeInv, TypeOK
  <2>2. UpToDate(a)'
    BY <2>1 DEF UpToDate, Listed, NoRecord
  <2> QED BY <1>2, <2>1, <2>2 DEF RecordsUpToDate, Stays
<1> QED BY <1>2, <1>3, OthersAccounts DEF RecordsUpToDate, AccountsMove, Moves
-----------------------------------------------------------------------------
(* Stake-delta activity is recorded in the last slots, and forgotten of a   *)
(* validator that is listed anew.                                           *)
DeltaMarked ==
  /\ InStakeDeltaWindow /\ lastStakeDeltaEpoch' = epoch
  /\ \A w \in Validators : validators'[w].lastDelta \in {validators[w].lastDelta, epoch}
DeltaUnmarked ==
  /\ UNCHANGED lastStakeDeltaEpoch
  /\ \A w \in Validators : validators'[w].lastDelta \in {validators[w].lastDelta, Never}

LEMMA NextDelta ==
  ASSUME TypeInv, Next
  PROVE  \/ DeltaUnmarked
         \/ /\ DeltaMarked
            /\ \/ \E v \in Validators, a \in Accounts : StakeReserve(v, a)
               \/ \E a, b \in Accounts : DeactivateStake(a, b)
<1>0. validators \in [Validators -> ValidatorRecord]
  BY DEF TypeInv, TypeOK
<1>1. ASSUME UNCHANGED <<validators, lastStakeDeltaEpoch>>
      PROVE  DeltaUnmarked
  BY <1>1 DEF DeltaUnmarked
<1>2. CASE UserStep
  <2>1. ASSUME NEW a \in Accounts, NEW v \in Validators, NEW n \in StakeDeposits,
               NEW e \in 0 .. MaxEpoch, DepositStakeAccount(a, v, n, e)
        PROVE  DeltaUnmarked
    BY <1>0, <2>1 DEF DepositStakeAccount, DeltaUnmarked, ValidatorRecord
  <2>2. ASSUME NEW a \in Accounts, NEW n \in Withdrawals, WithdrawStakeAccount(a, n)
        PROVE  DeltaUnmarked
    BY <1>0, <2>2 DEF WithdrawStakeAccount, DeltaUnmarked, ValidatorRecord
  <2>3. CASE \/ \E n \in Deposits : Deposit(n)
             \/ \E t \in Tickets, n \in Orders : OrderUnstake(t, n)
             \/ \E t \in Tickets : Claim(t)
    BY <1>1, <2>3 DEF Deposit, OrderUnstake, Claim
  <2> QED BY <1>2, <2>1, <2>2, <2>3 DEF UserStep
<1>3. CASE CrankStep
  <2>1. ASSUME NEW v \in Validators, NEW a \in Accounts, StakeReserve(v, a)
        PROVE  DeltaMarked
    BY <1>0, <2>1 DEF StakeReserve, StakeReserveRun, DeltaMarked, ValidatorRecord
  <2>2. ASSUME NEW a \in Accounts, NEW b \in Accounts, DeactivateStake(a, b)
        PROVE  DeltaMarked
    <3>1. InStakeDeltaWindow /\ lastStakeDeltaEpoch' = epoch
      BY <2>2 DEF DeactivateStake
    <3>2. PICK n, l :
            /\ l \in {validators[native[a].voter].lastDelta, epoch}
            /\ validators' = [validators EXCEPT ![native[a].voter].active = @ - n,
                                                ![native[a].voter].lastDelta = l]
      <4> DEFINE v     == native[a].voter
                 keep  == AmountToKeep(a)
                 whole == keep < 2 * MinStake
                 n     == IF whole THEN stakes[a].delegated ELSE stakes[a].delegated - keep
                 l     == IF whole THEN validators[v].lastDelta ELSE epoch
      <4>1. validators' = [validators EXCEPT ![v].active = @ - n, ![v].lastDelta = l]
        BY <2>2 DEF DeactivateStake
      <4> QED BY <4>1
    <3> QED BY <1>0, <3>1, <3>2 DEF DeltaMarked, ValidatorRecord
  <2>3. ASSUME NEW a \in Accounts, UpdateActive(a)
        PROVE  DeltaUnmarked
    BY <1>0, <2>3 DEF UpdateActive, DeltaUnmarked, ValidatorRecord
  <2>4. ASSUME NEW a \in Accounts, UpdateDeactivated(a)
        PROVE  DeltaUnmarked
    BY <1>0, <2>4 DEF UpdateDeactivated, DeltaUnmarked, ValidatorRecord
  <2>5. ASSUME NEW v \in Validators, NEW s \in Accounts, MergeStakes(v, s)
        PROVE  DeltaUnmarked
    BY <1>0, <2>5 DEF MergeStakes, DeltaUnmarked, ValidatorRecord
  <2>6. CASE \/ \E v \in Validators : StakeReserveNothing(v)
             \/ \E v \in Validators, s \in Accounts : CreateCanonicalStake(v, s)
    BY <1>1, <2>6 DEF StakeReserveNothing, CreateCanonicalStake
  <2> QED BY <1>3, <2>1, <2>2, <2>3, <2>4, <2>5, <2>6, Zenon DEF CrankStep
<1>4. CASE ManagerStep
  <2>1. ASSUME NEW v \in Validators, NEW n \in Nat, MoveToEmergency(v, n)
        PROVE  DeltaUnmarked
    BY <1>0, <2>1 DEF MoveToEmergency, DeltaUnmarked, ValidatorRecord
  <2>2. ASSUME NEW a \in Accounts, EmergencyUnstake(a)
        PROVE  DeltaUnmarked
    <3>1. native[a].voter \in Validators /\ stakes[a].delegated \in Nat
      BY <2>2, ListedVoter DEF EmergencyUnstake, Listed, TypeInv, TypeOK, StakeRecord
    <3> QED BY <2>1, <2>2, <3>1 DEF EmergencyUnstake
  <2>3. ASSUME NEW a \in Accounts, NEW b \in Accounts, NEW n \in Unstakes,
               PartialUnstake(a, b, n)
        PROVE  DeltaUnmarked
    <3>1. native[a].voter \in Validators
      BY <2>3, ListedVoter DEF PartialUnstake, Listed
    <3>2. \E m : MoveToEmergency(native[a].voter, m)
      BY <2>3, Zenon DEF PartialUnstake
    <3> QED BY <1>0, <3>1, <3>2 DEF MoveToEmergency, DeltaUnmarked, ValidatorRecord
  <2>4. ASSUME NEW v \in Validators, NEW score \in Scores,
               AddValidator(v, score) \/ SetValidatorScore(v, score)
        PROVE  DeltaUnmarked
    BY <1>0, <2>4 DEF AddValidator, SetValidatorScore, DeltaUnmarked, ValidatorRecord
  <2>5. ASSUME NEW v \in Validators, RemoveValidator(v)
        PROVE  DeltaUnmarked
    BY <1>0, <2>5 DEF RemoveValidator, NoValidator, DeltaUnmarked
  <2>6. CASE \E runs \in ExtraRuns : ConfigValidatorSystem(runs)
    BY <1>1, <2>6 DEF ConfigValidatorSystem
  <2> QED BY <1>4, <2>2, <2>3, <2>4, <2>5, <2>6, Zenon DEF ManagerStep
<1>5. CASE PauseStep \/ ChainStep
  <2>1. UNCHANGED <<validators, lastStakeDeltaEpoch>>
    BY <1>5, ZenonT(90)
    DEF PauseStep, Pause, Resume, ChainStep, AdvancePhase, AdvanceEpoch, Reward, Slash, Tip,
        Donate, DeactivateDelinquent
  <2> QED BY <1>1, <2>1
<1> QED BY <1>2, <1>3, <1>4, <1>5, Zenon DEF Next

LEMMA OthersDelta ==
  ASSUME TypeInv, DeltaInWindow, Others
  PROVE  DeltaInWindow'
<1>1. /\ epoch \in Nat /\ lastStakeDeltaEpoch \in Epochs
      /\ \A v \in Validators : validators[v].lastDelta \in Epochs
      /\ UNCHANGED clockVars
  BY DEF Others, TypeInv, TypeOK, ValidatorRecord
<1>2. CASE DeltaMarked
  BY <1>1, <1>2 DEF DeltaMarked, DeltaInWindow, DeltaOf, SplitNow, StakeDeltaBegun,
                    InStakeDeltaWindow, Epochs, Never
<1>3. CASE DeltaUnmarked
  BY <1>1, <1>3 DEF DeltaUnmarked, DeltaInWindow, DeltaOf, SplitNow, StakeDeltaBegun,
                    Epochs, Never
<1> QED BY <1>2, <1>3, NextDelta DEF Others
-----------------------------------------------------------------------------
(* The tickets.  What is owed by an epoch is ordered no more once it is the  *)
(* last one, or stake-delta activity has begun; claims take it, and as much *)
(* of the reserve.                                                          *)
Claimed(n, e) ==
  /\ n <= OwedBy(e) /\ OwedBy(e)' = OwedBy(e) - n
  /\ n <= reserveBalance /\ reserveBalance' = reserveBalance - n
  /\ UNCHANGED <<listVars, balanceVars, totalValidatorScore, deltaVars>>

LEMMA ClaimOwed ==
  ASSUME TypeInv, TypeInv', NEW e \in Int, epoch - 1 <= e, NEW t \in Tickets, Claim(t)
  PROVE  \E n \in Nat : Claimed(n, e)
<1> DEFINE n == tickets[t].lamports
<1>1. /\ n \in Nat /\ tickets[t].createdEpoch \in Nat /\ epoch \in Nat
      /\ tickets[t].createdEpoch <= e
  BY DEF Claim, Payable, Due, TypeInv, TypeOK, Ticket
<1>2. /\ n <= reserveBalance /\ reserveBalance' = reserveBalance - n
      /\ UNCHANGED <<listVars, balanceVars, totalValidatorScore, deltaVars>>
      /\ tickets' = [tickets EXCEPT ![t] = NoTicket]
  BY Zenon DEF Claim, Payable
<1>3. /\ \A u \in Tickets : OwedTo(e)[u] \in Nat /\ OwedTo(e)'[u] \in Nat
      /\ OwedBy(e) \in Nat /\ OwedBy(e)' \in Nat
  BY OwedType, OwedTypeNext DEF TypeInv
<1>4. OwedTo(e)[t] = n /\ OwedTo(e)'[t] = 0
  BY <1>1, <1>2 DEF OwedTo, NoTicket, TypeInv, TypeOK
<1>5. \A u \in Tickets \ {t} : OwedTo(e)'[u] = OwedTo(e)[u]
  BY <1>2 DEF OwedTo, TypeInv, TypeOK
<1>6. OwedBy(e)' = OwedBy(e) + OwedTo(e)'[t] - OwedTo(e)[t]
  BY <1>3, <1>5, SetsAssumption, TotalChange DEF OwedBy
<1> HIDE DEF n
<1>7. n <= OwedBy(e) /\ OwedBy(e)' = OwedBy(e) - n
  BY <1>1, <1>3, <1>4, <1>6
<1> QED BY <1>1, <1>2, <1>7 DEF Claimed

LEMMA OrderOwed ==
  ASSUME TypeInv, TypeInv', NEW e \in Int, e < TicketEpoch, NEW t \in Tickets,
         NEW n \in Orders, OrderUnstake(t, n)
  PROVE  OwedBy(e)' = OwedBy(e)
<1>1. /\ tickets[t].lamports = 0
      /\ tickets' = [tickets EXCEPT ![t] = [lamports |-> n, createdEpoch |-> TicketEpoch]]
  BY DEF OrderUnstake
<1>2. TicketEpoch \in Int
  BY DEF TicketEpoch, TypeInv, TypeOK
<1>3. \A u \in Tickets : OwedTo(e)'[u] = OwedTo(e)[u]
  <2> TAKE u \in Tickets
  <2>1. CASE u = t
    <3>1. OwedTo(e)[t] = 0
      BY <1>1 DEF OwedTo
    <3>2. tickets'[t].createdEpoch = TicketEpoch
      BY <1>1 DEF TypeInv, TypeOK
    <3>3. OwedTo(e)'[t] = 0
      BY <1>2, <3>2 DEF OwedTo
    <3> QED BY <2>1, <3>1, <3>3
  <2>2. CASE u # t
    BY <1>1, <2>2 DEF OwedTo, TypeInv, TypeOK
  <2> QED BY <2>1, <2>2
<1> QED BY <1>3, TotalSame DEF OwedBy

LEMMA NextOwed ==
  ASSUME TypeInv, TypeInv', Next, UNCHANGED clockVars, NEW e \in Int,
         e = epoch - 1 \/ (e = epoch /\ StakeDeltaBegun)
  PROVE  \/ \E n \in Nat : Claimed(n, e)
         \/ OwedBy(e)' = OwedBy(e) /\ ~ \E t \in Tickets : Claim(t)
<1>1. CASE \E t \in Tickets : Claim(t)
  <2>1. epoch - 1 <= e
    BY DEF TypeInv, TypeOK
  <2> QED BY <1>1, <2>1, ClaimOwed
<1>2. CASE \E t \in Tickets, n \in Orders : OrderUnstake(t, n)
  <2>1. e < TicketEpoch
    BY DEF TicketEpoch, StakeDeltaBegun, TypeInv, TypeOK
  <2>2. OwedBy(e)' = OwedBy(e)
    BY <1>2, <2>1, OrderOwed
  <2> QED BY <1>1, <2>2
<1>3. ASSUME ~ \E t \in Tickets : Claim(t),
             ~ \E t \in Tickets, n \in Orders : OrderUnstake(t, n)
      PROVE  OwedBy(e)' = OwedBy(e)
  <2>1. ASSUME UNCHANGED tickets
        PROVE  OwedBy(e)' = OwedBy(e)
    BY <2>1 DEF OwedBy, OwedTo
  <2>2. CASE UserStep
    BY <1>3, <2>1, <2>2, ZenonT(90)
    DEF UserStep, Deposit, DepositStakeAccount, WithdrawStakeAccount
  <2>3. CASE CrankStep
    BY <2>1, <2>3, ZenonT(90)
    DEF CrankStep, StakeReserve, StakeReserveNothing, DeactivateStake, UpdateActive,
        UpdateDeactivated, CreateCanonicalStake, MergeStakes
  <2>4. CASE ManagerStep
    BY <2>1, <2>4, ZenonT(90)
    DEF ManagerStep, AddValidator, RemoveValidator, SetValidatorScore,
        ConfigValidatorSystem, EmergencyUnstake, PartialUnstake, MoveToEmergency
  <2>5. CASE PauseStep \/ ChainStep
    BY <2>1, <2>5, ZenonT(90)
    DEF PauseStep, Pause, Resume, ChainStep, AdvancePhase, AdvanceEpoch, Reward, Slash, Tip,
        Donate, DeactivateDelinquent
  <2> QED BY <2>2, <2>3, <2>4, <2>5 DEF Next
<1> QED BY <1>1, <1>2, <1>3

(* The epoch that an operator is asked about is the same in both states.    *)
LEMMA OwedInEpoch ==
  ASSUME UNCHANGED clockVars, NEW e, e = epoch
  PROVE  OwedBy(epoch) = OwedBy(e) /\ OwedBy(epoch)' = OwedBy(e)'
<1>1. \A t \in Tickets : OwedTo(epoch)[t] = OwedTo(e)[t] /\ OwedTo(epoch)'[t] = OwedTo(e)'[t]
  BY DEF OwedTo
<1> QED BY <1>1, TotalSame DEF OwedBy

LEMMA OwedBeforeEpoch ==
  ASSUME UNCHANGED clockVars, NEW e, e = epoch - 1
  PROVE  OwedBy(epoch - 1) = OwedBy(e) /\ OwedBy(epoch - 1)' = OwedBy(e)'
<1>1. \A t \in Tickets : /\ OwedTo(epoch - 1)[t] = OwedTo(e)[t]
                         /\ OwedTo(epoch - 1)'[t] = OwedTo(e)'[t]
  BY DEF OwedTo
<1> QED BY <1>1, TotalSame DEF OwedBy

(* Outside the last slots only a claim takes from the reserve.              *)
LEMMA ReserveStays ==
  ASSUME TypeInv, TypeInv', Next, ~ \E t \in Tickets : Claim(t), phase # "window"
  PROVE  reserveBalance <= reserveBalance'
<1>1. ~ \E v \in Validators, a \in Accounts : StakeReserve(v, a)
  BY DEF StakeReserve, StakeReserveRun, InStakeDeltaWindow
<1>2. ~ \E a, b \in Accounts : DeactivateStake(a, b)
  BY DEF DeactivateStake, InStakeDeltaWindow
<1>3. CASE \E a, b \in Accounts, n \in Nat : EmergencyMove(a, b, n)
  <2>1. UNCHANGED reserveBalance
    BY <1>3, Zenon DEF EmergencyMove, Deactivated
  <2> QED BY <2>1 DEF TypeInv, TypeOK
<1> QED BY <1>1, <1>2, <1>3, WhatIsNotQuiet DEF Quiet

LEMMA RetrievableType ==
  TypeOK => /\ \A a \in Accounts : Retrievable[a] \in Nat
            /\ Total(Accounts, Retrievable) \in Nat
<1> SUFFICES ASSUME TypeOK
             PROVE  /\ \A a \in Accounts : Retrievable[a] \in Nat
                    /\ Total(Accounts, Retrievable) \in Nat
  OBVIOUS
<1>1. \A a \in Accounts : Retrievable[a] \in Nat
  BY DEF Retrievable, TypeOK, StakeRecord
<1> QED BY <1>1, SetsAssumption, TotalType

LEMMA RetrievableTypeNext ==
  TypeOK' => (/\ \A a \in Accounts : Retrievable[a] \in Nat
              /\ Total(Accounts, Retrievable) \in Nat)'
BY RetrievableType, PTL

(* Early in an epoch what can be retrieved stays, or goes to the reserve.   *)
LEMMA RetrievableStays ==
  ASSUME NoSlashing, VaultInv, TypeInv', RecordsUpToDate, Others,
         ~ \E t \in Tickets : Claim(t), phase = "early"
  PROVE  reserveBalance + Total(Accounts, Retrievable)
           <= reserveBalance' + Total(Accounts, Retrievable')
<1>0. TypeInv /\ TypeOK /\ TypeOK' /\ RecordsBacked /\ UNCHANGED clockVars
  BY DEF VaultInv, SumsInv, TypeInv, Others
<1>1. /\ \A a \in Accounts : Retrievable[a] \in Nat /\ Retrievable'[a] \in Nat
      /\ Total(Accounts, Retrievable) \in Nat /\ Total(Accounts, Retrievable') \in Nat
      /\ reserveBalance \in Nat /\ reserveBalance' \in Nat
  BY <1>0, RetrievableType, RetrievableTypeNext DEF TypeOK
<1>2. ASSUME NEW c \in Accounts, Stays(c)
      PROVE  Retrievable'[c] = Retrievable[c]
  BY <1>0, <1>2 DEF Stays, Retrievable
<1>3. CASE AccountsMove
  <2>1. \A c \in Accounts : Retrievable[c] <= Retrievable'[c]
    <3> TAKE c \in Accounts
    <3>1. CASE Stays(c)
      BY <1>1, <1>2, <3>1
    <3>2. CASE Moves(c)
      <4>1. Retrievable[c] = 0
        BY <3>2 DEF Moves, Retrievable
      <4> QED BY <1>1, <4>1
    <3> QED BY <1>3, <3>1, <3>2 DEF AccountsMove
  <2>2. Total(Accounts, Retrievable) <= Total(Accounts, Retrievable')
    BY <1>1, <2>1, SetsAssumption, TotalMonotone
  <2>3. reserveBalance <= reserveBalance'
    BY <1>0, ReserveStays DEF Others
  <2> QED BY <1>1, <2>2, <2>3
<1>4. ASSUME NEW a \in Accounts, UpdateDeactivated(a)
      PROVE  reserveBalance + Total(Accounts, Retrievable)
               <= reserveBalance' + Total(Accounts, Retrievable')
  <2>1. \A c \in Accounts \ {a} : stakes'[c] = stakes[c] /\ native'[c] = native[c]
    BY <1>0, <1>4 DEF UpdateDeactivated, TypeOK
  <2>2. \A c \in Accounts \ {a} : Retrievable'[c] = Retrievable[c]
    BY <1>2, <2>1 DEF Stays
  <2>3. Total(Accounts, Retrievable')
          = Total(Accounts, Retrievable) + Retrievable'[a] - Retrievable[a]
    BY <1>1, <2>2, SetsAssumption, TotalChange
  <2>4. /\ stakes[a].delegated \in Nat /\ native[a].stake \in Nat /\ native[a].extra \in Nat
        /\ stakes[a].delegated <= native[a].stake
    BY <1>0 DEF TypeOK, StakeRecord, NativeStake, RecordsBacked, RecordBacked
  <2>5. Retrievable[a] <= stakes[a].delegated
    BY <2>4 DEF Retrievable
  <2>6. reserveBalance' = reserveBalance + (native[a].stake + native[a].extra)
    BY <1>4 DEF UpdateDeactivated, WithdrawToReserve
  <2> QED BY <1>1, <2>3, <2>4, <2>5, <2>6
<1> QED BY <1>0, <1>3, <1>4, OthersAccounts

LEMMA OthersCovered ==
  ASSUME NoSlashing, VaultInv, TypeInv', RecordsUpToDate, EarlyCovered, ReserveCovers, Others
  PROVE  EarlyCovered' /\ ReserveCovers'
<1>0. TypeInv /\ TypeOK /\ TypeOK' /\ Next /\ UNCHANGED clockVars
  BY DEF VaultInv, SumsInv, TypeInv, Others
<1> SUFFICES ASSUME NEW e \in Int, e = epoch - 1
             PROVE  EarlyCovered' /\ ReserveCovers'
  BY <1>0 DEF TypeOK
<1>1. /\ OwedBy(epoch - 1) = OwedBy(e) /\ OwedBy(epoch - 1)' = OwedBy(e)'
      /\ OwedBy(e) \in Nat
      /\ reserveBalance \in Nat /\ reserveBalance' \in Nat
      /\ Total(Accounts, Retrievable) \in Nat /\ Total(Accounts, Retrievable') \in Nat
  <2>1. OwedBy(epoch - 1) = OwedBy(e) /\ OwedBy(epoch - 1)' = OwedBy(e)'
    BY <1>0, OwedBeforeEpoch
  <2> QED BY <1>0, <2>1, OwedType, RetrievableType, RetrievableTypeNext DEF TypeOK
<1>2. ASSUME NEW n \in Nat, Claimed(n, e)
      PROVE  EarlyCovered' /\ ReserveCovers'
  <2>1. /\ OwedBy(e)' = OwedBy(e) - n /\ reserveBalance' = reserveBalance - n
        /\ UNCHANGED <<stakes, native>>
    BY <1>2 DEF Claimed
  <2>2. Total(Accounts, Retrievable') = Total(Accounts, Retrievable)
    <3>1. \A a \in Accounts : Retrievable'[a] = Retrievable[a]
      BY <1>0, <2>1 DEF Retrievable
    <3> QED BY <3>1, TotalSame
  <2> QED BY <1>0, <1>1, <2>1, <2>2 DEF EarlyCovered, ReserveCovers
<1>3. ASSUME OwedBy(e)' = OwedBy(e), ~ \E t \in Tickets : Claim(t)
      PROVE  EarlyCovered' /\ ReserveCovers'
  <2>1. EarlyCovered'
    <3> SUFFICES ASSUME phase = "early"
                 PROVE  OwedBy(epoch - 1)' <= reserveBalance' + Total(Accounts, Retrievable')
      BY <1>0 DEF EarlyCovered
    <3>1. reserveBalance + Total(Accounts, Retrievable)
            <= reserveBalance' + Total(Accounts, Retrievable')
      BY <1>3, RetrievableStays
    <3>2. OwedBy(e) <= reserveBalance + Total(Accounts, Retrievable)
      BY <1>1 DEF EarlyCovered
    <3> QED BY <1>1, <1>3, <3>1, <3>2
  <2>2. ReserveCovers'
    <3> SUFFICES ASSUME phase = "settled"
                 PROVE  OwedBy(epoch - 1)' <= reserveBalance'
      BY <1>0 DEF ReserveCovers
    <3>1. reserveBalance <= reserveBalance'
      BY <1>0, <1>3, ReserveStays
    <3> QED BY <1>1, <1>3, <3>1 DEF ReserveCovers
  <2> QED BY <2>1, <2>2
<1> QED BY <1>0, <1>2, <1>3, NextOwed
-----------------------------------------------------------------------------
(* The last slots.  What may pay the tickets of now grows with every step    *)
(* but a claim, and staking what is more than the tickets need.             *)
MoreCover ==
  /\ CoolingCover <= CoolingCover'
  /\ totalActiveBalance + CoolingCover <= totalActiveBalance' + CoolingCover'

LEMMA MoreInReserve ==
  ASSUME TypeOK, UNCHANGED balanceVars, NEW n \in Nat, reserveBalance' = reserveBalance + n
  PROVE  MoreCover
BY DEF TypeOK, MoreCover, CoolingCover

LEMMA NoLessCover ==
  ASSUME TypeOK, UNCHANGED <<coolingVars, reserveBalance>>
  PROVE  CoolingCover <= CoolingCover'
BY DEF TypeOK, CoolingCover

LEMMA CountersStayMoreCover ==
  ASSUME TypeOK, UNCHANGED <<balanceVars, reserveBalance>>
  PROVE  MoreCover
BY DEF TypeOK, MoreCover, CoolingCover

LEMMA UpdateDeactivatedMoreCover ==
  ASSUME TypeOK, RecordsBacked, NEW a \in Accounts, UpdateDeactivated(a)
  PROVE  MoreCover
<1> DEFINE n == stakes[a].delegated
           all == native[a].stake + native[a].extra
<1>1. n \in Nat /\ all \in Nat /\ n <= all
  BY DEF TypeOK, StakeRecord, NativeStake, RecordsBacked, RecordBacked
<1>2. reserveBalance' = reserveBalance + all
  BY DEF UpdateDeactivated, WithdrawToReserve
<1>3. \/ totalActiveBalance' = totalActiveBalance - n /\ UNCHANGED coolingVars
      \/ /\ delayedUnstakeCoolingDown' = delayedUnstakeCoolingDown - n
         /\ UNCHANGED <<totalActiveBalance, emergencyCoolingDown>>
      \/ /\ emergencyCoolingDown' = emergencyCoolingDown - n
         /\ UNCHANGED <<totalActiveBalance, delayedUnstakeCoolingDown>>
  BY Zenon DEF UpdateDeactivated
<1> HIDE DEF n, all
<1> QED BY <1>1, <1>2, <1>3 DEF TypeOK, MoreCover, CoolingCover

LEMMA DeactivationMoreCover ==
  ASSUME TypeOK, NEW n \in Nat, UNCHANGED reserveBalance,
         totalActiveBalance' = totalActiveBalance - n,
         \/ /\ delayedUnstakeCoolingDown' = delayedUnstakeCoolingDown + n
            /\ UNCHANGED emergencyCoolingDown
         \/ /\ emergencyCoolingDown' = emergencyCoolingDown + n
            /\ UNCHANGED delayedUnstakeCoolingDown
  PROVE  MoreCover /\ CoolingCover' = CoolingCover + n
BY DEF TypeOK, MoreCover, CoolingCover

LEMMA EmergencyMoveMoreCover ==
  ASSUME TypeOK, NEW a \in Accounts, NEW b \in Accounts, NEW n \in Nat,
         EmergencyMove(a, b, n)
  PROVE  MoreCover
<1>1. /\ UNCHANGED <<reserveBalance, delayedUnstakeCoolingDown>>
      /\ totalActiveBalance' = totalActiveBalance - n
      /\ emergencyCoolingDown' = emergencyCoolingDown + n
  BY Zenon DEF EmergencyMove, Deactivated
<1> QED BY <1>1, DeactivationMoreCover

LEMMA DeactivateStakeMoreCover ==
  ASSUME TypeInv, NEW a \in Accounts, NEW b \in Accounts, DeactivateStake(a, b)
  PROVE  MoreCover
<1>1. PICK n \in Nat :
        /\ Deactivated(a, b, n, FALSE)
        /\ delayedUnstakeCoolingDown' = delayedUnstakeCoolingDown + n
        /\ UNCHANGED emergencyCoolingDown
  BY DeactivateStakeEffect, Zenon
<1>2. totalActiveBalance' = totalActiveBalance - n /\ UNCHANGED reserveBalance
  BY <1>1, Zenon DEF Deactivated
<1> QED BY <1>1, <1>2, DeactivationMoreCover DEF TypeInv

(* The manager and the chain take nothing of it.                            *)
LEMMA ManagerStepMoreCover ==
  ASSUME TypeInv, ManagerStep
  PROVE  MoreCover
<1>1. CASE \E a \in Accounts : EmergencyUnstake(a)
  BY <1>1, EmergencyUnstakeEffect, EmergencyMoveMoreCover DEF TypeInv
<1>2. CASE \E a, b \in Accounts, n \in Unstakes : PartialUnstake(a, b, n)
  BY <1>2, PartialUnstakeEffect, EmergencyMoveMoreCover DEF TypeInv
<1>3. CASE \/ \E v \in Validators, score \in Scores : AddValidator(v, score)
           \/ \E v \in Validators : RemoveValidator(v)
           \/ \E v \in Validators, score \in Scores : SetValidatorScore(v, score)
           \/ \E runs \in ExtraRuns : ConfigValidatorSystem(runs)
  <2>1. UNCHANGED <<balanceVars, reserveBalance>>
    BY <1>3, ZenonT(90)
    DEF AddValidator, RemoveValidator, SetValidatorScore, ConfigValidatorSystem
  <2> QED BY <2>1, CountersStayMoreCover DEF TypeInv
<1> QED BY <1>1, <1>2, <1>3, Zenon DEF ManagerStep

LEMMA ChainStepMoreCover ==
  ASSUME TypeInv, PauseStep \/ ChainStep
  PROVE  MoreCover
<1>1. ASSUME NEW n \in Donations, Donate(n)
      PROVE  MoreCover
  <2>1. n \in Nat /\ reserveBalance' = reserveBalance + n /\ UNCHANGED balanceVars
    BY <1>1, AmountsAssumption DEF Donate
  <2> QED BY <2>1, MoreInReserve DEF TypeInv
<1>2. \/ \E n \in Donations : Donate(n)
      \/ UNCHANGED <<balanceVars, reserveBalance>>
  BY DEF PauseStep, Pause, Resume, ChainStep, AdvancePhase, AdvanceEpoch, Reward, Slash,
         Tip, DeactivateDelinquent
<1> QED BY <1>1, <1>2, CountersStayMoreCover DEF TypeInv

LEMMA CoverGrows ==
  ASSUME TypeInv, RecordsBacked, Next, ~ \E t \in Tickets : Claim(t),
         ~ \E v \in Validators, a \in Accounts : StakeReserve(v, a)
  PROVE  CoolingCover <= CoolingCover'
<1>0. TypeOK
  BY DEF TypeInv
<1>1. ASSUME MoreCover
      PROVE  CoolingCover <= CoolingCover'
  BY <1>1 DEF MoreCover
<1>2. CASE UserStep
  <2>1. ASSUME NEW n \in Deposits, Deposit(n)
        PROVE  MoreCover
    <3>1. n \in Nat /\ reserveBalance' = reserveBalance + n /\ UNCHANGED balanceVars
      BY <2>1, AmountsAssumption DEF Deposit
    <3> QED BY <1>0, <3>1, MoreInReserve
  <2>2. CASE \/ \E a \in Accounts, v \in Validators, n \in StakeDeposits, e \in 0 .. MaxEpoch :
                  DepositStakeAccount(a, v, n, e)
             \/ \E a \in Accounts, n \in Withdrawals : WithdrawStakeAccount(a, n)
             \/ \E t \in Tickets, n \in Orders : OrderUnstake(t, n)
    <3>1. UNCHANGED <<coolingVars, reserveBalance>>
      BY <2>2, ZenonT(90) DEF DepositStakeAccount, WithdrawStakeAccount, OrderUnstake
    <3> QED BY <1>0, <3>1, NoLessCover
  <2> QED BY <1>1, <1>2, <2>1, <2>2, Zenon DEF UserStep
<1>3. CASE CrankStep
  <2>1. ASSUME NEW a \in Accounts, UpdateActive(a)
        PROVE  CoolingCover <= CoolingCover'
    <3>1. /\ native[a].extra \in Nat /\ reserveBalance' = reserveBalance + native[a].extra
          /\ UNCHANGED coolingVars
      BY <1>0, <2>1 DEF UpdateActive, WithdrawToReserve, TypeOK, NativeStake
    <3> QED BY <1>0, <3>1 DEF TypeOK, CoolingCover
  <2>2. CASE \/ \E v \in Validators : StakeReserveNothing(v)
             \/ \E v \in Validators, s \in Accounts : CreateCanonicalStake(v, s)
             \/ \E v \in Validators, s \in Accounts : MergeStakes(v, s)
    <3>1. UNCHANGED <<coolingVars, reserveBalance>>
      BY <2>2, ZenonT(90) DEF StakeReserveNothing, CreateCanonicalStake, MergeStakes
    <3> QED BY <1>0, <3>1, NoLessCover
  <2>3. CASE \/ \E a \in Accounts : UpdateDeactivated(a)
             \/ \E a, b \in Accounts : DeactivateStake(a, b)
    BY <1>0, <1>1, <2>3, UpdateDeactivatedMoreCover, DeactivateStakeMoreCover
  <2> QED BY <1>3, <2>1, <2>2, <2>3, Zenon DEF CrankStep
<1> QED BY <1>1, <1>2, <1>3, ManagerStepMoreCover, ChainStepMoreCover DEF Next

(* In a calm epoch no step but the stake-delta instructions gives a          *)
(* validator more than it has, or another score.                            *)
ScoresStay ==
  /\ UNCHANGED totalValidatorScore
  /\ \A v \in Validators : /\ validators'[v].score = validators[v].score
                           /\ validators'[v].active <= validators[v].active

LEMMA ValidatorsStayScoresStay ==
  ASSUME TypeOK, UNCHANGED <<validators, totalValidatorScore>>
  PROVE  ScoresStay
BY DEF TypeOK, ValidatorRecord, ScoresStay

LEMMA LessActiveScoresStay ==
  ASSUME TypeOK, NEW v \in Validators, NEW n \in Int, UNCHANGED totalValidatorScore,
         validators' = [validators EXCEPT ![v].active = n], n <= validators[v].active
  PROVE  ScoresStay
BY DEF TypeOK, ValidatorRecord, ScoresStay

LEMMA EmergencyMoveScoresStay ==
  ASSUME TypeOK, NEW v \in Validators, NEW n \in Nat, MoveToEmergency(v, n)
  PROVE  ScoresStay
<1> DEFINE m == validators[v].active - n
<1>1. m \in Int /\ m <= validators[v].active
  BY DEF TypeOK, ValidatorRecord
<1>2. validators' = [validators EXCEPT ![v].active = m] /\ UNCHANGED totalValidatorScore
  BY DEF MoveToEmergency
<1> HIDE DEF m
<1> QED BY <1>1, <1>2, LessActiveScoresStay

LEMMA CalmManagerStep ==
  ASSUME TypeInv, Others, ManagerStep, ~Unsettling
  PROVE  ScoresStay
<1>0. TypeOK
  BY DEF TypeInv
<1>1. ASSUME NEW a \in Accounts, EmergencyUnstake(a)
      PROVE  ScoresStay
  <2>1. /\ native[a].voter \in Validators /\ stakes[a].delegated \in Nat
        /\ MoveToEmergency(native[a].voter, stakes[a].delegated)
    BY <1>0, <1>1, ListedVoter DEF EmergencyUnstake, Listed, TypeOK, StakeRecord
  <2> QED BY <1>0, <2>1, EmergencyMoveScoresStay
<1>2. ASSUME NEW a \in Accounts, NEW b \in Accounts, NEW n \in Unstakes,
             PartialUnstake(a, b, n)
      PROVE  ScoresStay
  <2>1. PICK m \in Nat : EmergencyMove(a, b, m)
    BY <1>2, PartialUnstakeEffect
  <2>2. native[a].voter \in Validators
    BY <1>2, ListedVoter DEF PartialUnstake, Listed
  <2>3. PICK k : MoveToEmergency(native[a].voter, k)
    BY <1>2, Zenon DEF PartialUnstake
  <2>4. /\ UNCHANGED totalValidatorScore
        /\ validators' = [validators EXCEPT ![native[a].voter].active = @ - k]
    BY <2>3 DEF MoveToEmergency
  <2>5. \A w \in Validators : validators'[w].score = validators[w].score
    BY <1>0, <2>2, <2>4 DEF TypeOK, ValidatorRecord
  <2>6. \A w \in Validators :
          validators'[w].active = validators[w].active - IF w = native[a].voter THEN m ELSE 0
    BY <2>1, Zenon DEF EmergencyMove
  <2>7. \A w \in Validators : validators'[w].active <= validators[w].active
    BY <1>0, <2>6 DEF TypeOK, ValidatorRecord
  <2> QED BY <2>4, <2>5, <2>7 DEF ScoresStay
<1>3. ~ \E v \in Validators, score \in Scores :
          AddValidator(v, score) \/ SetValidatorScore(v, score)
  BY DEF Unsettling
<1>4. ~ \E v \in Validators : RemoveValidator(v)
  BY <1>0 DEF RemoveValidator, NoValidator, Others, TypeOK
<1>5. CASE \E runs \in ExtraRuns : ConfigValidatorSystem(runs)
  BY <1>0, <1>5, ValidatorsStayScoresStay DEF ConfigValidatorSystem
<1> QED BY <1>1, <1>2, <1>3, <1>4, <1>5 DEF ManagerStep

LEMMA CalmCrankStep ==
  ASSUME TypeInv, RecordsBacked, RecordsUpToDate, phase # "early", CrankStep, ~Unsettling,
         ~ \E v \in Validators, a \in Accounts : StakeReserve(v, a),
         ~ \E a, b \in Accounts : DeactivateStake(a, b)
  PROVE  MoreCover /\ ScoresStay
<1>0. TypeOK
  BY DEF TypeInv
<1>1. ASSUME NEW a \in Accounts, UpdateActive(a)
      PROVE  MoreCover /\ ScoresStay
  <2> DEFINE v == native[a].voter
             m == validators[v].active + native[a].stake - stakes[a].delegated
  <2>1. v \in Validators /\ stakes[a].delegated = native[a].stake
    BY <1>1, ListedVoter DEF UpdateActive, Listed, RecordsUpToDate, UpToDate
  <2>2. /\ stakes[a].delegated \in Nat /\ validators[v].active \in Nat
        /\ totalActiveBalance \in Nat /\ native[a].extra \in Nat
    BY <1>0, <2>1 DEF TypeOK, StakeRecord, ValidatorRecord, NativeStake
  <2>3. /\ validators' = [validators EXCEPT ![v].active = m]
        /\ totalActiveBalance' = totalActiveBalance + native[a].stake - stakes[a].delegated
        /\ reserveBalance' = reserveBalance + native[a].extra
        /\ UNCHANGED <<coolingVars, totalValidatorScore>>
    BY <1>1 DEF UpdateActive, WithdrawToReserve
  <2>4. m \in Int /\ m <= validators[v].active /\ totalActiveBalance' = totalActiveBalance
    BY <2>1, <2>2, <2>3
  <2>5. ScoresStay
    <3> HIDE DEF v, m
    <3> QED BY <1>0, <2>1, <2>2, <2>3, <2>4, LessActiveScoresStay
  <2> QED BY <1>0, <2>2, <2>3, <2>4, <2>5, MoreInReserve
<1>2. ASSUME NEW a \in Accounts, UpdateDeactivated(a)
      PROVE  MoreCover /\ ScoresStay
  <2> DEFINE v == native[a].voter
             m == validators[v].active - stakes[a].delegated
  <2>1. v \in Validators /\ m \in Int /\ m <= validators[v].active
    BY <1>0, <1>2, ListedVoter DEF UpdateDeactivated, TypeOK, ValidatorRecord, StakeRecord
  <2>2. /\ UNCHANGED totalValidatorScore
        /\ \/ validators' = [validators EXCEPT ![v].active = m]
           \/ UNCHANGED validators
    BY <1>2 DEF UpdateDeactivated
  <2>3. ScoresStay
    <3> HIDE DEF v, m
    <3> QED BY <1>0, <2>1, <2>2, LessActiveScoresStay, ValidatorsStayScoresStay
  <2> QED BY <1>0, <1>2, <2>3, UpdateDeactivatedMoreCover
<1>3. ASSUME NEW v \in Validators, NEW s \in Accounts, MergeStakes(v, s)
      PROVE  MoreCover /\ ScoresStay
  <2>1. native[Canonical[v]].activation # epoch
    BY <1>3 DEF Unsettling
  <2> DEFINE m == validators[v].active + 0
  <2>2. /\ UNCHANGED <<coolingVars, reserveBalance, totalValidatorScore>>
        /\ totalActiveBalance' = totalActiveBalance + 0
        /\ validators' = [validators EXCEPT ![v].active = m]
    BY <1>3, <2>1 DEF MergeStakes
  <2>3. /\ totalActiveBalance' = totalActiveBalance
        /\ m \in Int /\ m <= validators[v].active
    BY <1>0, <2>2 DEF TypeOK, ValidatorRecord
  <2> HIDE DEF m
  <2>5. ScoresStay
    BY <1>0, <2>2, <2>3, LessActiveScoresStay
  <2> QED BY <1>0, <2>2, <2>3, <2>5, CountersStayMoreCover
<1>4. CASE \/ \E v \in Validators : StakeReserveNothing(v)
           \/ \E v \in Validators, s \in Accounts : CreateCanonicalStake(v, s)
  <2>1. UNCHANGED <<balanceVars, reserveBalance, validators, totalValidatorScore>>
    BY <1>4, ZenonT(90) DEF StakeReserveNothing, CreateCanonicalStake
  <2> QED BY <1>0, <2>1, CountersStayMoreCover, ValidatorsStayScoresStay
<1> QED BY <1>1, <1>2, <1>3, <1>4, Zenon DEF CrankStep

LEMMA CalmStep ==
  ASSUME TypeInv, RecordsBacked, RecordsUpToDate, Others, phase # "early", ~Unsettling,
         ~ \E t \in Tickets : Claim(t),
         ~ \E v \in Validators, a \in Accounts : StakeReserve(v, a),
         ~ \E a, b \in Accounts : DeactivateStake(a, b)
  PROVE  MoreCover /\ ScoresStay
<1>0. TypeOK
  BY DEF TypeInv
<1>1. CASE UserStep
  <2>1. ASSUME NEW n \in Deposits, Deposit(n)
        PROVE  MoreCover /\ ScoresStay
    <3>1. /\ n \in Nat /\ reserveBalance' = reserveBalance + n
          /\ UNCHANGED <<balanceVars, validators, totalValidatorScore>>
      BY <2>1, AmountsAssumption DEF Deposit
    <3> QED BY <1>0, <3>1, MoreInReserve, ValidatorsStayScoresStay
  <2>2. CASE \E t \in Tickets, n \in Orders : OrderUnstake(t, n)
    <3>1. UNCHANGED <<balanceVars, reserveBalance, validators, totalValidatorScore>>
      BY <2>2, Zenon DEF OrderUnstake
    <3> QED BY <1>0, <3>1, CountersStayMoreCover, ValidatorsStayScoresStay
  <2> QED BY <1>1, <2>1, <2>2, Zenon DEF UserStep, Unsettling
<1>2. CASE PauseStep \/ ChainStep
  <2>1. UNCHANGED <<validators, totalValidatorScore>>
    BY <1>2, ZenonT(90)
    DEF PauseStep, Pause, Resume, ChainStep, AdvancePhase, AdvanceEpoch, Reward, Slash, Tip,
        Donate, DeactivateDelinquent
  <2> QED BY <1>0, <1>2, <2>1, ChainStepMoreCover, ValidatorsStayScoresStay
<1> QED BY <1>1, <1>2, CalmCrankStep, CalmManagerStep, ManagerStepMoreCover
        DEF Others, Next

LEMMA LeftType == VaultInv => LeftToDivide \in Nat
<1> SUFFICES ASSUME VaultInv PROVE LeftToDivide \in Nat
  OBVIOUS
<1>1. /\ totalActiveBalance \in Nat /\ delayedUnstakeCoolingDown \in Nat
      /\ emergencyCoolingDown \in Nat /\ reserveBalance \in Nat
      /\ availableReserveBalance \in Nat /\ circulatingTicketBalance \in Nat
      /\ TypeOK /\ epoch \in Int
  BY DEF VaultInv, SumsInv, TypeInv, TypeOK
<1>2. OwedBy(epoch) \in Nat /\ OwedBy(epoch) <= circulatingTicketBalance
  BY <1>1, OwedType, OwedOfCirculating DEF VaultInv, SumsInv
<1>3. circulatingTicketBalance <= totalActiveBalance + CoolingCover
  BY <1>1 DEF VaultInv, SumsInv, Solvent, ReserveBacked, TotalLamportsUnderControl, CoolingCover
<1> QED BY <1>1, <1>2, <1>3 DEF LeftToDivide, CoolingCover

LEMMA LeftTypeNext == VaultInv' => (LeftToDivide \in Nat)'
BY LeftType, PTL

LEMMA AtTargetNext ==
  ASSUME TypeOK, LeftToDivide \in Nat, LeftToDivide' \in Nat,
         LeftToDivide <= LeftToDivide', UNCHANGED totalValidatorScore,
         NEW w \in Validators, validators'[w].score = validators[w].score,
         validators'[w].active \in Nat,
         validators'[w].active <= ValidatorStakeTarget(w, LeftToDivide)
  PROVE  AtTarget(w)'
<1> SUFFICES ASSUME NEW left \in Nat, left = LeftToDivide'
             PROVE  AtTarget(w)'
  OBVIOUS
<1>1. ValidatorStakeTarget(w, LeftToDivide)' = ValidatorStakeTarget(w, left)
  BY DEF ValidatorStakeTarget
<1>2. ValidatorStakeTarget(w, LeftToDivide) <= ValidatorStakeTarget(w, left)
  BY TargetMonotone
<1>3. /\ ValidatorStakeTarget(w, LeftToDivide) \in Nat
      /\ ValidatorStakeTarget(w, left) \in Nat
  BY ValidatorStakeTargetType
<1>4. validators'[w].active <= ValidatorStakeTarget(w, left)
  BY <1>2, <1>3
<1> QED BY <1>1, <1>4 DEF AtTarget

LEMMA CoolingCoverType == TypeOK => CoolingCover \in Nat
BY DEF TypeOK, CoolingCover

LEMMA CoolingCoverTypeNext == TypeOK' => (CoolingCover \in Nat)'
BY CoolingCoverType, PTL

(* What the crank stakes is more than the tickets need.                     *)
LEMMA StakeReserveCovered ==
  ASSUME TypeInv, TypeInv', TicketsAddUp', NEW v \in Validators, NEW a \in Accounts,
         StakeReserve(v, a)
  PROVE  OwedBy(epoch)' <= CoolingCover'
<1> DEFINE n == AmountToStake(v)
<1>0. TypeOK /\ TypeOK' /\ StakeDelta > 0
  BY DEF TypeInv, StakeReserve, StakeReserveRun
<1>1. /\ n \in Nat
      /\ n <= reserveBalance + delayedUnstakeCoolingDown - circulatingTicketBalance
  <2>1. n \in Nat /\ n <= StakeDelta
    BY <1>0, AmountToStakeType, AmountToStakeBound
  <2>2. StakeDelta = reserveBalance + delayedUnstakeCoolingDown - circulatingTicketBalance
    BY <1>0, AmountToStakeBound
  <2> HIDE DEF n
  <2> QED BY <2>1, <2>2
<1>2. /\ reserveBalance' = reserveBalance - n
      /\ UNCHANGED <<coolingVars, circulatingTicketBalance, epoch, phase>>
  BY DEF StakeReserve
<1> HIDE DEF n
<1>3. circulatingTicketBalance' <= CoolingCover'
  BY <1>0, <1>1, <1>2 DEF TypeOK, CoolingCover
<1> SUFFICES ASSUME NEW e \in Int, e = epoch
             PROVE  OwedBy(epoch)' <= CoolingCover'
  BY <1>0 DEF TypeOK
<1>4. OwedBy(epoch)' = OwedBy(e)'
  BY <1>2, OwedInEpoch
<1>5. OwedBy(e)' <= circulatingTicketBalance' /\ OwedBy(e)' \in Nat
  BY <1>0, OwedOfCirculatingNext, OwedTypeNext
<1>6. circulatingTicketBalance' \in Nat /\ CoolingCover' \in Nat
  BY <1>0, CoolingCoverTypeNext DEF TypeOK
<1> QED BY <1>3, <1>4, <1>5, <1>6

(* The crank splits off all that the tickets need, or what the validator    *)
(* has above the target that the others are left with too.                  *)
LEMMA DeactivateStakeCovers ==
  ASSUME VaultInv, VaultInv', DeltaCovers, NEW a \in Accounts, NEW b \in Accounts,
         DeactivateStake(a, b)
  PROVE  DeltaCovers'
<1> SUFFICES ASSUME NEW v \in Validators, v = native[a].voter
             PROVE  DeltaCovers'
  BY ListedVoter DEF DeactivateStake, Listed, VaultInv, SumsInv
<1> DEFINE rec   == stakes[a]
           keep  == AmountToKeep(a)
           whole == keep < 2 * MinStake
           n     == IF whole THEN rec.delegated ELSE rec.delegated - keep
<1>0. /\ TypeInv /\ TypeOK /\ TypeOK' /\ TicketsAddUp
      /\ phase = "window" /\ StakeDelta < 0
  BY DEF VaultInv, SumsInv, TypeInv, DeactivateStake, InStakeDeltaWindow
<1>1. /\ totalActiveBalance \in Nat /\ CoolingCover \in Nat /\ OwedBy(epoch) \in Nat
      /\ circulatingTicketBalance \in Nat /\ OwedBy(epoch) <= circulatingTicketBalance
      /\ validators[v].active \in Nat /\ rec.delegated \in Nat
      /\ LeftToDivide \in Nat /\ LeftToDivide' \in Nat
  <2>1. epoch \in Int
    BY <1>0 DEF TypeOK
  <2> QED BY <1>0, <2>1, OwedType, OwedOfCirculating, LeftType, LeftTypeNext
       DEF TypeOK, ValidatorRecord, StakeRecord, CoolingCover
<1>2. /\ keep \in 0 .. rec.delegated
      /\ \/ keep = 0
         \/ keep = rec.delegated + StakeDelta
         \/ rec.delegated - keep = validators[v].active - UnstakeTarget(v)
  BY <1>0, AmountToKeepType DEF DeactivateStake
<1> HIDE DEF keep
<1>3. n \in Nat
  BY <1>1, <1>2
<1>4. /\ validators[v].active >= n
      /\ validators' = [validators EXCEPT ![v].active = @ - n,
                                          ![v].lastDelta = IF whole THEN @ ELSE epoch]
      /\ totalActiveBalance' = totalActiveBalance - n
      /\ delayedUnstakeCoolingDown' = delayedUnstakeCoolingDown + n
      /\ UNCHANGED <<clockVars, totalValidatorScore, emergencyCoolingDown, reserveVars,
                     ticketVars>>
  BY Zenon DEF DeactivateStake, keep
<1>5. /\ \A w \in Validators \ {v} : validators'[w] = validators[w]
      /\ validators'[v].score = validators[v].score
      /\ validators'[v].active = validators[v].active - n
      /\ validators'[v].lastDelta = IF whole THEN validators[v].lastDelta ELSE epoch
  <2> HIDE DEF n, whole
  <2> QED BY <1>0, <1>4 DEF TypeOK, ValidatorRecord
<1>6. /\ OwedBy(epoch)' = OwedBy(epoch) /\ CoolingCover' = CoolingCover + n
      /\ LeftToDivide' = LeftToDivide
  <2>1. OwedBy(epoch)' = OwedBy(epoch)
    BY <1>4 DEF OwedBy, OwedTo
  <2>2. CoolingCover' = CoolingCover + n
    <3> HIDE DEF n
    <3> QED BY <1>0, <1>3, <1>4 DEF TypeOK, CoolingCover
  <2> HIDE DEF n
  <2> QED BY <1>1, <1>3, <1>4, <2>1, <2>2 DEF LeftToDivide
<1>7. StakeDelta = CoolingCover - circulatingTicketBalance
  BY <1>0, StakeDeltaBelowZero DEF CoolingCover, TypeOK
<1>8. CASE OwedBy(epoch) <= CoolingCover
  <2> HIDE DEF n
  <2>1. OwedBy(epoch)' <= CoolingCover'
    BY <1>1, <1>3, <1>6, <1>8
  <2> QED BY <2>1 DEF DeltaCovers
<1>9. ASSUME \A w \in Validators : SplitNow(w) => AtTarget(w),
             ~(OwedBy(epoch)' <= CoolingCover'),
             NEW w \in Validators, SplitNow(w)'
      PROVE  AtTarget(w)'
  <2>1. /\ validators'[w].score = validators[w].score /\ validators'[w].active \in Nat
        /\ validators[w].active \in Nat /\ UNCHANGED totalValidatorScore
        /\ LeftToDivide <= LeftToDivide' /\ UNCHANGED epoch
    <3>1. validators'[w].score = validators[w].score
      BY <1>5
    <3>2. validators'[w].active \in Nat /\ validators[w].active \in Nat
      BY <1>0 DEF TypeOK, ValidatorRecord
    <3>3. LeftToDivide <= LeftToDivide'
      BY <1>1, <1>6
    <3> QED BY <1>4, <3>1, <3>2, <3>3
  <2>2. ValidatorStakeTarget(w, LeftToDivide) \in Nat
    BY <1>0, <1>1, ValidatorStakeTargetType
  <2>3. CASE w # v \/ whole
    <3>1. SplitNow(w) /\ validators'[w].active <= validators[w].active
      <4>1. validators'[w].lastDelta = validators[w].lastDelta
        <5> HIDE DEF n, whole
        <5> QED BY <1>5, <2>3
      <4>2. validators'[w].active <= validators[w].active
        <5>1. CASE w = v
          <6> HIDE DEF n, whole
          <6> QED BY <1>1, <1>3, <1>5, <5>1
        <5>2. CASE w # v
          <6> HIDE DEF n, whole
          <6> QED BY <1>5, <2>1, <5>2
        <5> QED BY <5>1, <5>2
      <4> QED BY <1>9, <2>1, <4>1, <4>2 DEF SplitNow
    <3>2. validators[w].active <= ValidatorStakeTarget(w, LeftToDivide)
      BY <1>9, <3>1 DEF AtTarget
    <3>3. validators'[w].active <= ValidatorStakeTarget(w, LeftToDivide)
      BY <2>1, <2>2, <3>1, <3>2
    <3> QED BY <1>0, <1>1, <2>1, <3>3, AtTargetNext
  <2>4. CASE w = v /\ ~whole
    <3>1. n = rec.delegated - keep /\ keep # 0
      BY <1>2, <2>4, AmountsAssumption
    <3>2. keep # rec.delegated + StakeDelta
      <4>1. ASSUME keep = rec.delegated + StakeDelta
            PROVE  FALSE
        <5>1. n = circulatingTicketBalance - CoolingCover
          BY <1>1, <1>2, <1>7, <3>1, <4>1
        <5>2. OwedBy(epoch)' <= CoolingCover'
          <6> HIDE DEF n
          <6> QED BY <1>1, <1>3, <1>6, <5>1
        <5> QED BY <1>9, <5>2
      <4> QED BY <4>1
    <3>3. n = validators[v].active - UnstakeTarget(v)
      BY <1>2, <3>1, <3>2
    <3>4. /\ UnstakeTarget(v) \in Nat
          /\ UnstakeTarget(v) <= ValidatorStakeTarget(v, LeftToDivide)
      BY <1>0, UnstakeTargetType, LeftIsMore, TargetMonotone DEF UnstakeTarget
    <3>5. validators'[v].active = UnstakeTarget(v)
      <4> HIDE DEF n
      <4> QED BY <1>1, <1>5, <3>3, <3>4
    <3>6. validators'[w].active <= ValidatorStakeTarget(w, LeftToDivide)
      BY <2>4, <3>4, <3>5
    <3> QED BY <1>0, <1>1, <2>1, <3>6, AtTargetNext
  <2> QED BY <2>3, <2>4
<1> QED BY <1>0, <1>8, <1>9 DEF DeltaCovers

LEMMA ClaimDeltaCovers ==
  ASSUME TypeInv, TypeInv', DeltaCovers, UNCHANGED clockVars, phase = "window",
         NEW e \in Int, e = epoch, NEW n \in Nat, Claimed(n, e)
  PROVE  DeltaCovers'
<1>0. TypeOK
  BY DEF TypeInv
<1>1. /\ OwedBy(epoch)' = OwedBy(epoch) - n /\ OwedBy(epoch) \in Nat
      /\ reserveBalance' = reserveBalance - n
      /\ UNCHANGED <<validators, balanceVars, totalValidatorScore>>
  <2>1. OwedBy(epoch) = OwedBy(e) /\ OwedBy(epoch)' = OwedBy(e)'
    BY OwedInEpoch
  <2> QED BY <1>0, <2>1, OwedType DEF Claimed
<1>2. /\ CoolingCover \in Nat /\ CoolingCover' = CoolingCover - n
      /\ totalActiveBalance \in Nat
  BY <1>0, <1>1 DEF TypeOK, CoolingCover
<1>3. LeftToDivide' = LeftToDivide
  BY <1>1, <1>2 DEF LeftToDivide
<1>4. CASE OwedBy(epoch) <= CoolingCover
  <2>1. OwedBy(epoch)' <= CoolingCover'
    BY <1>1, <1>2, <1>4
  <2> QED BY <2>1 DEF DeltaCovers
<1>5. CASE \A v \in Validators : SplitNow(v) => AtTarget(v)
  <2>1. \A v \in Validators :
          /\ SplitNow(v)' = SplitNow(v)
          /\ AtTarget(v)' = AtTarget(v)
    BY <1>1, <1>3 DEF SplitNow, AtTarget, ValidatorStakeTarget
  <2> QED BY <1>5, <2>1 DEF DeltaCovers
<1> QED BY <1>4, <1>5 DEF DeltaCovers

LEMMA CalmDeltaCovers ==
  ASSUME VaultInv, VaultInv', DeltaCovers, UNCHANGED clockVars, phase = "window",
         MoreCover, ScoresStay, DeltaUnmarked,
         OwedBy(epoch)' = OwedBy(epoch)
  PROVE  DeltaCovers'
<1>1. /\ TypeOK /\ TypeOK' /\ OwedBy(epoch) \in Nat
      /\ LeftToDivide \in Nat /\ LeftToDivide' \in Nat
      /\ CoolingCover \in Nat /\ CoolingCover' \in Nat
      /\ totalActiveBalance \in Nat /\ totalActiveBalance' \in Nat
  <2>1. TypeOK /\ TypeOK'
    BY DEF VaultInv, SumsInv, TypeInv
  <2>2. epoch \in Int /\ totalActiveBalance \in Nat /\ totalActiveBalance' \in Nat
    BY <2>1 DEF TypeOK
  <2> QED BY <2>1, <2>2, OwedType, LeftType, LeftTypeNext, CoolingCoverType,
             CoolingCoverTypeNext
<1>2. CASE OwedBy(epoch) <= CoolingCover
  <2>1. OwedBy(epoch)' <= CoolingCover'
    BY <1>1, <1>2 DEF MoreCover
  <2> QED BY <2>1 DEF DeltaCovers
<1>3. LeftToDivide <= LeftToDivide'
  <2>1. /\ LeftToDivide = totalActiveBalance + CoolingCover - OwedBy(epoch)
        /\ LeftToDivide' = totalActiveBalance' + CoolingCover' - OwedBy(epoch)
    BY DEF LeftToDivide
  <2>2. totalActiveBalance + CoolingCover <= totalActiveBalance' + CoolingCover'
    BY DEF MoreCover
  <2>3. \A t, c, u, d, o \in Nat : t + c <= u + d => t + c - o <= u + d - o
    OBVIOUS
  <2> QED BY <1>1, <2>1, <2>2, <2>3, Zenon
<1>4. ASSUME \A v \in Validators : SplitNow(v) => AtTarget(v),
             NEW w \in Validators, SplitNow(w)'
      PROVE  AtTarget(w)'
  <2>1. /\ validators[w].active \in Nat /\ validators'[w].active \in Nat
        /\ epoch # Never
    BY <1>1 DEF TypeOK, ValidatorRecord, Never
  <2>2. SplitNow(w)
    BY <1>4, <2>1 DEF SplitNow, DeltaUnmarked
  <2>3. /\ validators[w].active <= ValidatorStakeTarget(w, LeftToDivide)
        /\ ValidatorStakeTarget(w, LeftToDivide) \in Nat
    BY <1>1, <1>4, <2>2, ValidatorStakeTargetType DEF AtTarget
  <2>4. /\ validators'[w].score = validators[w].score
        /\ validators'[w].active <= validators[w].active
        /\ UNCHANGED totalValidatorScore
    BY DEF ScoresStay
  <2>5. validators'[w].active <= ValidatorStakeTarget(w, LeftToDivide)
    BY <2>1, <2>3, <2>4
  <2> QED BY <1>1, <1>3, <2>1, <2>4, <2>5, AtTargetNext
<1> QED BY <1>2, <1>4 DEF DeltaCovers

(* Where no stake-delta instruction of this epoch was run, no validator was  *)
(* split in it.                                                             *)
LEMMA NotBegunCovers ==
  ASSUME DeltaInWindow, ~StakeDeltaBegun
  PROVE  DeltaCovers /\ \A v \in Validators : ~SplitNow(v)
BY DEF DeltaInWindow, DeltaOf, DeltaCovers

LEMMA NotBegunCoversNext ==
  DeltaInWindow' /\ ~StakeDeltaBegun'
    => (DeltaCovers /\ \A v \in Validators : ~SplitNow(v))'
<1>1. DeltaInWindow /\ ~StakeDeltaBegun
        => DeltaCovers /\ \A v \in Validators : ~SplitNow(v)
  BY NotBegunCovers
<1> QED BY <1>1, PTL

LEMMA OthersDeltaCovers ==
  ASSUME VaultInv, VaultInv', RecordsUpToDate, DeltaInWindow', DeltaCovers,
         Others, StakeDeltaBegun => ~Unsettling
  PROVE  DeltaCovers'
<1>0. /\ TypeInv /\ TypeInv' /\ RecordsBacked /\ TicketsAddUp' /\ Next /\ UNCHANGED clockVars
      /\ epoch \in Int
  BY DEF VaultInv, SumsInv, TypeInv, Others, TypeOK
<1>1. CASE phase # "window"
  BY <1>0, <1>1 DEF DeltaCovers
<1>2. CASE ~StakeDeltaBegun'
  BY <1>2, NotBegunCoversNext
<1>3. CASE \E v \in Validators, a \in Accounts : StakeReserve(v, a)
  <2>1. OwedBy(epoch)' <= CoolingCover'
    BY <1>0, <1>3, StakeReserveCovered
  <2> QED BY <2>1 DEF DeltaCovers
<1>4. CASE \E a, b \in Accounts : DeactivateStake(a, b)
  BY <1>4, DeactivateStakeCovers
<1>5. ASSUME phase = "window", StakeDeltaBegun',
             ~ \E v \in Validators, a \in Accounts : StakeReserve(v, a),
             ~ \E a, b \in Accounts : DeactivateStake(a, b)
      PROVE  DeltaCovers'
  <2>1. DeltaUnmarked
    BY <1>0, <1>5, NextDelta
  <2>2. StakeDeltaBegun /\ ~Unsettling
    BY <1>0, <1>5, <2>1 DEF DeltaUnmarked, StakeDeltaBegun
  <2> SUFFICES ASSUME NEW e \in Int, e = epoch
               PROVE  DeltaCovers'
    BY <1>0
  <2>3. ASSUME NEW n \in Nat, Claimed(n, e)
        PROVE  DeltaCovers'
    BY <1>0, <1>5, <2>3, ClaimDeltaCovers
  <2>4. ASSUME OwedBy(e)' = OwedBy(e), ~ \E t \in Tickets : Claim(t)
        PROVE  DeltaCovers'
    <3>1. MoreCover /\ ScoresStay
      BY <1>0, <1>5, <2>2, <2>4, CalmStep
    <3>2. OwedBy(epoch)' = OwedBy(epoch)
      BY <1>0, <2>4, OwedInEpoch
    <3> QED BY <1>0, <1>5, <2>1, <3>1, <3>2, CalmDeltaCovers
  <2> QED BY <1>0, <2>2, <2>3, <2>4, NextOwed
<1> QED BY <1>1, <1>2, <1>3, <1>4, <1>5
-----------------------------------------------------------------------------
(* Nobody pauses. *)
LEMMA NeverPaused ==
  ASSUME NoPause, ~paused, Next
  PROVE  ~paused'
<1>1. ASSUME UNCHANGED paused
      PROVE  ~paused'
  BY <1>1
<1>2. CASE UserStep
  BY <1>1, <1>2, ZenonT(90)
  DEF UserStep, Deposit, DepositStakeAccount, WithdrawStakeAccount, OrderUnstake, Claim
<1>3. CASE CrankStep
  BY <1>1, <1>3, ZenonT(90)
  DEF CrankStep, StakeReserve, StakeReserveNothing, DeactivateStake, UpdateActive,
      UpdateDeactivated, CreateCanonicalStake, MergeStakes
<1>4. CASE ManagerStep
  BY <1>1, <1>4, ZenonT(90)
  DEF ManagerStep, AddValidator, RemoveValidator, SetValidatorScore,
      ConfigValidatorSystem, EmergencyUnstake, PartialUnstake, MoveToEmergency
<1>5. CASE ChainStep
  BY <1>1, <1>5, ZenonT(90)
  DEF ChainStep, AdvancePhase, AdvanceEpoch, Reward, Slash, Tip, Donate,
      DeactivateDelinquent, programVars
<1>6. ~PauseStep
  BY DEF PauseStep, Pause, Resume, NoPause
<1> QED BY <1>2, <1>3, <1>4, <1>5, <1>6 DEF Next

(* Time goes on when the bot is done: what covers the tickets in one part   *)
(* of an epoch becomes what covers them in the next.                        *)
LEMMA PhaseTimely ==
  ASSUME NoSlashing, TimelyInv, CranksDone, AdvancePhase
  PROVE  /\ TimelyInv'
         /\ phase' = "window" => \A v \in Validators : ~SplitNow(v)'
<1>1. /\ VaultInv /\ MeteredInv /\ RecordsUpToDate /\ DeltaInWindow /\ TypeInv /\ TypeOK
      /\ ~paused
  BY DEF TimelyInv, VaultInv, SumsInv, TypeInv
<1>2. Next
  BY DEF Next, ChainStep
<1>3. VaultInv' /\ MeteredInv'
  BY <1>1, <1>2, NextTypeInv, NextVault, NextMetered
<1>4. /\ UNCHANGED <<epoch, native, stakes, validators, tickets, lastStakeDeltaEpoch,
                     reserveBalance>>
      /\ ~paused'
  BY <1>1 DEF AdvancePhase
<1>5. CASE phase = "early"
  <2>1. phase' = "settled"
    BY <1>5 DEF AdvancePhase
  <2>2. /\ OwedBy(epoch - 1) <= reserveBalance
        /\ \A a \in Accounts : Live(a) => stakes[a].delegated = native[a].stake
    BY <1>5, RetrievedWhenDone
  <2>3. RecordsUpToDate'
    BY <1>1, <1>4, <2>1, <2>2 DEF RecordsUpToDate, UpToDate, Listed, Live
  <2>4. DeltaInWindow'
    BY <1>1, <1>4, <1>5 DEF DeltaInWindow, DeltaOf, SplitNow, StakeDeltaBegun
  <2>5. OwedBy(epoch - 1)' = OwedBy(epoch - 1)
    BY <1>4 DEF OwedBy, OwedTo
  <2> QED BY <1>3, <1>4, <2>1, <2>2, <2>3, <2>4, <2>5
          DEF TimelyInv, EarlyCovered, ReserveCovers
<1>6. CASE phase = "settled"
  <2>1. phase' = "window"
    BY <1>6 DEF AdvancePhase
  <2>2. RecordsUpToDate'
    BY <1>1, <1>4, <1>6, <2>1 DEF RecordsUpToDate, UpToDate, Listed
  <2>3. DeltaInWindow' /\ ~StakeDeltaBegun'
    BY <1>1, <1>4, <1>6 DEF DeltaInWindow, DeltaOf, SplitNow, StakeDeltaBegun
  <2>4. \A v \in Validators : ~SplitNow(v)'
    BY <2>3, NotBegunCoversNext
  <2> QED BY <1>3, <1>4, <2>1, <2>2, <2>3, <2>4
          DEF TimelyInv, EarlyCovered, ReserveCovers
<1> QED BY <1>1, <1>5, <1>6 DEF AdvancePhase, TypeOK, Phases

LEMMA EpochTimely ==
  ASSUME NoSlashing, TimelyInv, DeltaCovers, RoomForSplit, CranksDone,
         AdvanceEpoch \/ NextEpoch
  PROVE  TimelyInv' /\ phase' = "early"
<1>1. /\ VaultInv /\ MeteredInv /\ RecordsUpToDate /\ DeltaInWindow /\ TypeInv /\ TypeOK
      /\ DeactivatedInPast /\ ~paused
  BY DEF TimelyInv, VaultInv, SumsInv, TypeInv, MeteredInv
<1>2. VaultInv' /\ MeteredInv'
  <2>1. CASE AdvanceEpoch
    <3>1. Next
      BY <2>1 DEF Next, ChainStep
    <3> QED BY <1>1, <3>1, NextTypeInv, NextVault, NextMetered
  <2>2. CASE NextEpoch
    BY <1>1, <2>2, NextEpochVault
  <2> QED BY <2>1, <2>2
<1>3. EpochBegins
  BY <1>1, AdvanceEpochBegins, NextEpochBegins
<1>4. OwedBy(epoch) <= reserveBalance + Total(Accounts, DeactivatedStake)
  BY <1>3, CoverPasses DEF EpochBegins
<1>5. TypeOK' /\ \A a \in Accounts : Listed(a) => native[a].voter \in Validators
  BY <1>1, <1>2, ListedVoter DEF VaultInv, SumsInv, TypeInv
<1>6. /\ RecordsUpToDate' /\ DeltaInWindow'
      /\ EarlyCovered' /\ ReserveCovers'
  BY <1>1, <1>3, <1>4, <1>5, EpochBeginsTimely
<1> QED BY <1>1, <1>2, <1>3, <1>6 DEF TimelyInv, EpochBegins

LEMMA OthersTimely ==
  ASSUME NoSlashing, NoPause, TimelyInv, Others
  PROVE  TimelyInv'
<1>1. /\ VaultInv /\ MeteredInv /\ RecordsUpToDate /\ DeltaInWindow /\ TypeInv
      /\ EarlyCovered /\ ReserveCovers /\ ~paused /\ Next
  BY DEF TimelyInv, VaultInv, SumsInv, Others
<1>2. VaultInv' /\ MeteredInv' /\ TypeInv'
  BY <1>1, NextTypeInv, NextVault, NextMetered
<1>3. ~paused' /\ RecordsUpToDate' /\ DeltaInWindow'
  BY <1>1, NeverPaused, OthersRecords, OthersDelta
<1>4. EarlyCovered' /\ ReserveCovers'
  BY <1>1, <1>2, OthersCovered
<1> QED BY <1>2, <1>3, <1>4 DEF TimelyInv

LEMMA StutterTimely ==
  ASSUME NoSlashing, TimelyInv, UNCHANGED vars
  PROVE  /\ TimelyInv'
         /\ DeltaCovers => DeltaCovers'
         /\ \A v \in Validators : SplitNow(v)' = SplitNow(v)
         /\ OwedBy(epoch)' = OwedBy(epoch) /\ CoolingCover' = CoolingCover
         /\ UNCHANGED phase
<1>1. VaultInv' /\ MeteredInv'
  BY NextTypeInv, NextVault, NextMetered DEF TimelyInv, VaultInv, SumsInv
<1>2. UNCHANGED <<epoch, phase, paused, stakes, native, validators, totalValidatorScore,
                  totalActiveBalance, delayedUnstakeCoolingDown, emergencyCoolingDown,
                  reserveBalance, tickets, lastStakeDeltaEpoch>>
  BY DEF vars
<1>3. RecordsUpToDate' /\ DeltaInWindow' /\ ~paused'
  BY <1>2 DEF TimelyInv, RecordsUpToDate, UpToDate, Listed, DeltaInWindow, DeltaOf,
              SplitNow, StakeDeltaBegun
<1>4. /\ OwedBy(epoch - 1)' = OwedBy(epoch - 1) /\ OwedBy(epoch)' = OwedBy(epoch)
      /\ Total(Accounts, Retrievable') = Total(Accounts, Retrievable)
      /\ CoolingCover' = CoolingCover
  BY <1>2 DEF OwedBy, OwedTo, Retrievable, CoolingCover
<1>5. EarlyCovered' /\ ReserveCovers'
  BY <1>2, <1>4 DEF TimelyInv, EarlyCovered, ReserveCovers
<1>6. \A v \in Validators : SplitNow(v)' = SplitNow(v) /\ AtTarget(v)' = AtTarget(v)
  BY <1>2, <1>4 DEF SplitNow, AtTarget, ValidatorStakeTarget, LeftToDivide
<1>7. DeltaCovers => DeltaCovers'
  BY <1>2, <1>4, <1>6 DEF DeltaCovers
<1> QED BY <1>1, <1>2, <1>3, <1>4, <1>5, <1>6, <1>7 DEF TimelyInv

(* In calm epochs the tickets that are due can be paid, as long as the stake *)
(* list has room for what a split makes.                                    *)
LEMMA CalmTimely ==
  ASSUME NoSlashing, NoPause, TimelyInv, DeltaCovers, RoomForSplit, [CalmNext]_vars
  PROVE  TimelyInv' /\ DeltaCovers'
<1>1. CASE UNCHANGED vars
  BY <1>1, StutterTimely
<1>2. CASE CranksDone /\ AdvancePhase
  BY <1>2, PhaseTimely DEF DeltaCovers
<1>3. CASE CranksDone /\ (AdvanceEpoch \/ NextEpoch)
  BY <1>3, EpochTimely DEF DeltaCovers
<1>4. CASE Others /\ (StakeDeltaBegun => ~Unsettling)
  <2>1. TimelyInv'
    BY <1>4, OthersTimely
  <2> QED BY <1>4, <2>1, OthersDeltaCovers DEF TimelyInv
<1> QED BY <1>1, <1>2, <1>3, <1>4 DEF CalmNext, TimelyNext, Tick

(* claim.rs: a ticket is due when "enough time has passed for the bot to     *)
(* complete the unstake process and transfer the requested SOL to           *)
(* reserve_pda".  It is enough, for any number of validators, stakes and     *)
(* tickets, when the bot works in time, stakes are not slashed, the program  *)
(* is not paused, the stake list does not fill up, and neither scores nor   *)
(* stakes change from outside while the bot unstakes.                       *)
THEOREM DueTicketsAreCovered ==
  ASSUME NoSlashing, NoPause
  PROVE  CalmSpec /\ []RoomForSplit => []DueTicketsCovered
<1>1. Init => TimelyInv /\ DeltaCovers
  BY InitTimely DEF Init, DeltaCovers
<1>2. TimelyInv /\ DeltaCovers /\ RoomForSplit /\ [CalmNext]_vars
        => TimelyInv' /\ DeltaCovers'
  BY CalmTimely
<1>3. TimelyInv => DueTicketsCovered
  BY InvCovers
<1> QED BY <1>1, <1>2, <1>3, PTL DEF CalmSpec
-----------------------------------------------------------------------------
(* One validator: nothing else can have what is missing, so that one split  *)
(* is always enough, also when scores and stakes change after it.           *)
SoleValidator == \A v, w \in Validators : v = w

SoleCovers ==
  phase = "window" => \/ OwedBy(epoch) <= CoolingCover
                      \/ \A v \in Validators : ~SplitNow(v)

(* The target of a sole validator is all that is divided.                   *)
LEMMA SoleTarget ==
  ASSUME VaultInv, SoleValidator, NEW v \in Validators, NEW n \in Nat
  PROVE  /\ validators[v].active = totalActiveBalance
         /\ ValidatorStakeTarget(v, n) \in {0, n}
<1>1. TypeOK /\ ActiveBalancesAddUp /\ ScoresAddUp
  BY DEF VaultInv, SumsInv, TypeInv, BalancesAddUp
<1>2. ASSUME NEW w, w[v] \in Nat
      PROVE  Total(Validators, w) = w[v]
  <2>1. Validators \ {v} = {} /\ \A y \in Validators : w[y] \in Nat
    BY <1>2 DEF SoleValidator
  <2>2. Total(Validators \ {v}, w) = 0
    BY <2>1, TotalZero
  <2>3. Total(Validators, w) = Total(Validators \ {v}, w) + w[v]
    BY <2>1, SetsAssumption, TotalSplit
  <2> QED BY <1>2, <2>2, <2>3
<1>3. /\ ActiveBalance[v] = validators[v].active /\ validators[v].active \in Nat
      /\ Score[v] = validators[v].score /\ Score[v] \in Nat
  BY <1>1 DEF ActiveBalance, Score, TypeOK, ValidatorRecord
<1>4. validators[v].active = totalActiveBalance
  BY <1>1, <1>2, <1>3 DEF ActiveBalancesAddUp
<1>5. CASE totalValidatorScore = 0
  BY <1>4, <1>5 DEF ValidatorStakeTarget
<1>6. CASE totalValidatorScore # 0
  <2> DEFINE s == validators[v].score
  <2>1. s \in Nat \ {0} /\ totalValidatorScore = s
    BY <1>1, <1>2, <1>3, <1>6 DEF ScoresAddUp
  <2> HIDE DEF s
  <2>2. (n * s) \div s = n
    <3>1. n * s \in Nat
      BY <2>1
    <3>2. /\ (n * s) \div s \in Nat
          /\ s * ((n * s) \div s) <= n * s
          /\ n * s < s * ((n * s) \div s) + s
      BY <2>1, <3>1, RoundedDown
    <3> DEFINE q == (n * s) \div s
    <3>3. \A p \in Nat, r \in Nat \ {0} : r * p <= n * r /\ n * r < r * p + r => p = n
      <4> SUFFICES ASSUME NEW p \in Nat, NEW r \in Nat \ {0}, r * p <= n * r, n * r < r * p + r
                   PROVE  p = n
        OBVIOUS
      <4>1. CASE p > n
        <5>1. r * p >= r * (n + 1)
          BY <4>1
        <5> QED BY <5>1
      <4>2. CASE n > p
        <5>1. r * n >= r * (p + 1)
          BY <4>2
        <5> QED BY <5>1
      <4> QED BY <4>1, <4>2
    <3> QED BY <2>1, <3>2, <3>3
  <2> QED BY <1>4, <1>6, <2>1, <2>2 DEF ValidatorStakeTarget, s
<1> QED BY <1>5, <1>6

(* The crank splits off all that the tickets need of a sole validator.      *)
LEMMA SoleDeactivateCovers ==
  ASSUME VaultInv, VaultInv', SoleValidator, SoleCovers,
         NEW a \in Accounts, NEW b \in Accounts, DeactivateStake(a, b)
  PROVE  SoleCovers'
<1> SUFFICES ASSUME NEW v \in Validators, v = native[a].voter
             PROVE  SoleCovers'
  BY ListedVoter DEF DeactivateStake, Listed, VaultInv, SumsInv
<1> DEFINE rec   == stakes[a]
           keep  == AmountToKeep(a)
           whole == keep < 2 * MinStake
           n     == IF whole THEN rec.delegated ELSE rec.delegated - keep
<1>0. /\ TypeInv /\ TypeOK /\ TypeOK' /\ TicketsAddUp
      /\ phase = "window" /\ StakeDelta < 0
  BY DEF VaultInv, SumsInv, TypeInv, DeactivateStake, InStakeDeltaWindow
<1>1. /\ totalActiveBalance \in Nat /\ CoolingCover \in Nat /\ OwedBy(epoch) \in Nat
      /\ circulatingTicketBalance \in Nat /\ OwedBy(epoch) <= circulatingTicketBalance
      /\ rec.delegated \in Nat
  <2>1. epoch \in Int
    BY <1>0 DEF TypeOK
  <2> QED BY <1>0, <2>1, OwedType, OwedOfCirculating DEF TypeOK, StakeRecord, CoolingCover
<1>2. /\ keep \in 0 .. rec.delegated
      /\ \/ keep = 0
         \/ keep = rec.delegated + StakeDelta
         \/ rec.delegated - keep = validators[v].active - UnstakeTarget(v)
  BY <1>0, AmountToKeepType DEF DeactivateStake
<1> HIDE DEF keep
<1>3. n \in Nat
  BY <1>1, <1>2
<1>4. /\ validators' = [validators EXCEPT ![v].active = @ - n,
                                          ![v].lastDelta = IF whole THEN @ ELSE epoch]
      /\ delayedUnstakeCoolingDown' = delayedUnstakeCoolingDown + n
      /\ UNCHANGED <<clockVars, emergencyCoolingDown, reserveVars, ticketVars>>
  BY Zenon DEF DeactivateStake, keep
<1>5. OwedBy(epoch)' = OwedBy(epoch) /\ CoolingCover' = CoolingCover + n
  <2>1. OwedBy(epoch)' = OwedBy(epoch)
    BY <1>4 DEF OwedBy, OwedTo
  <2> HIDE DEF n
  <2> QED BY <1>0, <1>3, <1>4, <2>1 DEF TypeOK, CoolingCover
<1>6. /\ StakeDelta = CoolingCover - circulatingTicketBalance
      /\ circulatingTicketBalance <= totalActiveBalance + CoolingCover
  <2>1. StakeDelta = CoolingCover - circulatingTicketBalance
    BY <1>0, StakeDeltaBelowZero DEF CoolingCover, TypeOK
  <2>2. circulatingTicketBalance <= totalActiveBalance + CoolingCover
    BY <1>0 DEF VaultInv, SumsInv, Solvent, ReserveBacked, TotalLamportsUnderControl,
                CoolingCover, TypeOK
  <2> QED BY <2>1, <2>2
<1>7. CASE whole
  <2>1. ASSUME NEW w \in Validators, ~SplitNow(w)
        PROVE  ~SplitNow(w)'
    <3>1. validators'[w].lastDelta = validators[w].lastDelta
      <4> HIDE DEF n, whole
      <4> QED BY <1>0, <1>4, <1>7 DEF TypeOK, ValidatorRecord
    <3> QED BY <1>4, <2>1, <3>1 DEF SplitNow
  <2>2. OwedBy(epoch) <= CoolingCover => OwedBy(epoch)' <= CoolingCover'
    <3> HIDE DEF n, whole
    <3> QED BY <1>1, <1>3, <1>5
  <2> QED BY <1>0, <2>1, <2>2 DEF SoleCovers
<1>8. CASE ~whole
  <2>1. n = rec.delegated - keep /\ keep # 0
    BY <1>2, <1>8, AmountsAssumption
  <2>2. \/ n = -StakeDelta
        \/ n = validators[v].active - UnstakeTarget(v)
    BY <1>0, <1>1, <1>2, <1>6, <2>1
  <2>3. SatSub(totalActiveBalance, -StakeDelta) \in Nat
    BY <1>0, LeftIsMore
  <2>4. n = -StakeDelta \/ n = totalActiveBalance
    <3> DEFINE m == SatSub(totalActiveBalance, -StakeDelta)
    <3>1. m = totalActiveBalance + StakeDelta
      BY <1>1, <1>6 DEF SatSub
    <3>2. validators[v].active = totalActiveBalance /\ UnstakeTarget(v) \in {0, m}
      BY <2>3, SoleTarget DEF UnstakeTarget
    <3> HIDE DEF n, m
    <3> QED BY <1>1, <1>6, <2>2, <3>1, <3>2
  <2>5. OwedBy(epoch)' <= CoolingCover'
    <3> HIDE DEF n
    <3> QED BY <1>1, <1>3, <1>5, <1>6, <2>4
  <2> QED BY <2>5 DEF SoleCovers
<1> QED BY <1>7, <1>8

LEMMA OthersSoleCovers ==
  ASSUME VaultInv, VaultInv', RecordsUpToDate, DeltaInWindow', SoleValidator, SoleCovers,
         Others
  PROVE  SoleCovers'
<1>0. /\ TypeInv /\ TypeInv' /\ RecordsBacked /\ TicketsAddUp' /\ Next /\ UNCHANGED clockVars
      /\ epoch \in Int /\ epoch # Never /\ TypeOK /\ TypeOK'
  BY DEF VaultInv, SumsInv, TypeInv, Others, TypeOK, Never
<1>1. CASE phase # "window"
  BY <1>0, <1>1 DEF SoleCovers
<1>2. CASE ~StakeDeltaBegun'
  <2>1. (\A v \in Validators : ~SplitNow(v))'
    BY <1>2, NotBegunCoversNext
  <2> QED BY <2>1 DEF SoleCovers
<1>3. CASE \E v \in Validators, a \in Accounts : StakeReserve(v, a)
  <2>1. OwedBy(epoch)' <= CoolingCover'
    BY <1>0, <1>3, StakeReserveCovered
  <2> QED BY <2>1 DEF SoleCovers
<1>4. CASE \E a, b \in Accounts : DeactivateStake(a, b)
  BY <1>4, SoleDeactivateCovers
<1>5. ASSUME phase = "window", StakeDeltaBegun',
             ~ \E v \in Validators, a \in Accounts : StakeReserve(v, a),
             ~ \E a, b \in Accounts : DeactivateStake(a, b)
      PROVE  SoleCovers'
  <2>1. DeltaUnmarked
    BY <1>0, <1>5, NextDelta
  <2>2. StakeDeltaBegun
    BY <1>0, <1>5, <2>1 DEF DeltaUnmarked, StakeDeltaBegun
  <2>3. \A w \in Validators : ~SplitNow(w) => ~SplitNow(w)'
    BY <1>0, <2>1 DEF SplitNow, DeltaUnmarked
  <2>4. /\ OwedBy(epoch) \in Nat /\ CoolingCover \in Nat /\ (CoolingCover \in Nat)'
    BY <1>0, OwedType, CoolingCoverType, CoolingCoverTypeNext
  <2> SUFFICES ASSUME OwedBy(epoch) <= CoolingCover
               PROVE  OwedBy(epoch)' <= CoolingCover'
    BY <1>5, <2>3 DEF SoleCovers
  <2> SUFFICES ASSUME NEW e \in Int, e = epoch
               PROVE  OwedBy(epoch)' <= CoolingCover'
    BY <1>0
  <2>5. OwedBy(epoch) = OwedBy(e) /\ OwedBy(epoch)' = OwedBy(e)'
    BY <1>0, OwedInEpoch
  <2>6. ASSUME NEW n \in Nat, Claimed(n, e)
        PROVE  OwedBy(epoch)' <= CoolingCover'
    <3>1. OwedBy(epoch)' = OwedBy(epoch) - n
      BY <2>5, <2>6 DEF Claimed
    <3>2. CoolingCover' = CoolingCover - n
      BY <1>0, <2>6 DEF Claimed, TypeOK, CoolingCover
    <3> QED BY <2>4, <3>1, <3>2
  <2>7. ASSUME OwedBy(e)' = OwedBy(e), ~ \E t \in Tickets : Claim(t)
        PROVE  OwedBy(epoch)' <= CoolingCover'
    <3>1. CoolingCover <= CoolingCover'
      BY <1>0, <1>5, <2>7, CoverGrows
    <3>2. OwedBy(epoch)' = OwedBy(epoch)
      BY <2>5, <2>7
    <3>3. \A x, y, z \in Nat : x <= y /\ y <= z => x <= z
      OBVIOUS
    <3> QED BY <2>4, <3>1, <3>2, <3>3, Zenon
  <2> QED BY <1>0, <2>2, <2>6, <2>7, NextOwed
<1> QED BY <1>1, <1>2, <1>3, <1>4, <1>5

LEMMA SoleTimely ==
  ASSUME NoSlashing, NoPause, SoleValidator, TimelyInv, SoleCovers, RoomForSplit,
         [TimelyNext]_vars
  PROVE  TimelyInv' /\ SoleCovers'
<1>1. CASE UNCHANGED vars
  BY <1>1, StutterTimely DEF SoleCovers
<1>2. CASE CranksDone /\ AdvancePhase
  BY <1>2, PhaseTimely DEF SoleCovers
<1>3. CASE CranksDone /\ (AdvanceEpoch \/ NextEpoch)
  BY <1>3, EpochTimely DEF SoleCovers, DeltaCovers
<1>4. CASE Others
  <2>1. TimelyInv'
    BY <1>4, OthersTimely
  <2> QED BY <1>4, <2>1, OthersSoleCovers DEF TimelyInv
<1> QED BY <1>1, <1>2, <1>3, <1>4 DEF TimelyNext, Tick

(* With one validator the same holds in every epoch, calm or not.           *)
THEOREM SoleValidatorCovers ==
  ASSUME NoSlashing, NoPause, SoleValidator
  PROVE  TimelySpec /\ []RoomForSplit => []DueTicketsCovered
<1>1. Init => TimelyInv /\ SoleCovers
  BY InitTimely DEF Init, SoleCovers
<1>2. TimelyInv /\ SoleCovers /\ RoomForSplit /\ [TimelyNext]_vars
        => TimelyInv' /\ SoleCovers'
  BY SoleTimely
<1>3. TimelyInv => DueTicketsCovered
  BY InvCovers
<1> QED BY <1>1, <1>2, <1>3, PTL DEF TimelySpec
=============================================================================
