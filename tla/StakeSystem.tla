---------------------------- MODULE StakeSystem ----------------------------
(* The staking core of the program: the stake and validator lists, the      *)
(* counters that mirror them, the SOL reserve, the delayed-unstake tickets  *)
(* and every instruction that moves lamports between them, over the native  *)
(* stake accounts of the Solana stake program.                              *)
(*                                                                          *)
(* An instruction is atomic: it either commits all of its changes or fails  *)
(* and changes nothing.  Its failures (require!, err!, a checked subtraction *)
(* that would underflow) are the conjuncts of its action's guard; a success *)
(* that changes nothing is a stuttering step and has no action.             *)
(*                                                                          *)
(* The instance is one created by Initialize, so the delinquent upgrader is *)
(* Done and every listed record has the status Active or Deactivating.      *)
(* mSOL amounts are not part of this state: an instruction that turns mSOL  *)
(* into lamports takes the lamports as its input.                           *)
EXTENDS Amounts

CONSTANTS
  Accounts,       \* addresses of stake accounts (their number is the list's capacity)
  Validators,     \* vote accounts
  Canonical,      \* the canonical stake address of each validator
  Tickets,        \* addresses of delayed-unstake ticket accounts
  MinStake,       \* stake_system.min_stake
  MinWithdraw,    \* state.min_withdraw
  StakingSolCap,  \* state.staking_sol_cap
  MaxStakeMovedBp,\* state.max_stake_moved_per_epoch, in basis points
  StakeRent,      \* rent-exempt reserve of a stake account
  MaxEpoch,       \* bound: the last epoch
  MaxLamports,    \* bound: lamports the outside world may bring in
  Scores,         \* the inputs below are the amounts TLC draws from
  ExtraRuns, Deposits, StakeDeposits, Orders, Withdrawals, Unstakes,
  Rewards, Slashes, Tips, Donations,
  Delinquents,    \* validators that may be delinquent for too long
  MayPause        \* whether the pause authority acts

CanonicalAccounts == {Canonical[v] : v \in Validators}

ASSUME SetsAssumption ==
  /\ IsFiniteSet(Accounts) /\ IsFiniteSet(Validators) /\ IsFiniteSet(Tickets)
  /\ "none" \notin Validators
  /\ Canonical \in [Validators -> Accounts]
  /\ \A v, w \in Validators : Canonical[v] = Canonical[w] => v = w
  /\ Delinquents \subseteq Validators
  /\ MayPause \in BOOLEAN

ASSUME AmountsAssumption ==
  /\ MinStake \in Nat \ {0} /\ MinWithdraw \in Nat \ {0}
  /\ StakingSolCap \in Nat /\ MaxStakeMovedBp \in Nat /\ StakeRent \in Nat
  /\ MaxEpoch \in Nat /\ MaxLamports \in Nat
  /\ Scores \subseteq Nat /\ ExtraRuns \subseteq Nat
  /\ Deposits \subseteq Nat /\ StakeDeposits \subseteq Nat /\ Orders \subseteq Nat
  /\ Withdrawals \subseteq Nat /\ Unstakes \subseteq Nat
  /\ Rewards \subseteq Nat /\ Slashes \subseteq Nat
  /\ Tips \subseteq Nat /\ Donations \subseteq Nat

VARIABLES
  epoch, phase,                 \* the clock
  paused,
  stakes,                       \* the stake list: a record for each address
  native,                       \* the stake program's accounts
  validators,                   \* the validator list: a record for each vote account
  totalValidatorScore,
  totalActiveBalance,
  delayedUnstakeCoolingDown,
  emergencyCoolingDown,
  reserveBalance,               \* lamports of the reserve PDA above its rent
  availableReserveBalance,      \* the state's own record of them
  tickets,                      \* the ticket accounts
  circulatingTicketBalance, circulatingTicketCount,
  lastStakeDeltaEpoch, extraStakeDeltaRuns,
  lastStakeMoveEpoch, stakeMoved

clockVars     == <<epoch, phase>>
listVars      == <<stakes, native, validators>>
coolingVars   == <<delayedUnstakeCoolingDown, emergencyCoolingDown>>
balanceVars   == <<totalActiveBalance, delayedUnstakeCoolingDown, emergencyCoolingDown>>
reserveVars   == <<reserveBalance, availableReserveBalance>>
ticketVars    == <<tickets, circulatingTicketBalance, circulatingTicketCount>>
deltaVars     == <<lastStakeDeltaEpoch, extraStakeDeltaRuns>>
moveVars      == <<lastStakeMoveEpoch, stakeMoved>>
vars == <<clockVars, paused, listVars, totalValidatorScore, balanceVars,
          reserveVars, ticketVars, deltaVars, moveVars>>

Never == -1                        \* u64::MAX where an epoch is expected
Epochs == Nat \cup {Never}

(* A record of the stake list.  delegated is last_update_delegated_lamports, *)
(* the stake as of the last update; Unknown is the status of an empty slot. *)
StakeRecord ==
  [delegated : Nat, emergency : BOOLEAN, status : {"Active", "Deactivating", "Unknown"}]
NoRecord == [delegated |-> 0, emergency |-> FALSE, status |-> "Unknown"]
NewRecord(n, emergency, status) ==
  [delegated |-> n, emergency |-> emergency, status |-> status]

(* A native stake account: its delegation and the lamports (extra) it holds *)
(* above the delegated stake and the rent.                                  *)
NativeStake ==
  [voter : Validators \cup {"none"}, stake : Nat, extra : Nat,
   activation : Nat, deactivation : Epochs]
NoAccount ==
  [voter |-> "none", stake |-> 0, extra |-> 0, activation |-> 0, deactivation |-> Never]

ValidatorRecord == [listed : BOOLEAN, active : Nat, score : Nat, lastDelta : Epochs]
NoValidator == [listed |-> FALSE, active |-> 0, score |-> 0, lastDelta |-> Never]

Ticket == [lamports : Nat, createdEpoch : Nat]
NoTicket == [lamports |-> 0, createdEpoch |-> 0]

Phases == {"early", "settled", "window"}
-----------------------------------------------------------------------------
(* What the instructions read. *)

Listed(a) == stakes[a].status # "Unknown"
Fresh(a) == ~Listed(a) /\ a \notin CanonicalAccounts

TotalLamportsUnderControl ==
  totalActiveBalance + delayedUnstakeCoolingDown + emergencyCoolingDown
    + availableReserveBalance
(* A mutant: the tickets not subtracted. *)
TotalVirtualStakedLamportsGross == TotalLamportsUnderControl
TotalVirtualStakedLamports ==
  SatSub(TotalLamportsUnderControl, circulatingTicketBalance)

(* Mutants of StakeDelta: the tickets, or the emergency unstakes, forgotten. *)
StakeDeltaNoTickets ==
  LET raw == reserveBalance + delayedUnstakeCoolingDown
  IN  IF raw >= 0 THEN raw ELSE MinOf(raw + emergencyCoolingDown, 0)
StakeDeltaNoEmergency ==
  reserveBalance + delayedUnstakeCoolingDown - circulatingTicketBalance

(* What there is to stake or, below zero, to unstake. *)
StakeDelta ==
  LET raw == reserveBalance + delayedUnstakeCoolingDown - circulatingTicketBalance
  IN  IF raw >= 0 THEN raw ELSE MinOf(raw + emergencyCoolingDown, 0)

ValidatorStakeTarget(v, total) ==
  IF totalValidatorScore = 0 THEN 0
  ELSE (total * validators[v].score) \div totalValidatorScore

FeeApply(bp, n) == (n * bp) \div 10000

(* check_stake_amount_and_validator: the stake is up to date with its record *)
(* and delegated to a validator of the list.                                *)
CheckStakeAmountAndValidator(a, v) ==
  /\ validators[v].listed
  /\ native[a].voter = v
  /\ native[a].stake = stakes[a].delegated

(* The stake program lets all the lamports of an account go once its stake  *)
(* is no longer effective.                                                  *)
CooledDown(a) ==
  /\ native[a].deactivation # Never
  /\ native[a].deactivation < epoch \/ native[a].deactivation = native[a].activation

InStakeDeltaWindow == phase = "window"

(* All the lamports the program's accounts hold above their rents. *)
NativeLamports == [a \in Accounts |-> native[a].stake + native[a].extra]
LamportsHeld == reserveBalance + Total(Accounts, NativeLamports)
-----------------------------------------------------------------------------
Init ==
  /\ epoch = 0 /\ phase = "early" /\ paused = FALSE
  /\ stakes = [a \in Accounts |-> NoRecord]
  /\ native = [a \in Accounts |-> NoAccount]
  /\ validators = [v \in Validators |-> NoValidator]
  /\ totalValidatorScore = 0
  /\ totalActiveBalance = 0
  /\ delayedUnstakeCoolingDown = 0 /\ emergencyCoolingDown = 0
  /\ reserveBalance = 0 /\ availableReserveBalance = 0
  /\ tickets = [t \in Tickets |-> NoTicket]
  /\ circulatingTicketBalance = 0 /\ circulatingTicketCount = 0
  /\ lastStakeDeltaEpoch = Never /\ extraStakeDeltaRuns = 0
  /\ lastStakeMoveEpoch = 0 /\ stakeMoved = 0
-----------------------------------------------------------------------------
(* Users. *)

(* A mutant: the deposit does not ask whether the program is paused. *)
DepositUnasked(n) ==
  /\ n > 0 /\ TotalLamportsUnderControl + n <= StakingSolCap
  /\ LamportsHeld + n <= MaxLamports
  /\ reserveBalance' = reserveBalance + n
  /\ availableReserveBalance' = availableReserveBalance + n
  /\ UNCHANGED <<clockVars, paused, listVars, totalValidatorScore, balanceVars,
                 ticketVars, deltaVars, moveVars>>

(* The part of a deposit the liquidity pool did not serve goes to the reserve. *)
Deposit(n) ==
  /\ ~paused
  /\ n > 0 /\ TotalLamportsUnderControl + n <= StakingSolCap
  /\ LamportsHeld + n <= MaxLamports
  /\ reserveBalance' = reserveBalance + n
  /\ availableReserveBalance' = availableReserveBalance + n
  /\ UNCHANGED <<clockVars, paused, listVars, totalValidatorScore, balanceVars,
                 ticketVars, deltaVars, moveVars>>

(* A user hands over a stake account that is active or activating. *)
DepositStakeAccount(a, v, n, activation) ==
  /\ ~paused
  /\ Fresh(a) /\ validators[v].listed
  /\ activation <= epoch /\ n >= MinStake
  /\ TotalLamportsUnderControl + n <= StakingSolCap
  /\ LamportsHeld + n <= MaxLamports
  /\ stakes' = [stakes EXCEPT ![a] = NewRecord(n, FALSE, "Active")]
  /\ native' = [native EXCEPT ![a] = [voter |-> v, stake |-> n, extra |-> 0,
                                      activation |-> activation, deactivation |-> Never]]
  /\ validators' = [validators EXCEPT ![v].active = @ + n]
  /\ totalActiveBalance' = totalActiveBalance + n
  /\ UNCHANGED <<clockVars, paused, totalValidatorScore, coolingVars, reserveVars,
                 ticketVars, deltaVars, moveVars>>

(* A user burns mSOL for n lamports of an active stake, split off for them. *)
(* No mSOL amount is worth more than the total virtual staked lamports.     *)
WithdrawStakeAccount(a, n) ==
  LET v == native[a].voter IN
  /\ ~paused
  /\ stakes[a].status = "Active" /\ ~stakes[a].emergency
  /\ native[a].deactivation = Never
  /\ CheckStakeAmountAndValidator(a, v)
  /\ n <= TotalVirtualStakedLamports
  /\ n >= MinStake /\ stakes[a].delegated >= n + MinStake
  /\ validators[v].active >= n /\ totalActiveBalance >= n
  /\ stakes' = [stakes EXCEPT ![a].delegated = @ - n]
  /\ native' = [native EXCEPT ![a].stake = @ - n]
  /\ validators' = [validators EXCEPT ![v].active = @ - n]
  /\ totalActiveBalance' = totalActiveBalance - n
  /\ UNCHANGED <<clockVars, paused, totalValidatorScore, coolingVars, reserveVars,
                 ticketVars, deltaVars, moveVars>>

(* Once stake-delta activity has begun in this epoch a ticket is dated from *)
(* the next one.  The mutant dates it from now.                             *)
TicketEpochNow == epoch
TicketEpoch == IF epoch = lastStakeDeltaEpoch THEN epoch + 1 ELSE epoch

(* A user burns mSOL for a ticket of n lamports. *)
OrderUnstake(t, n) ==
  /\ ~paused
  /\ tickets[t].lamports = 0
  /\ n >= MinWithdraw /\ n <= TotalVirtualStakedLamports
  /\ tickets' = [tickets EXCEPT ![t] = [lamports |-> n, createdEpoch |-> TicketEpoch]]
  /\ circulatingTicketBalance' = circulatingTicketBalance + n
  /\ circulatingTicketCount' = circulatingTicketCount + 1
  /\ UNCHANGED <<clockVars, paused, listVars, totalValidatorScore, balanceVars,
                 reserveVars, deltaVars, moveVars>>

(* The ticket is due, and the reserve can pay it: the real balance decides  *)
(* whether the instruction asks the user to wait, the recorded one must not *)
(* underflow.  The mutant looks at the real one only.                       *)
Due(t) ==
  /\ tickets[t].lamports # 0
  /\ epoch >= tickets[t].createdEpoch + 1
  /\ epoch = tickets[t].createdEpoch + 1 => phase # "early"
PayableReal(t) == Due(t) /\ tickets[t].lamports <= reserveBalance
Payable(t) ==
  /\ Due(t)
  /\ tickets[t].lamports <= reserveBalance
  /\ tickets[t].lamports <= availableReserveBalance

(* A mutant: the ticket account is left as it is. *)
ClaimKeepingTicket(t) ==
  LET n == tickets[t].lamports IN
  /\ ~paused /\ Payable(t)
  /\ n <= circulatingTicketBalance /\ circulatingTicketCount > 0
  /\ circulatingTicketBalance' = circulatingTicketBalance - n
  /\ circulatingTicketCount' = circulatingTicketCount - 1
  /\ reserveBalance' = reserveBalance - n
  /\ availableReserveBalance' = availableReserveBalance - n
  /\ UNCHANGED <<clockVars, paused, listVars, totalValidatorScore, balanceVars,
                 tickets, deltaVars, moveVars>>

(* A ticket is paid from the reserve and its account closed. *)
Claim(t) ==
  LET n == tickets[t].lamports IN
  /\ ~paused /\ Payable(t)
  /\ n <= circulatingTicketBalance /\ circulatingTicketCount > 0
  /\ tickets' = [tickets EXCEPT ![t] = NoTicket]
  /\ circulatingTicketBalance' = circulatingTicketBalance - n
  /\ circulatingTicketCount' = circulatingTicketCount - 1
  /\ reserveBalance' = reserveBalance - n
  /\ availableReserveBalance' = availableReserveBalance - n
  /\ UNCHANGED <<clockVars, paused, listVars, totalValidatorScore, balanceVars,
                 deltaVars, moveVars>>
-----------------------------------------------------------------------------
(* The stake-delta crank. *)

(* A mutant: the gap to the target forgets what the validator has already.  *)
AmountToStakeUpToTarget(v) ==
  LET target == ValidatorStakeTarget(v, totalActiveBalance + StakeDelta)
      amount == MinOf(target, StakeDelta)
  IN  IF validators[v].active >= target \/ amount < MinStake THEN 0 ELSE amount

(* What StakeReserve puts into validator v: its gap to its target, or all   *)
(* that is left to stake when the rest would be too little for a stake      *)
(* account of its own; 0 where the instruction returns early.               *)
AmountToStake(v) ==
  LET target == ValidatorStakeTarget(v, totalActiveBalance + StakeDelta)
      gap    == MinOf(SatSub(target, validators[v].active), StakeDelta)
      amount == IF StakeDelta - gap < MinStake THEN StakeDelta ELSE gap
  IN  IF validators[v].active >= target \/ amount < MinStake THEN 0 ELSE amount

(* A second run for the same validator in an epoch uses one of the extra    *)
(* runs, also when the run goes on to stake nothing.                        *)
StakeReserveRun(v) ==
  /\ ~paused
  /\ StakeDelta > 0
  /\ validators[v].listed
  /\ InStakeDeltaWindow
  /\ IF validators[v].lastDelta = epoch
     THEN extraStakeDeltaRuns > 0 /\ extraStakeDeltaRuns' = extraStakeDeltaRuns - 1
     ELSE extraStakeDeltaRuns' = extraStakeDeltaRuns

StakeReserve(v, a) ==
  LET n == AmountToStake(v) IN
  /\ StakeReserveRun(v)
  /\ n > 0 /\ Fresh(a)
  /\ n <= reserveBalance /\ n <= availableReserveBalance
  /\ reserveBalance' = reserveBalance - n
  /\ availableReserveBalance' = availableReserveBalance - n
  /\ stakes' = [stakes EXCEPT ![a] = NewRecord(n, FALSE, "Active")]
  /\ native' = [native EXCEPT ![a] = [voter |-> v, stake |-> n, extra |-> 0,
                                      activation |-> epoch, deactivation |-> Never]]
  /\ validators' = [validators EXCEPT ![v].active = @ + n, ![v].lastDelta = epoch]
  /\ totalActiveBalance' = totalActiveBalance + n
  /\ lastStakeDeltaEpoch' = epoch
  /\ UNCHANGED <<clockVars, paused, totalValidatorScore, coolingVars, ticketVars, moveVars>>

StakeReserveNothing(v) ==
  /\ StakeReserveRun(v)
  /\ AmountToStake(v) = 0
  /\ UNCHANGED <<clockVars, paused, listVars, totalValidatorScore, balanceVars,
                 reserveVars, ticketVars, lastStakeDeltaEpoch, moveVars>>

(* The two ways a stake is deactivated: as a whole, or by splitting n off   *)
(* into the new account b.  The stake program refuses to deactivate twice.  *)
(* Mutants: the record is not told apart, or not changed, as it should be.  *)
DeactivateWholeUnmarked(a, emergency) ==
  /\ native[a].deactivation = Never
  /\ stakes' = [stakes EXCEPT ![a].status = "Deactivating"]
  /\ native' = [native EXCEPT ![a].deactivation = epoch]
DeactivateWholeRecordOnly(a, emergency) ==
  /\ native[a].deactivation = Never
  /\ stakes' = [stakes EXCEPT ![a].status = "Deactivating", ![a].emergency = emergency]
  /\ native' = native
DeactivateSplitKeepingRecord(a, b, n, emergency) ==
  /\ native[a].deactivation = Never
  /\ Fresh(b)
  /\ stakes' = [stakes EXCEPT ![b] = NewRecord(n, emergency, "Deactivating")]
  /\ native' = [native EXCEPT ![a].stake = @ - n,
                              ![b] = [native[a] EXCEPT !.stake = n, !.extra = 0,
                                                       !.deactivation = epoch]]

DeactivateWhole(a, emergency) ==
  /\ native[a].deactivation = Never
  /\ stakes' = [stakes EXCEPT ![a].status = "Deactivating", ![a].emergency = emergency]
  /\ native' = [native EXCEPT ![a].deactivation = epoch]

DeactivateSplit(a, b, n, emergency) ==
  /\ native[a].deactivation = Never
  /\ Fresh(b)
  /\ stakes' = [stakes EXCEPT ![a].delegated = @ - n,
                              ![b] = NewRecord(n, emergency, "Deactivating")]
  /\ native' = [native EXCEPT ![a].stake = @ - n,
                              ![b] = [native[a] EXCEPT !.stake = n, !.extra = 0,
                                                       !.deactivation = epoch]]

(* The balance validator v is left with when the crank unstakes. *)
UnstakeTarget(v) ==
  ValidatorStakeTarget(v, SatSub(totalActiveBalance, -StakeDelta))

(* What account a is left with: its stake_account_target. *)
AmountToKeep(a) ==
  LET v == native[a].voter
  IN  SatSub(stakes[a].delegated, MinOf(validators[v].active - UnstakeTarget(v), -StakeDelta))

DeactivateStake(a, b) ==
  LET v     == native[a].voter
      rec   == stakes[a]
      keep  == AmountToKeep(a)
      whole == keep < 2 * MinStake
      n     == IF whole THEN rec.delegated ELSE rec.delegated - keep
  IN
  /\ ~paused
  /\ rec.status = "Active" /\ ~rec.emergency
  /\ InStakeDeltaWindow
  /\ StakeDelta < 0
  /\ CheckStakeAmountAndValidator(a, v)
  /\ validators[v].active > UnstakeTarget(v)
  /\ \/ whole /\ DeactivateWhole(a, FALSE)
     \/ ~whole /\ validators[v].lastDelta # epoch /\ DeactivateSplit(a, b, n, FALSE)
  /\ validators[v].active >= n /\ totalActiveBalance >= n
  /\ validators' = [validators EXCEPT ![v].active = @ - n,
                                      ![v].lastDelta = IF whole THEN @ ELSE epoch]
  /\ lastStakeDeltaEpoch' = epoch
  /\ totalActiveBalance' = totalActiveBalance - n
  /\ delayedUnstakeCoolingDown' = delayedUnstakeCoolingDown + n
  /\ UNCHANGED <<clockVars, paused, totalValidatorScore, emergencyCoolingDown, reserveVars,
                 ticketVars, extraStakeDeltaRuns, moveVars>>
-----------------------------------------------------------------------------
(* The validator manager. *)

AddValidator(v, score) ==
  /\ ~paused
  /\ ~validators[v].listed
  /\ validators' = [validators EXCEPT ![v] =
       [listed |-> TRUE, active |-> 0, score |-> score, lastDelta |-> Never]]
  /\ totalValidatorScore' = totalValidatorScore + score
  /\ UNCHANGED <<clockVars, paused, stakes, native, balanceVars, reserveVars,
                 ticketVars, deltaVars, moveVars>>

(* A mutant: the score stays in the total. *)
RemoveValidatorKeepingScore(v) ==
  /\ ~paused
  /\ validators[v].listed
  /\ validators[v].active = 0
  /\ validators' = [validators EXCEPT ![v] = NoValidator]
  /\ UNCHANGED <<clockVars, paused, stakes, native, totalValidatorScore, balanceVars,
                 reserveVars, ticketVars, deltaVars, moveVars>>

RemoveValidator(v) ==
  /\ ~paused
  /\ validators[v].listed
  /\ validators[v].active = 0
  /\ totalValidatorScore >= validators[v].score
  /\ validators' = [validators EXCEPT ![v] = NoValidator]
  /\ totalValidatorScore' = totalValidatorScore - validators[v].score
  /\ UNCHANGED <<clockVars, paused, stakes, native, balanceVars, reserveVars,
                 ticketVars, deltaVars, moveVars>>

SetValidatorScore(v, score) ==
  /\ ~paused
  /\ validators[v].listed
  /\ totalValidatorScore >= validators[v].score
  /\ validators' = [validators EXCEPT ![v].score = score]
  /\ totalValidatorScore' = totalValidatorScore - validators[v].score + score
  /\ UNCHANGED <<clockVars, paused, stakes, native, balanceVars, reserveVars,
                 ticketVars, deltaVars, moveVars>>

ConfigValidatorSystem(runs) ==
  /\ extraStakeDeltaRuns' = runs
  /\ UNCHANGED <<clockVars, paused, listVars, totalValidatorScore, balanceVars,
                 reserveVars, ticketVars, lastStakeDeltaEpoch, moveVars>>

(* A mutant: the moves of an epoch do not accumulate. *)
OnStakeMovedAlone(n) ==
  /\ n <= FeeApply(MaxStakeMovedBp, TotalLamportsUnderControl)
  /\ lastStakeMoveEpoch' = epoch
  /\ stakeMoved' = n

(* on_stake_moved: what the manager moves in an epoch is capped. *)
OnStakeMoved(n) ==
  LET moved == (IF epoch = lastStakeMoveEpoch THEN stakeMoved ELSE 0) + n IN
  /\ moved <= FeeApply(MaxStakeMovedBp, TotalLamportsUnderControl)
  /\ lastStakeMoveEpoch' = epoch
  /\ stakeMoved' = moved

(* A mutant: the validator's own balance is forgotten. *)
MoveToEmergencyTotalOnly(v, n) ==
  /\ OnStakeMoved(n)
  /\ totalActiveBalance >= n
  /\ totalActiveBalance' = totalActiveBalance - n
  /\ emergencyCoolingDown' = emergencyCoolingDown + n
  /\ UNCHANGED <<clockVars, paused, validators, totalValidatorScore,
                 delayedUnstakeCoolingDown, reserveVars, ticketVars, deltaVars>>

(* What the two emergency instructions do to the counters. *)
MoveToEmergency(v, n) ==
  /\ OnStakeMoved(n)
  /\ validators[v].active >= n /\ totalActiveBalance >= n
  /\ validators' = [validators EXCEPT ![v].active = @ - n]
  /\ totalActiveBalance' = totalActiveBalance - n
  /\ emergencyCoolingDown' = emergencyCoolingDown + n
  /\ UNCHANGED <<clockVars, paused, totalValidatorScore, delayedUnstakeCoolingDown,
                 reserveVars, ticketVars, deltaVars>>

EmergencyUnstake(a) ==
  LET v == native[a].voter IN
  /\ ~paused
  /\ stakes[a].status = "Active" /\ ~stakes[a].emergency
  /\ CheckStakeAmountAndValidator(a, v)
  /\ validators[v].score = 0
  /\ DeactivateWhole(a, TRUE)
  /\ MoveToEmergency(v, stakes[a].delegated)

(* What PartialUnstake takes of the desired amount: no more than is above   *)
(* the target.  The mutant takes it all.                                    *)
PartialAmountDesired(v, desired) == desired
PartialAmount(v, desired) ==
  MinOf(desired, validators[v].active
                   - ValidatorStakeTarget(v, totalActiveBalance + StakeDelta))

(* The manager takes up to desired lamports from an over-staked validator. *)
PartialUnstake(a, b, desired) ==
  LET v      == native[a].voter
      rec    == stakes[a]
      target == ValidatorStakeTarget(v, totalActiveBalance + StakeDelta)
      n      == PartialAmount(v, desired)
      whole  == SatSub(rec.delegated, n) < MinStake
  IN
  /\ ~paused
  /\ desired >= MinStake
  /\ rec.status = "Active" /\ ~rec.emergency
  /\ CheckStakeAmountAndValidator(a, v)
  /\ totalActiveBalance + StakeDelta >= 0
  /\ validators[v].active > target + MinStake
  /\ \/ whole /\ DeactivateWhole(a, TRUE)
     \/ ~whole /\ DeactivateSplit(a, b, n, TRUE)
  /\ MoveToEmergency(v, IF whole THEN rec.delegated ELSE n)
-----------------------------------------------------------------------------
(* The update crank.  Both instructions first align the recorded reserve    *)
(* balance with the real one, and find the validator record of the native   *)
(* voter.                                                                   *)

(* begin and withdraw_to_reserve: a mutant counts the withdrawal twice, the *)
(* other does not count it.                                                 *)
WithdrawToReserveTwice(n) ==
  /\ reserveBalance' = reserveBalance + n
  /\ availableReserveBalance' = reserveBalance + n + n
WithdrawToReserveUnrecorded(n) ==
  /\ reserveBalance' = reserveBalance + n
  /\ availableReserveBalance' = reserveBalance
WithdrawToReserve(n) ==
  /\ reserveBalance' = reserveBalance + n
  /\ availableReserveBalance' = reserveBalance + n

(* Rewards and slashing of an active stake; lamports above the delegation   *)
(* are taken to the reserve.                                                *)
UpdateActive(a) ==
  LET v   == native[a].voter
      old == stakes[a].delegated
      new == native[a].stake
  IN
  /\ ~paused
  /\ stakes[a].status = "Active"
  /\ validators[v].listed
  /\ native[a].deactivation = Never
  /\ validators[v].active + new >= old /\ totalActiveBalance + new >= old
  /\ WithdrawToReserve(native[a].extra)
  /\ native' = [native EXCEPT ![a].extra = 0]
  /\ stakes' = [stakes EXCEPT ![a].delegated = new]
  /\ validators' = [validators EXCEPT ![v].active = @ + new - old]
  /\ totalActiveBalance' = totalActiveBalance + new - old
  /\ UNCHANGED <<clockVars, paused, totalValidatorScore, coolingVars, ticketVars,
                 deltaVars, moveVars>>

(* Everything a deactivated stake holds goes to the reserve and its record  *)
(* is removed.  A stake the program still records as Active was deactivated *)
(* from outside: it leaves the active balances first.                       *)
UpdateDeactivated(a) ==
  LET v   == native[a].voter
      rec == stakes[a]
      n   == rec.delegated
  IN
  /\ ~paused
  /\ Listed(a) /\ validators[v].listed
  /\ CooledDown(a)
  /\ \/ /\ rec.status = "Active" /\ ~rec.emergency
        /\ validators[v].active >= n /\ totalActiveBalance >= n
        /\ validators' = [validators EXCEPT ![v].active = @ - n]
        /\ totalActiveBalance' = totalActiveBalance - n
        /\ UNCHANGED coolingVars
     \/ /\ rec.status = "Deactivating" /\ ~rec.emergency
        /\ delayedUnstakeCoolingDown >= n
        /\ delayedUnstakeCoolingDown' = delayedUnstakeCoolingDown - n
        /\ UNCHANGED <<validators, totalActiveBalance, emergencyCoolingDown>>
     \/ /\ rec.status = "Deactivating" /\ rec.emergency
        /\ emergencyCoolingDown >= n
        /\ emergencyCoolingDown' = emergencyCoolingDown - n
        /\ UNCHANGED <<validators, totalActiveBalance, delayedUnstakeCoolingDown>>
  /\ WithdrawToReserve(native[a].stake + native[a].extra)
  /\ stakes' = [stakes EXCEPT ![a] = NoRecord]
  /\ native' = [native EXCEPT ![a] = NoAccount]
  /\ UNCHANGED <<clockVars, paused, totalValidatorScore, ticketVars, deltaVars, moveVars>>
-----------------------------------------------------------------------------
(* Canonical stake accounts. *)

(* A stake that Marinade may move as a whole: up to date, nothing extra. *)
MovableStake(v, s) ==
  /\ validators[v].listed
  /\ Listed(s)
  /\ native[s].deactivation = Never
  /\ stakes[s].delegated = native[s].stake
  /\ native[s].extra = 0
  /\ native[s].voter = v

CreateCanonicalStake(v, s) ==
  LET c == Canonical[v] IN
  /\ ~paused
  /\ ~Listed(c)
  /\ MovableStake(v, s)
  /\ stakes' = [stakes EXCEPT ![c] = NewRecord(native[s].stake, FALSE, "Active"),
                              ![s] = NoRecord]
  /\ native' = [native EXCEPT ![c] = native[s], ![s] = NoAccount]
  /\ UNCHANGED <<clockVars, paused, validators, totalValidatorScore, balanceVars,
                 reserveVars, ticketVars, deltaVars, moveVars>>

(* The stake program merges two stakes activating in this epoch, adding the *)
(* rent of the source to the delegation, or two fully active ones.          *)
MergeStakes(v, s) ==
  LET c     == Canonical[v]
      extra == IF native[c].activation = epoch THEN StakeRent ELSE 0
  IN
  /\ ~paused
  /\ c # s
  /\ stakes[c].status = "Active" /\ stakes[s].status = "Active"
  /\ native[c].deactivation = Never
  /\ stakes[c].delegated = native[c].stake
  /\ native[c].voter = v
  /\ MovableStake(v, s)
  /\ (native[c].activation = epoch) = (native[s].activation = epoch)
  /\ LamportsHeld + extra <= MaxLamports
  /\ stakes' = [stakes EXCEPT ![c].delegated = @ + stakes[s].delegated + extra,
                              ![s] = NoRecord]
  /\ native' = [native EXCEPT ![c].stake = @ + native[s].stake + extra, ![s] = NoAccount]
  /\ validators' = [validators EXCEPT ![v].active = @ + extra]
  /\ totalActiveBalance' = totalActiveBalance + extra
  /\ UNCHANGED <<clockVars, paused, totalValidatorScore, coolingVars, reserveVars,
                 ticketVars, deltaVars, moveVars>>
-----------------------------------------------------------------------------
(* The pause authority. *)

Pause ==
  /\ MayPause
  /\ ~paused /\ paused' = TRUE
  /\ UNCHANGED <<clockVars, listVars, totalValidatorScore, balanceVars,
                 reserveVars, ticketVars, deltaVars, moveVars>>

Resume ==
  /\ paused /\ paused' = FALSE
  /\ UNCHANGED <<clockVars, listVars, totalValidatorScore, balanceVars,
                 reserveVars, ticketVars, deltaVars, moveVars>>
-----------------------------------------------------------------------------
(* The chain around the program: none of this asks the program anything. *)

programVars == <<paused, stakes, validators, totalValidatorScore, balanceVars,
                 availableReserveBalance, ticketVars, deltaVars, moveVars>>

AdvancePhase ==
  /\ phase # "window"
  /\ phase' = IF phase = "early" THEN "settled" ELSE "window"
  /\ UNCHANGED <<epoch, native, reserveBalance, programVars>>

AdvanceEpoch ==
  /\ phase = "window" /\ epoch < MaxEpoch
  /\ epoch' = epoch + 1 /\ phase' = "early"
  /\ UNCHANGED <<native, reserveBalance, programVars>>

(* Staking rewards are credited as the epoch starts, to stakes that were    *)
(* effective in the one before.                                             *)
Reward(a, n) ==
  /\ phase = "early" /\ Listed(a)
  /\ native[a].activation < epoch
  /\ native[a].deactivation = Never \/ native[a].deactivation + 1 >= epoch
  /\ LamportsHeld + n <= MaxLamports
  /\ native' = [native EXCEPT ![a].stake = @ + n]
  /\ UNCHANGED <<clockVars, reserveBalance, programVars>>

Slash(a, n) ==
  /\ Listed(a) /\ n <= native[a].stake
  /\ native' = [native EXCEPT ![a].stake = @ - n]
  /\ UNCHANGED <<clockVars, reserveBalance, programVars>>

(* MEV rewards, or anyone's transfer to a stake account. *)
Tip(a, n) ==
  /\ Listed(a)
  /\ LamportsHeld + n <= MaxLamports
  /\ native' = [native EXCEPT ![a].extra = @ + n]
  /\ UNCHANGED <<clockVars, reserveBalance, programVars>>

(* Anyone's transfer to the reserve, of which the program hears nothing. *)
Donate(n) ==
  /\ LamportsHeld + n <= MaxLamports
  /\ reserveBalance' = reserveBalance + n
  /\ UNCHANGED <<clockVars, native, programVars>>

(* Anyone may deactivate the stake of a validator that did not vote for long. *)
DeactivateDelinquent(a) ==
  /\ Listed(a) /\ native[a].voter \in Delinquents
  /\ native[a].deactivation = Never
  /\ native' = [native EXCEPT ![a].deactivation = epoch]
  /\ UNCHANGED <<clockVars, reserveBalance, programVars>>
-----------------------------------------------------------------------------
UserStep ==
  \/ \E n \in Deposits : Deposit(n)
  \/ \E a \in Accounts, v \in Validators, n \in StakeDeposits, e \in 0 .. MaxEpoch :
       DepositStakeAccount(a, v, n, e)
  \/ \E a \in Accounts, n \in Withdrawals : WithdrawStakeAccount(a, n)
  \/ \E t \in Tickets, n \in Orders : OrderUnstake(t, n)
  \/ \E t \in Tickets : Claim(t)

CrankStep ==
  \/ \E v \in Validators, a \in Accounts : StakeReserve(v, a)
  \/ \E v \in Validators : StakeReserveNothing(v)
  \/ \E a, b \in Accounts : DeactivateStake(a, b)
  \/ \E a \in Accounts : UpdateActive(a)
  \/ \E a \in Accounts : UpdateDeactivated(a)
  \/ \E v \in Validators, s \in Accounts : CreateCanonicalStake(v, s)
  \/ \E v \in Validators, s \in Accounts : MergeStakes(v, s)

ManagerStep ==
  \/ \E v \in Validators, score \in Scores : AddValidator(v, score)
  \/ \E v \in Validators : RemoveValidator(v)
  \/ \E v \in Validators, score \in Scores : SetValidatorScore(v, score)
  \/ \E runs \in ExtraRuns : ConfigValidatorSystem(runs)
  \/ \E a \in Accounts : EmergencyUnstake(a)
  \/ \E a, b \in Accounts, n \in Unstakes : PartialUnstake(a, b, n)

PauseStep == Pause \/ Resume

ChainStep ==
  \/ AdvancePhase
  \/ AdvanceEpoch
  \/ \E a \in Accounts, n \in Rewards : Reward(a, n)
  \/ \E a \in Accounts, n \in Slashes : Slash(a, n)
  \/ \E a \in Accounts, n \in Tips : Tip(a, n)
  \/ \E n \in Donations : Donate(n)
  \/ \E a \in Accounts : DeactivateDelinquent(a)

Next == UserStep \/ CrankStep \/ ManagerStep \/ PauseStep \/ ChainStep

Spec == Init /\ [][Next]_vars
-----------------------------------------------------------------------------
(* PROPERTIES *)

TypeOK ==
  /\ epoch \in Nat /\ phase \in Phases /\ paused \in BOOLEAN
  /\ stakes \in [Accounts -> StakeRecord]
  /\ native \in [Accounts -> NativeStake]
  /\ validators \in [Validators -> ValidatorRecord]
  /\ totalValidatorScore \in Nat
  /\ totalActiveBalance \in Nat
  /\ delayedUnstakeCoolingDown \in Nat /\ emergencyCoolingDown \in Nat
  /\ reserveBalance \in Nat /\ availableReserveBalance \in Nat
  /\ tickets \in [Tickets -> Ticket]
  /\ circulatingTicketBalance \in Nat /\ circulatingTicketCount \in Nat
  /\ lastStakeDeltaEpoch \in Epochs /\ extraStakeDeltaRuns \in Nat
  /\ lastStakeMoveEpoch \in Nat /\ stakeMoved \in Nat

(* An address without a record has no stake account, a vote account that is *)
(* not listed has no balance and no score; a stake recorded as Deactivating *)
(* is deactivated on chain (the reverse fails when the deactivation came    *)
(* from outside), and only such a stake is in emergency.                    *)
RecordAgrees(a) ==
  IF Listed(a)
  THEN /\ native[a].voter \in Validators
       /\ stakes[a].status = "Deactivating" => native[a].deactivation # Never
       /\ stakes[a].emergency => stakes[a].status = "Deactivating"
  ELSE stakes[a] = NoRecord /\ native[a] = NoAccount
StatusAgreesWithNative ==
  /\ \A a \in Accounts : RecordAgrees(a)
  /\ \A v \in Validators : ~validators[v].listed => validators[v] = NoValidator

ActiveStake(v) ==
  [a \in Accounts |-> IF stakes[a].status = "Active" /\ native[a].voter = v
                      THEN stakes[a].delegated ELSE 0]
DelayedStake ==
  [a \in Accounts |-> IF stakes[a].status = "Deactivating" /\ ~stakes[a].emergency
                      THEN stakes[a].delegated ELSE 0]
EmergencyStake ==
  [a \in Accounts |-> IF stakes[a].status = "Deactivating" /\ stakes[a].emergency
                      THEN stakes[a].delegated ELSE 0]
ActiveBalance == [v \in Validators |-> validators[v].active]
Score == [v \in Validators |-> validators[v].score]
TicketLamports == [t \in Tickets |-> tickets[t].lamports]

(* A validator's active_balance is the recorded stake of the Active records *)
(* delegated to it, and total_active_balance is the sum over the validators. *)
(* Every instruction that changes a record must change all three.           *)
ActiveBalancesAddUp ==
  /\ \A v \in Validators : validators[v].active = Total(Accounts, ActiveStake(v))
  /\ totalActiveBalance = Total(Validators, ActiveBalance)

(* The two cooling-down counters are the recorded stake of the Deactivating *)
(* records, told apart by is_emergency_unstaking: UpdateDeactivated         *)
(* subtracts from the counter that DeactivateStake, EmergencyUnstake or     *)
(* PartialUnstake added to, epochs before.                                  *)
CoolingBalancesAddUp ==
  /\ delayedUnstakeCoolingDown = Total(Accounts, DelayedStake)
  /\ emergencyCoolingDown = Total(Accounts, EmergencyStake)

(* total_validator_score is the sum of the scores of the listed validators. *)
ScoresAddUp == totalValidatorScore = Total(Validators, Score)

(* circulating_ticket_balance and _count are those of the unclaimed tickets *)
(* (claim.rs: "If circulating_ticket_balance = sum(ticket.balance) is       *)
(* violated we can have a problem").                                        *)
TicketsAddUp ==
  /\ circulatingTicketBalance = Total(Tickets, TicketLamports)
  /\ circulatingTicketCount = Cardinality({t \in Tickets : tickets[t].lamports # 0})

(* The recorded reserve balance never exceeds the real one: what a crank    *)
(* subtracts from both is there (update.rs: "impossible to happen").        *)
ReserveBacked == availableReserveBalance <= reserveBalance

(* While the program is paused nothing of it changes, whoever calls what:   *)
(* no record, no counter, no ticket.  What the chain does to the accounts   *)
(* goes on, and the manager may still set the extra runs.                   *)
FrozenWhilePaused ==
  [][paused /\ paused' =>
       UNCHANGED <<stakes, validators, totalValidatorScore, balanceVars,
                   availableReserveBalance, ticketVars, lastStakeDeltaEpoch,
                   moveVars>>]_vars

(* Docs/Backend-Design.md: "can be called by any user so users are not      *)
(* dependent on us to keep the contract moving".  A deactivated stake that  *)
(* has cooled down can be retrieved by whoever calls update_deactivated.    *)
RetrievableByAnyone ==
  \A a \in Accounts :
    ~paused /\ stakes[a].status = "Deactivating" /\ CooledDown(a)
      => ENABLED UpdateDeactivated(a)

(* What was put into emergency cooling down in this epoch, as the stake     *)
(* accounts tell it, was counted against the cap of moved stake.            *)
MovesAreMetered ==
  LET movedNow == [a \in Accounts |->
        IF stakes[a].emergency /\ native[a].deactivation = epoch
        THEN stakes[a].delegated ELSE 0]
  IN  Total(Accounts, movedNow) <= IF lastStakeMoveEpoch = epoch THEN stakeMoved ELSE 0

(* Without slashing no record and no total is above what is really there.   *)
BooksBacked ==
  /\ \A a \in Accounts : stakes[a].delegated <= native[a].stake
  /\ TotalLamportsUnderControl <= LamportsHeld

(* Without slashing the program can pay every ticket.                       *)
Solvent == circulatingTicketBalance <= TotalLamportsUnderControl

(* The lamports of the tickets that neither the reserve nor the stakes      *)
(* cooling down for them cover.  Without slashing only a new order can      *)
(* raise it: no crank stakes, restakes or loses what covers a ticket.       *)
Uncovered ==
  SatSub(circulatingTicketBalance, reserveBalance + delayedUnstakeCoolingDown)
OnlyOrdersUncover ==
  [][circulatingTicketBalance' <= circulatingTicketBalance => Uncovered' <= Uncovered]_vars

(* However many deactivations run, and whatever emergency unstakes cool     *)
(* down at the same time, the crank unstakes less than twice the minimum    *)
(* stake above what the tickets need.                                       *)
OverUnstakeBounded ==
  [][delayedUnstakeCoolingDown' > delayedUnstakeCoolingDown =>
       reserveBalance' + delayedUnstakeCoolingDown' + emergencyCoolingDown'
         < circulatingTicketBalance' + 2 * MinStake]_vars

(* After StakeReserve the validator is below its target of that moment by   *)
(* the new totals, or above it by less than the minimum stake.              *)
OverStakeBounded ==
  [][\A v \in Validators :
       /\ validators'[v].active > validators[v].active
       /\ reserveBalance' < reserveBalance
       => validators'[v].active
            < ValidatorStakeTarget(v, totalActiveBalance + StakeDelta)' + MinStake]_vars

(* The manager's emergency instructions leave a validator its target, less  *)
(* at most the minimum stake.                                               *)
PartialUnstakeBounded ==
  [][\A v \in Validators :
       /\ emergencyCoolingDown' > emergencyCoolingDown
       /\ validators'[v].active < validators[v].active
       => validators'[v].active + MinStake
            > ValidatorStakeTarget(v, totalActiveBalance + StakeDelta)]_vars
-----------------------------------------------------------------------------
(* Without slashing the staking core is a vault: every crank and manager    *)
(* instruction leaves what is held and what is owed alone and writes no     *)
(* lamport off the books.                                                   *)
V == INSTANCE Vault WITH
       assets <- LamportsHeld,
       books  <- TotalLamportsUnderControl,
       owed   <- circulatingTicketBalance,
       MayRelease <- Withdrawals # {}

ImplementsVault == V!Spec
=============================================================================
