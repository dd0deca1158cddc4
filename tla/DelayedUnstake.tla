--------------------------- MODULE DelayedUnstake ---------------------------
(* Delayed unstaking when the cranks are run in time: StakeSystem where the  *)
(* clock waits for the bot, and where epochs never end.  A ticket is ordered *)
(* in one epoch, stake is deactivated for it in the last slots, cools down,  *)
(* is retrieved by update_deactivated early in the next epoch, and the       *)
(* ticket is claimed; meanwhile everyone else goes on.                       *)
EXTENDS StakeSystem

ASSUME EpochsAssumption == MaxEpoch >= 2

(* What the bot does early in an epoch, for every stake account.             *)
Update(a) == UpdateActive(a) \/ UpdateDeactivated(a)

(* What it does in the last slots, while the tickets need it.                *)
Unstake(a) == \E b \in Accounts : DeactivateStake(a, b)

(* There is something to update: a stake to retrieve, or one whose record,   *)
(* or the record of the reserve, is behind the chain.                        *)
UpdateDue(a) ==
  /\ ~paused
  /\ Listed(a) /\ validators[native[a].voter].listed
  /\ \/ CooledDown(a)
     \/ /\ stakes[a].status = "Active" /\ native[a].deactivation = Never
        /\ \/ stakes[a].delegated # native[a].stake
           \/ native[a].extra # 0
           \/ availableReserveBalance # reserveBalance

(* There is something to unstake: the validator has more than the tickets    *)
(* leave it, and the account may be deactivated as a whole or split.         *)
UnstakeDue(a) ==
  LET v == native[a].voter IN
  /\ ~paused /\ InStakeDeltaWindow
  /\ stakes[a].status = "Active" /\ ~stakes[a].emergency
  /\ native[a].deactivation = Never
  /\ StakeDelta < 0
  /\ CheckStakeAmountAndValidator(a, v)
  /\ validators[v].active > UnstakeTarget(v)
  /\ \/ AmountToKeep(a) < 2 * MinStake
     \/ validators[v].lastDelta # epoch /\ \E b \in Accounts : Fresh(b)

(* Nothing is left for the bot to do.                                        *)
CranksDone ==
  /\ phase = "early"  => \A a \in Accounts : ~UpdateDue(a)
  /\ phase = "window" => \A a \in Accounts : ~UnstakeDue(a)

(* After MaxEpoch the epoch keeps its number and all that was recorded gets  *)
(* one epoch older instead.  The code only asks whether an epoch is the      *)
(* current one, the one before or the next.                                  *)
Older(e) == IF e = Never THEN Never ELSE SatSub(e, 1)

NextEpoch ==
  /\ phase = "window" /\ epoch = MaxEpoch
  /\ phase' = "early"
  /\ native' = [a \in Accounts |->
       [native[a] EXCEPT !.activation = Older(@), !.deactivation = Older(@)]]
  /\ validators' = [v \in Validators |-> [validators[v] EXCEPT !.lastDelta = Older(@)]]
  /\ tickets' = [t \in Tickets |-> [tickets[t] EXCEPT !.createdEpoch = Older(@)]]
  /\ lastStakeDeltaEpoch' = Older(lastStakeDeltaEpoch)
  /\ lastStakeMoveEpoch' = Older(lastStakeMoveEpoch)
  /\ UNCHANGED <<epoch, paused, stakes, totalValidatorScore, balanceVars, reserveVars,
                 circulatingTicketBalance, circulatingTicketCount,
                 extraStakeDeltaRuns, stakeMoved>>

Tick == CranksDone /\ (AdvancePhase \/ AdvanceEpoch \/ NextEpoch)

(* The chain and everyone else.  A validator stays on the list: without it   *)
(* its stakes cannot be retrieved.                                           *)
Others ==
  /\ Next
  /\ UNCHANGED clockVars
  /\ \A v \in Validators : validators[v].listed => validators'[v].listed

TimelyNext == Tick \/ Others

(* Time goes on, the bot gets round to every account, and the holder of a    *)
(* ticket asks for it again and again.                                       *)
TimelySpec ==
  /\ Init /\ [][TimelyNext]_vars
  /\ WF_vars(Tick)
  /\ \A a \in Accounts : WF_vars(Update(a)) /\ WF_vars(Unstake(a))
  /\ \A t \in Tickets : SF_vars(Claim(t))

(* A validator whose stake was split in this epoch is not split again in it. *)
(* These change what it is to have, or what it has: a score, a stake account *)
(* that comes or goes, or the rent that becomes stake when two are merged.   *)
(* In a calm epoch they keep away from the last slots, once the stake-delta  *)
(* instructions have begun.                                                  *)
StakeDeltaBegun == epoch = lastStakeDeltaEpoch

Unsettling ==
  \/ \E v \in Validators, score \in Scores :
       AddValidator(v, score) \/ SetValidatorScore(v, score)
  \/ \E a \in Accounts, v \in Validators, n \in StakeDeposits, e \in 0 .. MaxEpoch :
       DepositStakeAccount(a, v, n, e)
  \/ \E a \in Accounts, n \in Withdrawals : WithdrawStakeAccount(a, n)
  \/ \E v \in Validators, s \in Accounts :
       native[Canonical[v]].activation = epoch /\ MergeStakes(v, s)

CalmNext ==
  /\ TimelyNext
  /\ StakeDeltaBegun => ~Unsettling

CalmSpec == Init /\ [][CalmNext]_vars

(* The stake list has room for what a split makes.  Once it is full, stake    *)
(* that the tickets need may be impossible to unstake.                       *)
RoomForSplit == \E b \in Accounts : Fresh(b)
-----------------------------------------------------------------------------
DueLamports == [t \in Tickets |-> IF Due(t) THEN tickets[t].lamports ELSE 0]
DueCovered == Total(Tickets, DueLamports) <= reserveBalance

(* claim.rs: a ticket is due when "enough time has passed for the bot to     *)
(* complete the unstake process and transfer the requested SOL to            *)
(* reserve_pda".  Once the extra wait is over all due tickets can be paid,   *)
(* in any order, whatever was staked, ordered or claimed since.  It is what  *)
(* one split for each validator and epoch has to be enough for.              *)
DueTicketsCovered == phase = "settled" => DueCovered

(* The same up to the end of the epoch: a ticket that could be paid can      *)
(* still be paid after the stake-delta instructions.                         *)
DueTicketsStayCovered == phase # "early" => DueCovered

(* Every ticket is paid, however many others are ordered in the meantime,    *)
(* also when the recorded balance, which a claim must not bring below zero,  *)
(* has yet to hear of lamports that stake_reserve has spent.                 *)
TicketsPaid == \A t \in Tickets : tickets[t].lamports # 0 ~> tickets[t].lamports = 0
=============================================================================
