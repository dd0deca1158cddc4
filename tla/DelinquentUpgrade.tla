-------------------------- MODULE DelinquentUpgrade --------------------------
(* The one-time upgrade of an instance made by an earlier version of the     *)
(* program, which did not tell a stake deactivated from outside (because its *)
(* validator was delinquent) from one deactivated by an unstake: when such a *)
(* stake came back its lamports were taken from the delayed-unstake counter  *)
(* and left in the active balances.  The upgrade recounts the active stakes  *)
(* while users and cranks go on: the update cranks visit every stake, then   *)
(* finalize_delinquent_upgrade corrects one validator after the other.       *)
(*                                                                           *)
(* Until it is Done only the instructions modelled here touch these counters *)
(* (the others require is_done); the program is not paused and the staking   *)
(* cap not reached, both of which StakeSystem models.  No amount of mSOL is  *)
(* part of the state.                                                        *)
EXTENDS Amounts

CONSTANTS
  Accounts,        \* addresses of stake accounts
  NumValidators,   \* validator_count: no validator comes or goes before Done
  MinStake,        \* stake_system.min_stake
  Stakes,          \* the stake of an account of the earlier version
  Miscounted,      \* lamports it may have left in a validator's balance
  Deposits, Rewards, Slashes, Tips,   \* inputs
  MaxLamports,     \* bound: lamports in the accounts and the reserve
  LateDelinquency  \* phases in which a counted stake may be deactivated from outside

Validators == 1 .. NumValidators

ASSUME UpgradeAssumption ==
  /\ IsFiniteSet(Accounts) /\ NumValidators \in Nat /\ MinStake \in Nat \ {0}
  /\ Stakes \subseteq Nat /\ Miscounted \subseteq Nat /\ Deposits \subseteq Nat
  /\ Rewards \subseteq Nat /\ Slashes \subseteq Nat /\ Tips \subseteq Nat
  /\ MaxLamports \in Nat

VARIABLES
  stakes,            \* the stake list: a record for each address
  native,            \* the stake program's accounts
  validators,        \* the balances of each validator, by index
  totalActiveBalance,
  delayedUnstakeCoolingDown,
  emergencyCoolingDown,
  reserveBalance,    \* the reserve, which the state records exactly here
  upgrader           \* state.delinquent_upgrader

coolingVars == <<delayedUnstakeCoolingDown, emergencyCoolingDown>>
vars == <<stakes, native, validators, totalActiveBalance, coolingVars,
          reserveBalance, upgrader>>

(* A record of the earlier version has the status Unknown until an update    *)
(* visits it; a stake is deactivated by the program only after Done.         *)
StakeRecord ==
  [delegated : Nat, emergency : BOOLEAN, status : {"None", "Unknown", "Active"}]
NoRecord == [delegated |-> 0, emergency |-> FALSE, status |-> "None"]

(* A stake account: cold when its stake has cooled down.                     *)
NativeStake ==
  [voter : Validators \cup {0}, stake : Nat, extra : Nat,
   state : {"none", "active", "cooling", "cold"}]
NoAccount == [voter |-> 0, stake |-> 0, extra |-> 0, state |-> "none"]

(* recounted is delinquent_upgrader_active_balance.                          *)
ValidatorRecord == [active : Nat, recounted : Nat]

(* DelinquentUpgraderState: delinquent is total_delinquent_balance while it  *)
(* iterates stakes and delinquent_balance_left while it iterates validators. *)
Upgrader ==
  [phase : {"IteratingStakes", "IteratingValidators", "Done"},
   visited : Nat, active : Nat, delinquent : Nat]
IteratingStakes(visited, active, delinquent) ==
  [phase |-> "IteratingStakes", visited |-> visited, active |-> active,
   delinquent |-> delinquent]
IteratingValidators(visited, left) ==
  [phase |-> "IteratingValidators", visited |-> visited, active |-> 0,
   delinquent |-> left]
Done == [phase |-> "Done", visited |-> 0, active |-> 0, delinquent |-> 0]

InStakes == upgrader.phase = "IteratingStakes"
InValidators == upgrader.phase = "IteratingValidators"

Listed(a) == stakes[a].status # "None"
StakeCount == Cardinality({a \in Accounts : Listed(a)})
Recorded == [a \in Accounts |-> stakes[a].delegated]
NativeLamports == [a \in Accounts |-> native[a].stake + native[a].extra]
LamportsHeld == reserveBalance + Total(Accounts, NativeLamports)

TypeOK ==
  /\ stakes \in [Accounts -> StakeRecord]
  /\ native \in [Accounts -> NativeStake]
  /\ validators \in [Validators -> ValidatorRecord]
  /\ totalActiveBalance \in Nat
  /\ delayedUnstakeCoolingDown \in Nat /\ emergencyCoolingDown \in Nat
  /\ reserveBalance \in Nat
  /\ upgrader \in Upgrader
-----------------------------------------------------------------------------
(* The instance the earlier version leaves: every stake account has a record *)
(* of unknown status, the emergency unstakes are told apart, and what was    *)
(* miscounted is missing from the delayed-unstake counter.                   *)
OldStakes ==
  [voter : Validators, stake : Stakes, extra : {0}, state : {"active", "cooling", "cold"}]

OldInstance(emergencies, miscounted) ==
  LET stakeOf(S) == Total(S, [a \in Accounts |-> native[a].stake])
      listed  == {a \in Accounts : native[a] # NoAccount}
      active  == {a \in listed : native[a].state = "active"}
      delayed == listed \ (active \cup emergencies)
  IN
  /\ stakes = [a \in Accounts |->
       IF a \in listed
       THEN [delegated |-> native[a].stake, emergency |-> a \in emergencies,
             status |-> "Unknown"]
       ELSE NoRecord]
  /\ validators = [v \in Validators |->
       [active |-> stakeOf({a \in active : native[a].voter = v}) + miscounted[v],
        recounted |-> 0]]
  /\ totalActiveBalance = stakeOf(active) + Total(Validators, miscounted)
  /\ Total(Validators, miscounted) <= stakeOf(delayed)
  /\ delayedUnstakeCoolingDown = stakeOf(delayed) - Total(Validators, miscounted)
  /\ emergencyCoolingDown = stakeOf(emergencies)

Init ==
  /\ native \in [Accounts -> OldStakes \cup {NoAccount}]
  /\ \E a \in Accounts : native[a] # NoAccount
  /\ \E emergencies \in SUBSET {a \in Accounts : native[a].state \in {"cooling", "cold"}},
        miscounted \in [Validators -> Miscounted] : OldInstance(emergencies, miscounted)
  /\ reserveBalance = 0
  /\ upgrader = IteratingStakes(0, 0, 0)
-----------------------------------------------------------------------------
(* check_delinquent_upgrade_state_progression, at the end of both updates:   *)
(* u is the upgrader they leave.  The instruction fails if all stakes are    *)
(* visited and the recount differs from the balance.                         *)
Progression(u) ==
  LET complete == u.phase = "IteratingStakes" /\ u.visited = StakeCount'
  IN  /\ complete => u.active = totalActiveBalance'
      /\ upgrader' = IF complete THEN IteratingValidators(0, u.delinquent) ELSE u

(* A mutant: a slash or reward is not brought into the recount.              *)
RecountOld(a, new) == stakes[a].delegated

(* What an update of stake a, now new, counts for its validator.             *)
Recount(a, new) == new

(* update_active: the first visit of a stake counts it, a later one follows  *)
(* its rewards and slashes ("keep the numbers in line").                     *)
UpdateActive(a) ==
  LET v     == native[a].voter
      old   == stakes[a].delegated
      new   == native[a].stake
      first == stakes[a].status = "Unknown"
      counted == IF first THEN old ELSE 0
      mine  == validators[v].recounted + counted
      all   == upgrader.active + counted
  IN
  /\ ~InValidators
  /\ Listed(a) /\ native[a].state = "active"
  /\ first => InStakes /\ all <= totalActiveBalance /\ mine <= validators[v].active
  /\ validators[v].active + new >= old /\ totalActiveBalance + new >= old
  /\ InStakes => mine + new >= old /\ all + new >= old
  /\ reserveBalance' = reserveBalance + native[a].extra
  /\ native' = [native EXCEPT ![a].extra = 0]
  /\ stakes' = [stakes EXCEPT ![a].delegated = new, ![a].status = "Active"]
  /\ validators' = [validators EXCEPT
       ![v].active = @ + new - old,
       ![v].recounted = IF InStakes THEN mine + Recount(a, new) - old ELSE @]
  /\ totalActiveBalance' = totalActiveBalance + new - old
  /\ Progression(IF InStakes
                 THEN IteratingStakes(upgrader.visited + (IF first THEN 1 ELSE 0),
                                      all + Recount(a, new) - old, upgrader.delinquent)
                 ELSE upgrader)
  /\ UNCHANGED coolingVars

(* What a cooled-down stake of n lamports takes off its counter: while the   *)
(* stakes are iterated no more than is there, the rest being delinquent.     *)
(* The mutant takes it all.                                                  *)
TakenAll(counter, n) == n
Taken(counter, n) == IF InStakes THEN MinOf(counter, n) ELSE n

(* A mutant: the delinquent lamports stay in the active balance.             *)
TotalActiveLess(n, delinquent) == totalActiveBalance - n

(* "keeping the mSOL price invariant"                                        *)
TotalActiveAfter(n, delinquent) == totalActiveBalance - n - delinquent

(* update_deactivated: a stake counted as active was deactivated from        *)
(* outside and is an emergency unstake first; then all lamports of the       *)
(* account go to the reserve and the record is removed.                      *)
UpdateDeactivated(a) ==
  LET v     == native[a].voter
      rec   == stakes[a]
      n     == rec.delegated
      found == IF rec.status = "Active" THEN n ELSE 0
      emergency  == rec.emergency \/ rec.status = "Active"
      counter    == IF emergency THEN emergencyCoolingDown + found
                                 ELSE delayedUnstakeCoolingDown
      taken      == Taken(counter, n)
      delinquent == n - taken
  IN
  /\ Listed(a) /\ native[a].state = "cold"
  /\ rec.status = "Active" => ~rec.emergency
  /\ validators[v].active >= found
  /\ ~InStakes => n <= counter
  /\ TotalActiveAfter(found, delinquent) >= 0
  /\ validators' = [validators EXCEPT ![v].active = @ - found]
  /\ totalActiveBalance' = TotalActiveAfter(found, delinquent)
  /\ IF emergency
     THEN /\ emergencyCoolingDown' = counter - taken
          /\ UNCHANGED delayedUnstakeCoolingDown
     ELSE /\ delayedUnstakeCoolingDown' = counter - taken
          /\ UNCHANGED emergencyCoolingDown
  /\ reserveBalance' = reserveBalance + native[a].stake + native[a].extra
  /\ stakes' = [stakes EXCEPT ![a] = NoRecord]
  /\ native' = [native EXCEPT ![a] = NoAccount]
  /\ Progression(IF InStakes THEN [upgrader EXCEPT !.delinquent = @ + delinquent]
                 ELSE upgrader)

(* Mutants: a deposited stake is not counted as visited; the validators      *)
(* already finalized are not told apart.                                     *)
RecountDepositUncounted(v, n) ==
  IF InStakes THEN [upgrader EXCEPT !.active = @ + n] ELSE upgrader
OpenToEveryDeposit(v) == upgrader.phase # "Done"

(* Whether the recount of validator v is still open, and a deposit of n      *)
(* lamports is part of it ("It will be added as processed already").         *)
Open(v) == InStakes \/ (InValidators /\ v > upgrader.visited)
RecountDeposit(v, n) ==
  IF InStakes THEN [upgrader EXCEPT !.visited = @ + 1, !.active = @ + n] ELSE upgrader

DepositStakeAccount(a, v, n) ==
  /\ ~Listed(a) /\ n >= MinStake
  /\ LamportsHeld + n <= MaxLamports
  /\ stakes' = [stakes EXCEPT ![a] =
       [delegated |-> n, emergency |-> FALSE, status |-> "Active"]]
  /\ native' = [native EXCEPT ![a] =
       [voter |-> v, stake |-> n, extra |-> 0, state |-> "active"]]
  /\ validators' = [validators EXCEPT
       ![v].active = @ + n, ![v].recounted = IF Open(v) THEN @ + n ELSE @]
  /\ totalActiveBalance' = totalActiveBalance + n
  /\ upgrader' = RecountDeposit(v, n)
  /\ UNCHANGED <<coolingVars, reserveBalance>>

(* A mutant: the balance of a finalized validator is not replaced.           *)
FinalizedKeepingActive(rec) == [active |-> rec.active, recounted |-> 0]
Finalized(rec) == [active |-> rec.recounted, recounted |-> 0]

(* What the first k validators, but those visited before, have too much.     *)
Excess(k) ==
  Total(upgrader.visited + 1 .. k,
        [v \in Validators |-> validators[v].active - validators[v].recounted])

(* finalize_delinquent_upgrade visits up to max validators; the unsigned     *)
(* subtractions, and what is left after the last one, decide if it fails.    *)
FinalizeDelinquentUpgrade(max) ==
  LET last == MinOf(upgrader.visited + max, NumValidators)
      left == upgrader.delinquent - Excess(last)
  IN
  /\ InValidators
  /\ \A v \in upgrader.visited + 1 .. last : validators[v].active >= validators[v].recounted
  /\ left >= 0
  /\ last = NumValidators => left = 0
  /\ validators' = [v \in Validators |->
       IF v \in upgrader.visited + 1 .. last THEN Finalized(validators[v])
                                             ELSE validators[v]]
  /\ upgrader' = IF last = NumValidators THEN Done ELSE IteratingValidators(last, left)
  /\ UNCHANGED <<stakes, native, totalActiveBalance, coolingVars, reserveBalance>>
-----------------------------------------------------------------------------
(* The chain around the program. *)

programVars == <<stakes, validators, totalActiveBalance, coolingVars, reserveBalance, upgrader>>

Reward(a, n) ==
  /\ native[a].state = "active"
  /\ LamportsHeld + n <= MaxLamports
  /\ native' = [native EXCEPT ![a].stake = @ + n]
  /\ UNCHANGED programVars

Slash(a, n) ==
  /\ n <= native[a].stake
  /\ native' = [native EXCEPT ![a].stake = @ - n]
  /\ UNCHANGED programVars

Tip(a, n) ==
  /\ Listed(a)
  /\ LamportsHeld + n <= MaxLamports
  /\ native' = [native EXCEPT ![a].extra = @ + n]
  /\ UNCHANGED programVars

(* A stake cools down. *)
Cool(a) ==
  /\ native[a].state = "cooling"
  /\ native' = [native EXCEPT ![a].state = "cold"]
  /\ UNCHANGED programVars

(* Anyone deactivates the stake of a delinquent validator.                   *)
DeactivateDelinquent(a) ==
  /\ native[a].state = "active"
  /\ stakes[a].status = "Active" => upgrader.phase \in LateDelinquency
  /\ native' = [native EXCEPT ![a].state = "cooling"]
  /\ UNCHANGED programVars
-----------------------------------------------------------------------------
UserStep == \E a \in Accounts, v \in Validators, n \in Deposits : DepositStakeAccount(a, v, n)

CrankStep ==
  \/ \E a \in Accounts : UpdateActive(a) \/ UpdateDeactivated(a)
  \/ \E max \in 0 .. NumValidators : FinalizeDelinquentUpgrade(max)

ChainStep == \E a \in Accounts :
  \/ \E n \in Rewards : Reward(a, n)
  \/ \E n \in Slashes : Slash(a, n)
  \/ \E n \in Tips : Tip(a, n)
  \/ Cool(a)
  \/ DeactivateDelinquent(a)

Next == UserStep \/ CrankStep \/ ChainStep

(* The bot updates every stake in every epoch and finalizes; stakes that     *)
(* were deactivated do cool down.                                            *)
Fairness ==
  /\ \A a \in Accounts : /\ WF_vars(UpdateActive(a))
                         /\ WF_vars(UpdateDeactivated(a))
                         /\ WF_vars(Cool(a))
  /\ WF_vars(FinalizeDelinquentUpgrade(1))

Spec == Init /\ [][Next]_vars
FairSpec == Spec /\ Fairness
-----------------------------------------------------------------------------
Counted(a) == stakes[a].status = "Active"
CountedStake(v) == [a \in Accounts |->
  IF Counted(a) /\ native[a].voter = v THEN stakes[a].delegated ELSE 0]
Active == [v \in Validators |-> validators[v].active]

(* While the stakes are iterated the recount is that of the visited records, *)
(* whatever was deposited, rewarded, slashed or removed in between, and what *)
(* the validators have above the total is the delinquent stake found so far. *)
StakeNumbersInLine ==
  InStakes =>
    /\ upgrader.visited = Cardinality({a \in Accounts : Counted(a)})
    /\ \A v \in Validators : validators[v].recounted = Total(Accounts, CountedStake(v))
    /\ upgrader.active = Total(Validators, [v \in Validators |-> validators[v].recounted])
    /\ Total(Validators, Active) = totalActiveBalance + upgrader.delinquent

(* While the validators are iterated those behind are exact (and "the field  *)
(* is already zeroed"), and what those ahead have above their recount is     *)
(* what is left to subtract: no call of finalize_delinquent_upgrade fails.   *)
ValidatorNumbersInLine ==
  InValidators =>
    /\ \A v \in Validators :
         IF v <= upgrader.visited
         THEN /\ validators[v].active = Total(Accounts, CountedStake(v))
              /\ validators[v].recounted = 0
         ELSE /\ validators[v].recounted = Total(Accounts, CountedStake(v))
              /\ validators[v].active >= validators[v].recounted
    /\ upgrader.delinquent = Excess(NumValidators)

(* Once Done the balances are those the rest of the program relies on        *)
(* (StakeSystem's ActiveBalancesAddUp and CoolingBalancesAddUp): nothing of  *)
(* the old miscount or of the recount is left, and no record unknown.        *)
ExactWhenDone ==
  upgrader.phase = "Done" =>
    /\ \A a \in Accounts : stakes[a].status # "Unknown"
    /\ \A v \in Validators : /\ validators[v].active = Total(Accounts, CountedStake(v))
                             /\ validators[v].recounted = 0
    /\ totalActiveBalance = Total(Validators, Active)
    /\ delayedUnstakeCoolingDown = 0 /\ emergencyCoolingDown = 0

(* The total behind the mSOL price never hears of the upgrade: it is what    *)
(* the records and the reserve hold before, in and after it ("keeping the    *)
(* mSOL price invariant").                                                   *)
PriceInvariant ==
  totalActiveBalance + delayedUnstakeCoolingDown + emergencyCoolingDown
    = Total(Accounts, Recorded)

(* The upgrade ends, though deposits, rewards and deactivations interleave.  *)
UpgradeFinishes == <>(upgrader.phase = "Done")
=============================================================================
