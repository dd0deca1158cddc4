# Liquid staking program: TLA+ models, model checking and proofs

This directory models the Marinade liquid-staking program of this repository
(`src/programs/marinade-finance`, an Anchor program for Solana). Users give the program SOL
(or a stake account) and receive mSOL; the program delegates the SOL to many validators, in
proportion to scores set by a manager, collects rewards and pays users who leave. Its
state is a set of counters that mirror, lamport by lamport, what is in a reserve account, in
hundreds of stake accounts and in users' tickets. Every instruction changes some of these
and of those accounts at once; anybody may call most instructions, in any order, while the
chain pays rewards, slashes and deactivates stakes on its own. That the counters
still tell the truth after any interleaving, and that what users are owed is still there,
is what this project is about.

`P` below stands for `src/programs/marinade-finance/src`.

## Inventory

| Component | State | Operations | Correct when |
| --- | --- | --- | --- |
| state account (`P/state/mod.rs`) | reserve record, emergency cooling down, ticket totals, mSOL supply, cap of moved stake, parameters | `stake_delta`, `total_lamports_under_control`, `on_transfer_*`, `on_stake_moved` | counters equal what they mirror; never pays or stakes what is owed to others |
| stake list (`P/state/stake_system.rs`) | a record per stake account (amount of the last update, status, emergency flag), lamports cooling down, extra runs | `add`, `get_checked`, `set`, `remove` | records agree with the native accounts; every stake can come back |
| validator list (`P/state/validator_system.rs`) | a record per vote account (active balance, score, last delta epoch), totals | add, remove, set score, stake target | totals are sums; targets reached without overshoot |
| record storage (`P/state/list.rs`) | packed records, count, capacity | `push`, `get`, `set`, `remove` (swap with last), reallocation | no record lost or read under another's index |
| deposits (`P/instructions/user/deposit*.rs`) | none of its own | SOL or stake account for mSOL, under a cap | mints what was paid for |
| stake withdrawal (`.../withdraw_stake_account.rs`) | none | burns mSOL, splits a stake off for the user | never takes what tickets need |
| tickets (`P/instructions/delayed_unstake`) | ticket accounts (lamports, epoch) | order, claim | ticket totals are sums; a due ticket can be paid |
| stake-delta crank (`stake_reserve.rs`, `deactivate_stake.rs`) | last delta epochs, extra runs | stake the reserve; deactivate stake for tickets | bounded overshoot; staking never spends what tickets wait for |
| update crank (`update.rs`) | the records' amounts | rewards, slashing, retrieval of cooled-down stakes | counters follow the chain |
| canonical stakes (`create_canonical_stake.rs`, `merge_stakes.rs`) | the list | one stake account per validator | value is moved, not made |
| delinquent upgrade (`delinquent_upgrader.rs`, `finalize_delinquent_upgrade.rs`) | the upgrade's phase and running sums | one-time migration interleaved with updates | it terminates with exact balances |
| emergency management (`emergency_unstake.rs`, `partial_unstake.rs`) | emergency cooling down, moved stake | manager takes stake from validators | metered, bounded by the target |
| pause (`emergency_pause.rs`) | `paused` | pause, resume | nothing moves while paused |
| liquidity pool (`P/state/liq_pool.rs`, `P/instructions/liq_pool`) | SOL and mSOL legs, LP supply, fees | add, remove, swap mSOL for SOL | LP share value never falls by others' steps |
| share arithmetic and fees (`P/calc.rs`, `P/state/fee.rs`) | none | proportional amounts, fees | rounding never favours the caller |
| configuration, authorities (`P/instructions/admin`) | parameters | initialize, change | parameters stay within their limits |
| account checks, entry points, events, errors, fuzz harness, scripts | none | validation, dispatch, logging | not modelled as state |

Interaction is by shared state only: a transaction runs one instruction at a time to the
end or to an error that undoes all of it. What is concurrent is *who comes next*: a user, the
crank bot, the manager, the pause authority or the chain itself. The chain acts without the
program: it pays rewards and MEV tips, slashes, deactivates stakes of delinquent validators,
and anyone may transfer lamports to any account. The program sees this only when the update
crank looks at a stake account.

Hard behaviours, each listed with its source line and its properties under `hazards` in
`PROJECT.json`: records that are stale against the chain; counters whose increment and
decrement are epochs apart and in different instructions; a reserve with a real and a
recorded balance; rounding against minimum amounts in repeated instructions; limits per epoch
that reset; removal of a validator around its own stakes; a pause at any moment; upgrades in
several transactions.

## Plan

All modules of the plan are written, and every safety property that a passing run checks is named
by a theorem.

1. `Amounts`, `StakeSystem`, `Vault`, `MCStakeSystem`, `AmountsTheorems`,
   `StakeSystemProofs`: the core of the program, its abstract
   specification, and theorems: types, and every counter is the sum it mirrors. Done.
2. `DelinquentUpgrade`: the one-time upgrade, and that it ends. Done.
3. `Calc`, `MsolPrice`, `LiqPool`: what mSOL and LP tokens are worth. Done.
4. `RecordStore`, `RecordList`, `RecordListProofs`: the packed list, its abstract
   specification, and the refinement as a theorem. Done.
5. `DelayedUnstake`: tickets over epochs without end, and that they are paid. Done.
6. `Admin`: parameters, their limits and the authorities. Done.
7. `StakeSystemVault`, `DelinquentUpgradeProofs`, `PriceProofs`, `AdminProofs`: the core is a vault,
   the bounds of the cranks, the pause and the meter; the upgrade's running sums; prices and the
   pool for all amounts; the parameters. Done.
8. `DelayedUnstakeProofs`: what is due can be paid when the bot is done in time, and the hypotheses
   that this needs. Done.
9. Still open: a hypothesis weaker than calm last slots for several validators, for instance
   with stake accounts deposited for a validator that was not split yet.

## Modules

* `Amounts`: saturating subtraction, the minimum and the total of a function over a finite
  set (the number of its individual lamports, so that neither a recursive definition nor an
  induction is needed). `AmountsTheorems` proves how a total follows
  changes of one or two values, that it bounds each value, how totals of parts add up (`TotalByKey`), and what is lost by
  rounding a share down.
* `StakeSystem`: the staking core. One action per instruction; `Next` groups them by who
  calls them. It also holds the properties. Operators named as mutants stand next to the
  definition they vary and take no part in the specification; they are what the
  properties are tested against, in this and in all other modules.
* `Vault`: what the core promises, abstractly: three numbers (lamports held, lamports on the
  books, lamports owed) and four moves (earn, promise, pay, release). Both `StakeSystem` and
  `MsolPrice` implement it.
* `DelayedUnstake`: extends `StakeSystem`. The clock waits for the bot (`CranksDone`),
  validators stay listed, and after `MaxEpoch` everything recorded gets an epoch older instead
  (`NextEpoch`), so that epochs never end while the states stay finite. `UpdateDue` and `UnstakeDue`
  are the guards of the cranks, so that the theorems can use what `CranksDone` says.
  `CalmSpec` keeps scores, and stakes that come or go, away from the last slots once the
  stake-delta instructions have begun (`Unsettling`).
* `DelinquentUpgrade`: the upgrade of an instance made by an earlier version of the program, over
  a smaller state than the core's: only the instructions that run before `Done`.
* `Calc`: the arithmetic of `calc.rs` and `fee.rs`, rounded down as there; `MaxBasisPoints` and
  `MaxBpCents` are the two wholes of which a fee is a part.
* `MsolPrice`: the mSOL side of every instruction that mints or burns mSOL, over two sums of the
  core: lamports under control and lamports promised by tickets.
* `LiqPool`: extends `MsolPrice` with the two legs of the liquidity pool and its LP tokens.
* `RecordList`: the packed list of `state/list.rs` under the instructions that use it, with any index
  a caller may pass. `RecordStore` is what it promises: records found by address and room for so many.
  `StakeSystem` takes its lists to be such stores; `RecordListProofs` proves that they are.
* `Admin`: the configuration and the authorities.
* `MC...`: addresses, request sets and symmetry for TLC.
* `AmountsTheorems`, `StakeSystemProofs`, `StakeSystemVault`, `DelayedUnstakeProofs`,
  `RecordListProofs`, `DelinquentUpgradeProofs`, `PriceProofs` (of `MsolPrice` and `LiqPool`),
  `AdminProofs`: theorems.

How the modules fit together: `StakeSystem` leaves out mSOL and takes any lamport amount for an
order that is not above the virtual stake; `MsolPrice` shows that no amount of mSOL is worth more
(`ImplementsVault`). `MsolPrice` leaves out which account the lamports are in; that is
`StakeSystem`. `StakeSystem` starts with a finished upgrade; `DelinquentUpgrade` shows
that it finishes, and with exact balances (`ExactWhenDone`). The parameters are constants
everywhere but in `Admin`.

### State of `StakeSystem` and where it is in the code

| Variable | Code |
| --- | --- |
| `epoch`, `phase` | `Clock`: the epoch, and its three parts the code tells apart: before the extra wait of `claim.rs` is over, after it, and the last slots in which stake-delta instructions run |
| `stakes` | `StakeRecord`s of the stake list, by address; `Unknown` for an address that is not listed |
| `native` | the accounts of the stake program: voter, delegated stake, lamports above it and the rent, activation and deactivation epochs |
| `validators` | `ValidatorRecord`s by vote account; `listed` is the existence of the record and of its duplication flag |
| `totalValidatorScore`, `totalActiveBalance` | `validator_system.total_validator_score`, `.total_active_balance` |
| `delayedUnstakeCoolingDown`, `emergencyCoolingDown` | `stake_system.delayed_unstake_cooling_down`, `state.emergency_cooling_down` |
| `reserveBalance`, `availableReserveBalance` | lamports of the reserve PDA above its rent, and `state.available_reserve_balance` |
| `tickets`, `circulatingTicketBalance`, `circulatingTicketCount` | `TicketAccountData` accounts and their totals in the state |
| `lastStakeDeltaEpoch`, `extraStakeDeltaRuns` | the fields of `stake_system` |
| `lastStakeMoveEpoch`, `stakeMoved` | the fields of the state that `on_stake_moved` uses |
| `paused` | `state.paused` |

What is an error in the code is a guard: `require!` and its variants, the early
errors, and the underflow of an unsigned subtraction (the program is built with overflow
checks, so an underflow aborts the transaction). An early `return Ok(())` that leaves the
state alone is a stuttering step and has no action; one that has changed the state before
(an extra run used by `StakeReserve` that then stakes nothing) is an action of its own,
`StakeReserveNothing`. A CPI to the stake program is part of the action with what it
requires and does (`DeactivateWhole`, `DeactivateSplit`, `MergeStakes`, `CooledDown`). What
only the chain does is in `ChainStep` and is marked external in the map.

Abstractions. A list is a function from addresses: the index an instruction receives is a hint
which `get_checked` compares with the account, so a wrong one is an error (`RecordList` has the
indexes); the number of addresses stands for the capacity. Amounts of mSOL are left out, as said above. Rents are
left out except where a merge turns one into stake. Warm-up and cool-down of stake take one epoch. The
instance is one made by `Initialize`, where the delinquent upgrader is `Done`; `min_stake`,
`min_withdraw`, the cap and the limit of moved stake are constants of an instance.

### State of the other modules

| Module | Variable | Code |
| --- | --- | --- |
| `DelinquentUpgrade` | `stakes`, `native` | stake records with the status `Unknown` of the earlier version, and stake accounts, whose cool-down is a step of the chain |
| | `validators` | `active_balance` and `delinquent_upgrader_active_balance` |
| | `upgrader` | `state.delinquent_upgrader` |
| `MsolPrice` | `controlled`, `circulating` | `total_lamports_under_control()`, `circulating_ticket_balance` |
| | `msolSupply`, `mintSupply` | `state.msol_supply`, and the supply of the mint it is read from |
| `LiqPool` | `solLeg`, `msolLeg` | lamports of the SOL leg above the rent, tokens of the mSOL leg |
| | `lpSupply`, `lpMint` | `liq_pool.lp_supply`, and the supply of the LP mint |
| `RecordList` | `slots`, `count` | the account's data after the discriminator, `list.count` |
| | `flagged` | a validator's duplication flag; a stake account's authority |
| `Admin` | `config`, `pool`, `authority`, `paused` | the fields `config_marinade`, `config_lp`, `change_authority` and the pause set |

## Runs

Amounts are few and small: the minimum stake is 1 lamport, so that splits, whole deactivations,
roundings, targets and a reserve too small for a ticket all occur with 3 to 6 lamports. The inputs
(`Deposits`, `Orders`, `Scores`, ...) are the sets TLC draws amounts from. `MaxEpoch`, `MaxLamports`
and what a module marks as "bound" are the only bounds on the behaviours. Deadlock
is checked except in the runs of `DelinquentUpgrade`, where an upgrade that is done and has no
lamports left to bring in may stop. Addresses that are not canonical are
interchangeable, and so are tickets; no symmetry is used in a run that checks liveness.

* `accounting`: one validator, three stake addresses, two epochs; slashing, donations to the reserve,
  delinquency and partial unstakes, of a part or of the whole stake. `ActiveBalancesAddUp`, `CoolingBalancesAddUp`,
  `TicketsAddUp` and `ReserveBacked` hold, with `TypeOK` and `StatusAgreesWithNative`: whatever
  is done to the accounts from outside, and in whatever order the instructions see it, counters
  and records change together. Two epochs are enough for a stake to be created, deactivated in
  each way, retrieved and its address used again.
* `targets`: two validators with changing scores within one epoch (the limits of an epoch are the
  point), five lamports of deposit and an allowance of 80 % of moved stake. `OverUnstakeBounded`,
  `OverStakeBounded` and `PartialUnstakeBounded` bound what rounding up to whole accounts may add,
  over any number of repeated instructions; `MovesAreMetered` ties the meter to the accounts
  that were really deactivated, over several moves of one epoch; `ScoresAddUp` holds over removal and re-adding.
* `vault`: two tickets, rewards, tips, donations, delinquency, stake accounts deposited and withdrawn
  by users, and a pause at any moment, but no slashing. `ImplementsVault` is the refinement: every
  crank and manager instruction is a stuttering step of the vault or lets the books catch
  up. `Solvent` and `BooksBacked` are its consequences, and `OnlyOrdersUncover` says that what
  covers the tickets (the reserve and the stakes cooling down for them) is never staked,
  restaked or lost. `FrozenWhilePaused`: while paused only the clock, the chain and
  `ConfigValidatorSystem` (which has no check of `paused`) go on. Two epochs let a ticket be ordered,
  its stake deactivated, retrieved and the ticket claimed, with a second one in any phase of the first.
* `tickets`: one validator, two tickets, donations, and epochs without end. `DueTicketsCovered`: when the extra wait of
  `claim.rs` is over, the reserve holds all tickets that are due, so all of them can be claimed in any
  order. `TicketsPaid`: every ticket is paid in the end. The second needs more than the first: a
  donation staked before an update has heard of it makes a claim abort on the recorded balance
  (`claim.rs:137`) until the next update.
* `tickets_stay`: expected to be violated. The same is not true until the end of the epoch:
  `stake_delta` counts stake that is still cooling down, so after `deactivate_stake` has rounded a later ticket
  up to a whole account, `stake_reserve` stakes lamports that a due ticket, not claimed yet, could have been
  paid with; it waits for the next epoch. `claim.rs:47-49` says that a ticket is due once
  the bot has had the time to transfer its SOL to the reserve.
* `upgrade`: two validators and two stake accounts from any miscounted instance, with deposits, rewards,
  slashes, tips and stakes deactivated from outside between any two transactions.
  `StakeNumbersInLine` and `ValidatorNumbersInLine` are what the two loops rely on ("keep the numbers
  in line", `update.rs:505`); `ExactWhenDone` is what the core relies on; `PriceInvariant` says
  that the total behind the price never changes by it; `UpgradeFinishes` that it ends. Two of each
  let a stake be visited, unvisited or deposited, and a validator be behind or ahead, at every step.
* `upgrade_recount`: expected to be violated. `upgrade` leaves out one input: a stake that was already
  counted is deactivated from outside before the upgrade is done (`LateDelinquency`). Then
  `update_deactivated` removes it from the balances but not from the recount, and the upgrade cannot
  advance. With the phase `IteratingValidators` in its place the same happens to
  `ValidatorNumbersInLine`, and `finalize_delinquent_upgrade` underflows.
* `price`: every mint and burn of mSOL, without slashing, with the mSOL leg of the pool any size. Fees are
  20 % and more so that a dozen lamports meet every rounding; `MaxU64` is the 64-bit
  limit, and reached. `PriceNeverFalls`: only a stake withdrawn may lower the price, and by less
  than one unit of mSOL (`RoundingBounded`); `MintNeverGains`: what is minted is worth no more than what was paid.
  They compare two prices, so both must exist and be of the same mSOL (`Priced`): when all mSOL was
  burned by its holders, the next update mints its fee one to one and the price starts anew. Rewards
  of 6 make such a fee large enough to be seen.
  `ImplementsVault`: all holders and all tickets can leave at once.
* `pool`: the pool beside the core, with slashing. `LpPriceKept`, `SwapsNeverLose` and
  `FeeCoversDepth` relate the two legs, the LP supply and the fee; they hold while tokens are burned or given
  from outside and the price of mSOL moves. `PriceNeverFalls` is checked here again: after
  slashing, with tickets above what is left and a virtual total of zero, other steps still do
  not lower the price. `MaxU64 = 5` bounds the SOL leg too.
* `records`: four addresses, room for three, every index. `ImplementsStore` is the refinement; `ListedOnce` the
  agreement of flags and records. `LamportsKept`: a split, a merge and a new canonical stake write two records
  each, in an order that matters, and what is found by address afterwards is in all what was there
  before. A merge adds the rent of the source if both stakes are still activating (`merge_stakes.rs:194`); it
  then appears in the records exactly once, as it does in the active balances. Which merges those are is
  decided by the stake accounts, that is in `StakeSystem`; here a merge may do either.
* `admin`: a SOL is 100 lamports; each parameter is asked for within, at and beyond its limit.
  `UsersCanLeave` and `SwapFeeBounded` say what the separate limits amount to
  for a user, in every reachable configuration.
* `retrieval`: expected to be violated. `src/Docs/Backend-Design.md:294` says that any user can call
  the update cranks, "so users are not dependent on us to keep the contract moving". TLC finds
  a validator that is removed while a stake still cools down: its active balance is zero, so
  `RemoveValidator` accepts, but `update_deactivated` looks the native voter up in the
  list and fails until the manager adds the validator again.

Three more configurations are not among the runs of `PROJECT.json`. They run in less than a minute; the first
is of `MCStakeSystem`, the other two, of `MCDelayedUnstakeTwo`, are the instances that belong to the theorems of
`DelayedUnstakeProofs`:

* `MC_moves.cfg`: `targets` has one epoch, so this instance checks `MovesAreMetered` over two, with partial and
  emergency unstakes of both validators in either: the meter is reset by the first move of an epoch (`mod.rs:293`)
  and adds up the others. For all constants this is `EveryMoveMetered`.
* `MC_tickets_calm.cfg`: two validators with equal scores, so that both must be unstaked from, calm last
  slots (`CalmSpec`) and six stake addresses; a user may withdraw one of the stakes. `DueTicketsCovered`
  holds. With one address less it does not: the stake list fills up, and then `deactivate_stake`
  cannot split although it should.
* `MC_tickets_rescored.cfg`: the same two validators when their scores may change at any time (`TimelySpec`).
  `DueTicketsCovered` is violated. After one validator was split, the manager raises the other's score: the first
  now has stake to spare, but "only one unstake per validator is allowed" (`deactivate_stake.rs:214`), the
  second is at its target, and part of the ticket that is due in the next epoch is neither in the reserve
  nor cooling down: it waits for the deactivations of the next epoch.

Slashing is excluded from `vault`, `price`, `targets` and the runs of tickets because the promise is really void
with it: `state/mod.rs:230` says that after slashing the virtual total may be negative.

### Fairness

Safety runs assume none. `TimelySpec` of `DelayedUnstake` and `FairSpec` of `DelinquentUpgrade` assume the
bot of `src/Docs/Backend-Design.md:262-291`, which updates every stake account in every epoch, unstakes
in the last slots of it and, for the upgrade, calls `finalize_delinquent_upgrade`:

* `WF` of each account's update and of each account's `deactivate_stake`: an instruction that stays possible
  is executed. `stake_reserve`, merges, and all that users and the manager do have no fairness.
* In `TimelySpec` the clock has `WF` and moves on only when nothing is left for the bot to do (`CranksDone`):
  early in an epoch no stake has cooled down and no record is behind the chain; in the last slots no
  account of a validator above its target may be deactivated, as a whole or by a split. This is the assumption behind `EXTRA_WAIT_SECONDS` of
  `claim.rs` (time for the bot after the epoch's end) and behind the documented schedule; with a bot
  that sleeps an epoch a ticket may be paid later, which `accounting` and `vault` cover for safety.
* `SF` of `Claim`: the holder of a ticket asks again and again, and the reserve may be short in between.
* A cooling stake cools down (`WF` of `Cool`), which is the chain's doing.

`NextEpoch` is sound because the code only asks whether an epoch it recorded is the current one, the one
before or the next; `MaxEpoch` must be at least 2 (`EpochsAssumption`).

## Proofs

`StakeSystemProofs` proves, for any finite sets of accounts, validators and tickets and any
amounts (the assumptions `SetsAssumption` and `AmountsAssumption` of `StakeSystem`):

* `TypeCorrect`: `Spec => []TypeOK`. The amounts being natural numbers, this says that no
  subtraction of an action goes below zero.
* `StatusCorrect`: `Spec => []StatusAgreesWithNative`.

Neither formula is inductive alone. That a split-off stake has a natural amount needs that a
record exists for a native account with a voter, and that record and account agree needs
their types; so the inductive invariant is their conjunction, `TypeInv`. There is one lemma
per action (`DepositType`, `ClaimType`, ...), and `TypeInvInvariant` combines them.

It also proves, under the same assumptions, that counters and records cannot drift
apart, however users, cranks, the manager and the chain interleave:

* `ActiveBalancesCorrect`, `CoolingBalancesCorrect`: the active balances and the two
  cooling-down counters are the sums over the records that belong to them.
* `ScoresCorrect`, `TicketsCorrect`: the total score and the ticket totals.
* `ReserveCorrect`: the recorded reserve balance is backed by the real one.

The inductive invariant is `SumsInv`, the conjunction of these with `TypeInv`. The argument
for the balances is one of locality: an instruction touches one stake account, or two of the
same validator. `OneRecord` and `TwoRecords` state once what the counters must do then: move
by as much as the parts (`ActivePart`, `DelayedPart`, `EmergencyPart`) of those accounts. One
lemma per instruction (`StakeReserveSums`, `MergeStakesSums`, ...) shows that it moves
them so. `TypeInv` is needed because the account's voter decides whose balance moves.
`AmountsTheorems` proves how a total answers to a change of one weight or of two
(`TotalChange`, `TotalChangeTwo`), from the library's theorems on the cardinality of finite sets.

`RecordListProofs` proves, for any addresses, balances and size of the account
(`ListAssumption` of `RecordList`):

* `ListTypeCorrect` and `ListedOnceAlways`, from the inductive invariant `IInv`, their conjunction: a removal
  keeps the flags right only if no address has two records, and that needs the types.
* `ListImplementsStore`: the refinement of `RecordStore`. The records by address are given by a
  `CHOOSE` over the slots; `Listing` states what a packed list is for a set of addresses, and one lemma
  each for `Pushed`, `Put` and `Without` says what becomes of a listing and of its records by address. A
  `Split`, `Merge` or `CreateCanonical` is then two of these in a row, with every case of which
  slot is the last one behind the lemma for `Without`.

`LamportsAlwaysKept` follows from these: two records change, by a `Split` or `Move` of the store so that their
sum stays and by a `Merge` so that it grows by the extra lamports of that merge, and `TotalChangeTwo` carries this
over to the total of all records (`KeptByTwo`).

`StakeSystemVault` proves what the instructions of the core do to the lamports.

* Under `NoSlashing` (no amount to slash by; the run `vault` is an instance):
  `StakingImplementsVault`, `BooksAreBacked`, `AlwaysSolvent` and `CoverOnlyOrdered`. The inductive
  invariant `VaultInv` adds to `SumsInv` that every single record is backed by its account
  (`RecordsBacked`) and that tickets never exceed the books. With the sums it gives
  `BooksBacked`: the totals are those of the records (`RecordsAddUp`, by `TotalByKey`: the stakes sorted by
  validator), the records are covered by the accounts. `Keeps` is what nearly every
  instruction does (held, booked and cover do not fall, nothing new is owed), one lemma each;
  `OrderUnstake`, `Claim` and `WithdrawStakeAccount` are what the vault calls promise, pay
  and release. Slashing must be excluded: with it a record says more than its account holds
  until the next update, and `state/mod.rs:230` knows that less than the tickets may be left.
* Without that hypothesis: `NoOverUnstake`, `NoOverStake`, `NoOverMove`, `FrozenUntilResumed` and
  `EveryMoveMetered`. The first three follow from the types (`TypeInv`) and from the inequalities
  of each crank; the last has an invariant of its own, `MeteredInv`, since the stake moved in this epoch
  is found in the accounts by their deactivation epoch.

`DelayedUnstakeProofs` proves that what is due can be paid, for any finite sets of accounts, validators and
tickets and any amounts, epochs and scores:

* `DueTicketsAreCovered`: `CalmSpec /\ []RoomForSplit => []DueTicketsCovered`, for several validators.
* `SoleValidatorCovers`: with one validator `TimelySpec` and room in the list are enough, for whatever scores
  are set and whatever stakes come or go.

Both assume no slashing (see above), `NoPause`, since a paused bot cannot work, and that the stake list never
is full (`RoomForSplit`), which a bot can see to by merging stakes and the program's owner by reallocating the list. A ticket is covered in three ways
in turn, and each is kept by all steps in its part of an epoch and leads to the next when `CranksDone`
lets the clock go on. In the last slots, either the reserve and what cools down cover
all that is owed, or every validator that was split already is at its target (`DeltaCovers`). If the
bot is done then, no validator has live stake above its share of what is left when all tickets
are paid (`DoneAtTarget`); the shares add up to no more than that (`TargetsFit`), so what is deactivated is
enough (`CoverPasses`). Early in the next epoch what was deactivated is retrieved (`EarlyCovered`),
and after that the reserve alone covers the tickets (`ReserveCovers`). The tickets themselves stand still: an order
is dated a later epoch as soon as a stake-delta instruction has run (`OwedTo`, `NextOwed`).
The inductive invariant is `TimelyInv` (the vault's invariant, records up to date outside the
early part, and the last two ways of cover) with `DeltaCovers`. The calm last slots are needed for
`DeltaCovers` alone: a higher score, or a stake that goes, moves the target of a validator after its only
split (`CalmStep` says which steps do not); `MC_tickets_rescored.cfg` has the counterexample without them. With
one validator `SoleCovers` takes the place of `DeltaCovers`: the one split takes all that is missing, since
the validator's target is all that is left (`SoleTarget`).

`DelinquentUpgradeProofs` proves for any number of validators and stakes, and any miscount to start from:

* `UpgradeTypeOK` and `UpgradeKeepsPrice`, from the inductive invariant `PriceInv`.
* Under `NoLateDelinquency`: `StakesInLine`, `ValidatorsInLine` and `UpgradeIsExact`. The inductive
  invariant `UpgradeInv` says for each phase what has been recounted: of the stakes those the first loop has
  visited, of the validators those the second has settled, and that what is left to take off is what
  those ahead have too much. `upgrade_recount` is the counterexample without the hypothesis.

`PriceProofs` proves for all amounts, fees, caps and supplies:

* `PriceNeverLowered`, `RoundingAlwaysBounded`, `MintNeverEnriches`. Types suffice as the
  invariant. Each instruction is reduced to an inequality between products (`Minted`: minted * price <=
  lamports * supply, and so on), so that no quotient is left in the argument. The update is the hard one:
  its second fee is taken at the price the first has lowered, and what that costs is made up
  for by what the first was rounded down (`FeesGainNothing`).
* `PriceImplementsVault`, without slashing.
* `PoolTypes`, `PoolLowersNoPrice`, `DepthIsPaidFor`, `SwapsAlwaysPay`, `LpTokensKeepWorth`: the pool's, with
  slashing. What is used of the worth of mSOL is stated once: it is monotone, the parts are worth no more than the whole
  (`ValueOfParts`), it is kept by a price that does not fall (`ValueKept`).

Two properties were too strong as first stated, and the attempt to prove them showed it (TLC
confirms with larger rewards): the price restarts when all mSOL is gone (`Priced`), and an update that meets a
slash has taken its fee of what it found before (so `MintNeverGains` excludes it).

`AdminProofs` proves `AdminTypes`, `UsersAlwaysCanLeave` and `SwapFeeAlwaysBounded` for all requests. None of
them is inductive: an instruction checks only what it is asked for. `AdminInv` adds that the configuration
would be accepted again as a whole. `UsersCanLeave` needs a SOL to be at least ten lamports (`AdminAssumption`).

The hypotheses on constants are those of the modules (`SetsAssumption`, `AmountsAssumption`,
`EpochsAssumption`, `UpgradeAssumption`, `PriceAssumption`, `PoolAssumption`, `AdminAssumption`, `ListAssumption`), which say of
what type they are and, for a minimum or a target, that it is not zero, and those named above. TLC
has checked each inductive invariant on the instance of a run before it was proved.

Only model-checked: liveness (`TicketsPaid`, `UpgradeFinishes`), which rests on fairness, and this the
prover does not support.

## Not modelled

* Account validation by Anchor (owners, seeds, mints, signers), events, error codes, the entry points, compute
  budget and rent payments by callers: input checks and logging without state. They, and the declarations of
  accounts, are more than a third of the lines of the program.
* `state.msol_price`, a copy of the price for front ends that no instruction reads.
* A change of parameters between two instructions of the core: the core's properties are stated for
  constant ones. Whether the treasury is ready to receive fees is an input of `MsolPrice` and `LiqPool`.
* A bot that is late in `DelayedUnstake`, and a validator removed there (see `retrieval`).
* `src/fuzz/marinade/src/main.rs`: a test harness of 40627 lines, five sixths of the repository's Rust, which
  is no part of the program; its instances and checks say nothing the handlers do not. The program has
  7942 lines, of which the map names about half. The scripts build and verify releases.
