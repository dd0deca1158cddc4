------------------------------- MODULE Admin -------------------------------
(* The parameters of the program, who may change them and within what        *)
(* limits.  Each instruction takes any of its fields, and keeps the others;  *)
(* none of them asks whether the program is paused.                          *)
EXTENDS Calc

CONSTANTS
  Keys,               \* who may sign
  LamportsPerSol,
  Initials,           \* the parameters Initialize may be given
  MarinadeRequests,   \* what config_marinade may be given
  LpRequests,         \* what config_lp may be given
  AuthorityRequests,  \* what change_authority may be given
  Amounts64           \* amounts of users, to say what the parameters do to them

(* The fields config_marinade may change and those config_lp may: fees in    *)
(* basis points (reward_fee and the pool's) or millionths; u64::MAX is       *)
(* Unlimited.                                                                *)
Unlimited == -1

ConfigTypes ==
  [rewardFee |-> Nat, slotsForStakeDelta |-> Nat, minStake |-> Nat,
   minDeposit |-> Nat, minWithdraw |-> Nat,
   stakingSolCap |-> Nat \cup {Unlimited}, liquiditySolCap |-> Nat \cup {Unlimited},
   withdrawStakeAccountEnabled |-> BOOLEAN,
   delayedUnstakeFee |-> Nat, withdrawStakeAccountFee |-> Nat,
   depositSolFee |-> Nat, depositStakeAccountFee |-> Nat,
   maxStakeMovedPerEpoch |-> Nat]

PoolTypes == [minFee |-> Nat, maxFee |-> Nat, liquidityTarget |-> Nat, treasuryCut |-> Nat]

Offices == {"admin", "validatorManager", "operationalSolAccount",
            "treasuryMsolAccount", "pauseAuthority"}

(* Some of the fields of a type, and all of them. *)
SomeFields(r, types) ==
  DOMAIN r \subseteq DOMAIN types /\ \A f \in DOMAIN r : r[f] \in types[f]
AllFields(r, types) ==
  /\ DOMAIN r = DOMAIN types /\ r = [f \in DOMAIN types |-> r[f]]
  /\ \A f \in DOMAIN types : r[f] \in types[f]

ASSUME AdminAssumption ==
  /\ LamportsPerSol \in Nat /\ LamportsPerSol >= 10
  /\ Amounts64 \subseteq Nat
  /\ \A given \in Initials :
       /\ given.rewardFee \in Nat /\ given.slotsForStakeDelta \in Nat
       /\ given.minStake \in Nat /\ AllFields(given.pool, PoolTypes)
  /\ \A asked \in MarinadeRequests : SomeFields(asked, ConfigTypes)
  /\ \A asked \in LpRequests : SomeFields(asked, PoolTypes)
  /\ \A asked \in AuthorityRequests : SomeFields(asked, [o \in Offices |-> Keys])

VARIABLES
  config,      \* the fields of the state that config_marinade changes
  pool,        \* those of the liquidity pool that config_lp changes
  authority,   \* a key for each office, and the accounts that are paid
  paused

adminVars == <<config, pool, authority, paused>>

Initialized(given) ==
  [rewardFee |-> given.rewardFee, slotsForStakeDelta |-> given.slotsForStakeDelta,
   minStake |-> given.minStake, minDeposit |-> 1, minWithdraw |-> 1,
   stakingSolCap |-> Unlimited, liquiditySolCap |-> Unlimited,
   withdrawStakeAccountEnabled |-> FALSE,
   delayedUnstakeFee |-> 0, withdrawStakeAccountFee |-> 0,
   depositSolFee |-> 0, depositStakeAccountFee |-> 0,
   maxStakeMovedPerEpoch |-> MaxBasisPoints]

MaxWithdrawAtom == LamportsPerSol \div 10
MaxFeeCents == 2000

AtMost ==
  [rewardFee |-> 1000, minWithdraw |-> MaxWithdrawAtom,
   delayedUnstakeFee |-> MaxFeeCents, withdrawStakeAccountFee |-> MaxFeeCents,
   depositSolFee |-> MaxFeeCents, depositStakeAccountFee |-> MaxFeeCents]
AtLeast == [slotsForStakeDelta |-> 3000, minStake |-> LamportsPerSol \div 100]

(* What is asked for is within the limits; the other fields have none.  The  *)
(* mutant forgets those from above.                                          *)
AcceptedFromBelow(asked) == \A f \in DOMAIN asked \cap DOMAIN AtLeast : asked[f] >= AtLeast[f]
Accepted(asked) ==
  /\ \A f \in DOMAIN asked \cap DOMAIN AtMost  : asked[f] <= AtMost[f]
  /\ \A f \in DOMAIN asked \cap DOMAIN AtLeast : asked[f] >= AtLeast[f]

(* validate.  Mutant: the fees the wrong way round. *)
ValidateEitherWay(p) ==
  /\ p.minFee <= MaxBasisPoints /\ p.maxFee <= 1000
  /\ p.liquidityTarget >= 50 * LamportsPerSol
  /\ p.treasuryCut <= 7500
Validate(p) ==
  /\ p.minFee <= p.maxFee /\ p.maxFee <= 1000
  /\ p.liquidityTarget >= 50 * LamportsPerSol
  /\ p.treasuryCut <= 7500

(* Mutant: what is not asked for is lost. *)
AskedAlone(asked, old) == asked
Asked(asked, old) == [f \in DOMAIN old |-> IF f \in DOMAIN asked THEN asked[f] ELSE old[f]]
-----------------------------------------------------------------------------
Initialize ==
  \E given \in Initials :
    /\ given.rewardFee <= AtMost.rewardFee
    /\ given.slotsForStakeDelta >= AtLeast.slotsForStakeDelta
    /\ given.minStake >= AtLeast.minStake
    /\ Validate(given.pool)
    /\ config = Initialized(given)
    /\ pool = given.pool
    /\ authority \in [Offices -> Keys]
    /\ paused = FALSE

ConfigMarinade(k, asked) ==
  /\ k = authority["admin"]
  /\ Accepted(asked)
  /\ config' = Asked(asked, config)
  /\ UNCHANGED <<pool, authority, paused>>

(* The pool is validated as it is after all of the changes. *)
ConfigLp(k, asked) ==
  /\ k = authority["admin"]
  /\ Validate(Asked(asked, pool))
  /\ pool' = Asked(asked, pool)
  /\ UNCHANGED <<config, authority, paused>>

(* The admin may hand over any office, its own included. *)
ChangeAuthority(k, asked) ==
  /\ k = authority["admin"]
  /\ authority' = Asked(asked, authority)
  /\ UNCHANGED <<config, pool, paused>>

Pause(k) ==
  /\ k = authority["pauseAuthority"]
  /\ ~paused /\ paused' = TRUE
  /\ UNCHANGED <<config, pool, authority>>

Resume(k) ==
  /\ k = authority["pauseAuthority"]
  /\ paused /\ paused' = FALSE
  /\ UNCHANGED <<config, pool, authority>>

AdminNext == \E k \in Keys :
  \/ \E asked \in MarinadeRequests : ConfigMarinade(k, asked)
  \/ \E asked \in LpRequests : ConfigLp(k, asked)
  \/ \E asked \in AuthorityRequests : ChangeAuthority(k, asked)
  \/ Pause(k)
  \/ Resume(k)

AdminSpec == Initialize /\ [][AdminNext]_adminVars
-----------------------------------------------------------------------------
AdminTypeOK ==
  /\ AllFields(config, ConfigTypes)
  /\ AllFields(pool, PoolTypes) /\ pool.maxFee <= MaxBasisPoints
  /\ pool.treasuryCut <= MaxBasisPoints
  /\ authority \in [Offices -> Keys]
  /\ paused \in BOOLEAN

(* What n lamports of mSOL are worth as a ticket: order_unstake.             *)
TicketValue(n) == n - FeeCents(config.delayedUnstakeFee, n)

(* Whatever the admin does, the parameters keep nobody from leaving:         *)
(* order_unstake takes what is worth 0.1 SOL after the highest fee, and a    *)
(* deposit ordered back at the same price costs 0.4 % at most, rounding      *)
(* included (state/mod.rs: "set a max fee to protect users").                *)
UsersCanLeave ==
  \A n \in Amounts64 :
    /\ n - FeeCents(MaxFeeCents, n) >= MaxWithdrawAtom => TicketValue(n) >= config.minWithdraw
    /\ TicketValue(n - FeeCents(config.depositSolFee, n)) >= n - FeeCents(2 * MaxFeeCents, n)

(* linear_fee *)
LinearFee(liquidity) ==
  IF liquidity >= pool.liquidityTarget THEN pool.minFee
  ELSE pool.maxFee - Proportional(SatSub(pool.maxFee, pool.minFee), liquidity, pool.liquidityTarget)

(* liq_pool.rs: "hard-limit, max liquid unstake-fee of 10%".  Whatever is    *)
(* configured, field by field, the fee falls with the liquidity from its     *)
(* maximum to its minimum and is never above the limit.                      *)
SwapFeeBounded ==
  \A n, m \in Amounts64 :
    /\ LinearFee(n) \in pool.minFee .. pool.maxFee /\ LinearFee(n) <= 1000
    /\ n <= m => LinearFee(m) <= LinearFee(n)
=============================================================================
