----------------------------- MODULE MsolPrice -----------------------------
(* The mSOL side of the staking core: every instruction that mints or burns  *)
(* mSOL, at a price that is the virtually staked lamports over the mSOL      *)
(* supply the state records.  Of the lamports it keeps two sums: those under *)
(* control (StakeSystem's TotalLamportsUnderControl) and those promised by   *)
(* tickets; which account they are in is StakeSystem's subject.  One lamport *)
(* here stands for many, and the fees are larger than those configured, so   *)
(* that small amounts meet every rounding.  The program is not paused        *)
(* (StakeSystem has the pause).                                              *)
EXTENDS Calc

CONSTANTS
  MinDeposit, MinWithdraw, MinStake,     \* the configured minimums
  StakingSolCap,                         \* state.staking_sol_cap
  RewardFee,                             \* state.reward_fee, in basis points
  DepositSolFee, DepositStakeAccountFee, \* these four in millionths
  DelayedUnstakeFee, WithdrawStakeAccountFee,
  MaxU64,                                \* the largest amount of a token
  Deposits, StakeDeposits,               \* lamports
  Orders, Withdrawals, Burns,            \* mSOL amounts
  Gifts, Tips, Rewards, Slashes,         \* lamports an update may find
  Legs                                   \* mSOL the liquidity pool may hold

ASSUME PriceAssumption ==
  /\ MinDeposit \in Nat \ {0} /\ MinWithdraw \in Nat \ {0} /\ MinStake \in Nat \ {0}
  /\ StakingSolCap \in Nat /\ MaxU64 \in Nat
  /\ RewardFee \in 0 .. MaxBasisPoints
  /\ {DepositSolFee, DepositStakeAccountFee} \subseteq 0 .. MaxBpCents
  /\ {DelayedUnstakeFee, WithdrawStakeAccountFee} \subseteq 0 .. MaxBpCents
  /\ Deposits \subseteq Nat /\ StakeDeposits \subseteq Nat
  /\ Orders \subseteq Nat /\ Withdrawals \subseteq Nat /\ Burns \subseteq Nat
  /\ Gifts \subseteq Nat /\ Tips \subseteq Nat /\ Rewards \subseteq Nat
  /\ Slashes \subseteq Nat /\ Legs \subseteq Nat

VARIABLES
  controlled,    \* total_lamports_under_control
  circulating,   \* state.circulating_ticket_balance
  msolSupply,    \* state.msol_supply
  mintSupply     \* the supply of the mSOL mint

msolVars == <<controlled, circulating, msolSupply, mintSupply>>

(* Nobody minted behind the program's back: what the deposits check, and the *)
(* update answers by closing the deposits, never happens.                    *)
PriceTypeOK ==
  /\ controlled \in Nat /\ circulating \in Nat
  /\ msolSupply \in Nat /\ mintSupply \in 0 .. msolSupply
-----------------------------------------------------------------------------
(* Mutants: the tickets not subtracted, or subtracted without saturation.    *)
VirtualGross == controlled
VirtualUnsaturated == controlled - circulating

(* total_virtual_staked_lamports *)
Virtual == SatSub(controlled, circulating)

(* Mutants: rounded up. *)
MsolFromLamportsUp(n) == SharesFromValue(n, Virtual, msolSupply) + 1
MsolToSolUp(m) == ValueFromShares(m, Virtual, msolSupply) + 1

MsolFromLamports(n) == SharesFromValue(n, Virtual, msolSupply)
MsolToSol(m) == ValueFromShares(m, Virtual, msolSupply)

(* Minting and burning, as the mint and the state see it. *)
Mint(m) ==
  /\ msolSupply + m <= MaxU64
  /\ mintSupply' = mintSupply + m /\ msolSupply' = msolSupply + m

Burn(m) ==
  /\ m <= mintSupply /\ m <= msolSupply
  /\ mintSupply' = mintSupply - m /\ msolSupply' = msolSupply - m

(* "impossible to happen check outside bug" of the deposits. *)
NothingUnregistered == mintSupply <= msolSupply

PriceInit == controlled = 0 /\ circulating = 0 /\ msolSupply = 0 /\ mintSupply = 0
-----------------------------------------------------------------------------
(* What a deposit of n lamports buys, how much of it the mSOL leg of the     *)
(* pool can sell, and for how many lamports.                                 *)
BuyOrder(n) == MsolFromLamports(n - FeeCents(DepositSolFee, n))
Swapped(n, leg) == MinOf(BuyOrder(n), leg)
SolSwapped(n, leg) ==
  IF Swapped(n, leg) = 0 THEN 0
  ELSE IF Swapped(n, leg) = BuyOrder(n) THEN n ELSE MsolToSol(Swapped(n, leg))

(* A deposit: what the pool does not sell is minted, and paid to the reserve. *)
Deposit(n, leg) ==
  LET deposited == n - SolSwapped(n, leg) IN
  /\ n >= MinDeposit
  /\ NothingUnregistered
  /\ deposited >= 0
  /\ deposited > 0 => controlled + deposited <= StakingSolCap
  /\ controlled' = controlled + deposited
  /\ Mint(BuyOrder(n) - Swapped(n, leg))
  /\ UNCHANGED circulating

DepositStakeAccount(n) ==
  /\ NothingUnregistered
  /\ n >= MinStake
  /\ controlled + n <= StakingSolCap
  /\ Mint(MsolFromLamports(n - FeeCents(DepositStakeAccountFee, n)))
  /\ controlled' = controlled + n
  /\ UNCHANGED circulating

(* The mSOL is burned for a ticket; the fee stays with all holders.          *)
OrderUnstake(m) ==
  LET value == MsolToSol(m)
      n     == value - FeeCents(DelayedUnstakeFee, value)
  IN
  /\ n >= MinWithdraw
  /\ Burn(m)
  /\ circulating' = circulating + n
  /\ UNCHANGED controlled

(* A ticket of n lamports is paid. *)
Claim(n) ==
  /\ n <= circulating /\ n <= controlled
  /\ circulating' = circulating - n
  /\ controlled' = controlled - n
  /\ UNCHANGED <<msolSupply, mintSupply>>

(* Of m withdrawn as a stake of split lamports, the mSOL beyond the worth of *)
(* the stake goes to a treasury that is ready, and the rest is burned.  The  *)
(* mutant swaps the two.                                                     *)
BurnedForStakeSwapped(m, split, ready) ==
  IF ready THEN SatSub(m, MsolFromLamports(split)) ELSE m
BurnedForStake(m, split, ready) ==
  IF ready THEN m - SatSub(m, MsolFromLamports(split)) ELSE m

(* The stake is split off an account that keeps the minimum.                 *)
WithdrawStakeAccount(m, ready) ==
  LET value == MsolToSol(m)
      split == value - FeeCents(WithdrawStakeAccountFee, value)
  IN
  /\ m <= mintSupply
  /\ value >= MinWithdraw
  /\ split >= MinStake /\ split + MinStake <= controlled
  /\ Burn(BurnedForStake(m, split, ready))
  /\ controlled' = controlled - split
  /\ UNCHANGED circulating

(* The mSOL a ready treasury gets for n lamports of rewards, at the price of *)
(* the given totals.                                                         *)
ProtocolFee(n, total, supply, ready) ==
  IF ready
  THEN SharesFromValue(FeeBp(RewardFee, n), SatSub(total, circulating), supply)
  ELSE 0

(* update_active and update_deactivated: gift is what was sent to the        *)
(* reserve, extra what a stake account held above its stake, and the stake   *)
(* itself has earned rewards or was slashed.  The supply is read from the    *)
(* mint; the fees are minted at the price before the rewards are counted.    *)
Update(gift, extra, rewards, slashed, ready) ==
  LET total == controlled + gift + extra
      fee1  == ProtocolFee(extra, total, mintSupply, ready)
      fee2  == ProtocolFee(rewards, total, mintSupply + fee1, ready)
  IN
  /\ rewards = 0 \/ slashed = 0
  /\ slashed <= controlled
  /\ total + rewards <= StakingSolCap     \* bound: as much as deposits bring in
  /\ mintSupply + fee1 + fee2 <= MaxU64
  /\ mintSupply' = mintSupply + fee1 + fee2
  /\ msolSupply' = mintSupply'
  /\ controlled' = total + rewards - slashed
  /\ UNCHANGED circulating

(* A holder burns mSOL: the state does not hear of it until an update.       *)
BurnOutside(m) ==
  /\ m <= mintSupply
  /\ mintSupply' = mintSupply - m
  /\ UNCHANGED <<controlled, circulating, msolSupply>>
-----------------------------------------------------------------------------
(* A holder may hold, and leave with, all the mSOL there is. *)
OrAll(S) == S \cup {mintSupply}

Updates ==
  \E gift \in Gifts \cup {0}, extra \in Tips \cup {0}, rewards \in Rewards \cup {0},
     slashed \in Slashes \cup {0}, ready \in BOOLEAN :
    Update(gift, extra, rewards, slashed, ready)

PriceNext ==
  \/ \E n \in Deposits, leg \in {m \in Legs : m <= mintSupply} : Deposit(n, leg)
  \/ \E n \in StakeDeposits : DepositStakeAccount(n)
  \/ \E m \in OrAll(Orders) : OrderUnstake(m)
  \/ \E n \in 1 .. circulating : Claim(n)
  \/ \E m \in Withdrawals, ready \in BOOLEAN : WithdrawStakeAccount(m, ready)
  \/ \E m \in Burns : BurnOutside(m)
  \/ Updates

PriceSpec == PriceInit /\ [][PriceNext]_msolVars
-----------------------------------------------------------------------------
Slashed == \E gift \in Gifts \cup {0}, extra \in Tips \cup {0}, slashed \in Slashes,
              ready \in BOOLEAN : slashed > 0 /\ Update(gift, extra, 0, slashed, ready)
Withdrawn == \E m \in Withdrawals, ready \in BOOLEAN : WithdrawStakeAccount(m, ready)

(* There is a price before and after, and it is the same one: an update that *)
(* finds all mSOL burned mints its fee one to one, and the price starts anew. *)
Priced == msolSupply > 0 /\ msolSupply' > 0 /\ (mintSupply = 0 => ~Updates)

(* Slashing and the rounding of WithdrawStakeAccount apart, nothing lowers   *)
(* the price of mSOL: no deposit dilutes the holders, no order takes their   *)
(* share, the protocol fee comes out of the rewards, and it is still so when *)
(* the recorded supply is stale, when the tickets exceed what is left, or    *)
(* when the value is zero.                                                   *)
PriceNeverFalls ==
  [][Priced /\ ~Slashed /\ ~Withdrawn =>
       Virtual' * msolSupply >= Virtual * msolSupply']_msolVars

(* A stake withdrawn burns mSOL rounded down and sends the rest to the       *)
(* treasury: the holders lose less than the worth of one mSOL unit.          *)
RoundingBounded ==
  [][Priced /\ ~Slashed /\ Virtual > 0 =>
       Virtual * msolSupply' - Virtual' * msolSupply < Virtual]_msolVars

(* What is minted is worth no more, at the price it leaves behind, than the  *)
(* lamports that came with it; an update that also meets a slash takes its   *)
(* fee of what was found before it.                                          *)
MintNeverGains ==
  [][Priced /\ ~Slashed /\ mintSupply' > mintSupply =>
       (mintSupply' - mintSupply) * Virtual'
         <= SatSub(controlled', controlled) * msolSupply']_msolVars

(* Without slashing everyone may leave at once: the bound on orders that     *)
(* StakeSystem takes for granted follows from the price, and in terms of     *)
(* mSOL too the core is the vault.                                           *)
PriceVault == INSTANCE Vault WITH
  assets <- controlled, books <- controlled, owed <- circulating,
  MayRelease <- Withdrawals # {}
ImplementsVault == PriceVault!Spec
=============================================================================
