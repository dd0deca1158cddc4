------------------------------ MODULE LiqPool ------------------------------
(* The pool that buys mSOL for lamports at once, beside the staking core     *)
(* whose price it trades at.  Its two legs are a system account (rent apart, *)
(* which never moves) and a token account; its LP tokens share both.         *)
EXTENDS MsolPrice

CONSTANTS
  LiquidityTarget,                     \* lamports
  LiquiditySolCap,                     \* lamports above the rent of the SOL leg
  LpMaxFee, LpMinFee, TreasuryCut,     \* basis points
  Additions, Removals, Unstakes        \* lamports, LP tokens and mSOL

ASSUME PoolAssumption ==
  /\ LiquidityTarget \in Nat \ {0} /\ LiquiditySolCap \in Nat
  /\ LpMaxFee \in 0 .. MaxBasisPoints /\ LpMinFee \in 0 .. LpMaxFee
  /\ TreasuryCut \in 0 .. MaxBasisPoints
  /\ Additions \subseteq Nat /\ Removals \subseteq Nat /\ Unstakes \subseteq Nat

VARIABLES
  solLeg,      \* lamports of the SOL leg above the rent
  msolLeg,     \* mSOL of the mSOL leg
  lpSupply,    \* state.liq_pool.lp_supply
  lpMint       \* the supply of the LP mint

poolVars == <<solLeg, msolLeg, lpSupply, lpMint>>
liqVars == <<msolVars, poolVars>>

(* The leg is part of the mSOL there is. *)
PoolTypeOK ==
  /\ PriceTypeOK
  /\ solLeg \in Nat /\ msolLeg \in 0 .. mintSupply
  /\ lpSupply \in Nat /\ lpMint \in 0 .. lpSupply

PoolInit == PriceInit /\ solLeg = 0 /\ msolLeg = 0 /\ lpSupply = 0 /\ lpMint = 0
-----------------------------------------------------------------------------
(* linear_fee: from max with no liquidity down to min at the target. *)
LinearFee(liquidity) ==
  IF liquidity >= LiquidityTarget THEN LpMinFee
  ELSE LpMaxFee - Proportional(SatSub(LpMaxFee, LpMinFee), liquidity, LiquidityTarget)

(* What the pool is worth at the price of mSOL. *)
PoolValue == solLeg + MsolToSol(msolLeg)

(* The mSOL outside the pool. *)
Held == mintSupply - msolLeg
-----------------------------------------------------------------------------
(* deposit: the pool sells its mSOL first. *)
DepositSol(n) ==
  /\ Deposit(n, msolLeg)
  /\ solLeg' = solLeg + SolSwapped(n, msolLeg)
  /\ solLeg' <= MaxU64                    \* bound: every trade brings lamports in
  /\ msolLeg' = msolLeg - Swapped(n, msolLeg)
  /\ UNCHANGED <<lpSupply, lpMint>>

(* The LP tokens for n lamports.  Mutant: the mSOL leg is worth nothing.     *)
LpForIgnoringLeg(n) == SharesFromValue(n, solLeg, lpMint)
LpFor(n) == SharesFromValue(n, PoolValue, lpMint)

(* The supply recorded after an addition: the mint's, and what was minted.   *)
(* Mutant: on_lp_mint forgotten.                                             *)
LpSupplyUnrecorded(n) == lpMint
LpSupplyAfter(n) == lpMint + LpFor(n)

AddLiquidity(n) ==
  /\ n >= MinDeposit
  /\ solLeg + n <= LiquiditySolCap
  /\ lpMint <= lpSupply
  /\ lpMint + LpFor(n) <= MaxU64
  /\ lpMint' = lpMint + LpFor(n)
  /\ lpSupply' = LpSupplyAfter(n)
  /\ solLeg' = solLeg + n
  /\ UNCHANGED <<msolVars, msolLeg>>

(* The supply the shares are taken of: the mint's, unless it has more tokens *)
(* than the program knows of.                                                *)
LpTotal == IF lpMint > lpSupply THEN lpSupply ELSE lpMint

(* t LP tokens take their part of both legs. *)
RemoveLiquidity(t) ==
  LET solOut  == Proportional(t, solLeg, LpTotal)
      msolOut == Proportional(t, msolLeg, LpTotal)
  IN
  /\ t <= lpMint
  /\ solOut + MsolToSol(msolOut) >= MinWithdraw
  /\ solOut <= solLeg /\ msolOut <= msolLeg
  /\ t <= LpTotal
  /\ lpMint' = lpMint - t
  /\ lpSupply' = LpTotal - t
  /\ solLeg' = solLeg - solOut
  /\ msolLeg' = msolLeg - msolOut
  /\ UNCHANGED msolVars

(* The fee on m mSOL: that of the liquidity left when all of it is paid.     *)
(* The mutant takes the liquidity there was before.                          *)
FeeOfLiquidityBefore(m) == LinearFee(solLeg)
FeeOfLiquidityAfter(m) ==
  IF MsolToSol(m) >= solLeg THEN LpMaxFee ELSE LinearFee(solLeg - MsolToSol(m))

(* What the pool takes in for m mSOL: all but the cut of a ready treasury.   *)
(* Mutant: the cut is taken of everything sold.                              *)
TakenInCutOfAll(m, fee, ready) == IF ready THEN m - FeeBp(TreasuryCut, m) ELSE m
TakenIn(m, fee, ready) == IF ready THEN m - FeeBp(TreasuryCut, fee) ELSE m

(* m mSOL are sold to the pool. *)
LiquidUnstake(m, ready) ==
  LET fee   == FeeBp(FeeOfLiquidityAfter(m), m)
      value == MsolToSol(m - fee)
  IN
  /\ m <= Held
  /\ value <= solLeg
  /\ value >= MinWithdraw
  /\ solLeg' = solLeg - value
  /\ msolLeg' = msolLeg + TakenIn(m, fee, ready)
  /\ UNCHANGED <<msolVars, lpSupply, lpMint>>

(* What holders do with their tokens and lamports outside the program. *)
BurnLp(t) ==
  /\ t <= lpMint
  /\ lpMint' = lpMint - t
  /\ UNCHANGED <<msolVars, solLeg, msolLeg, lpSupply>>
GiveSol(n) ==
  /\ solLeg + n <= LiquiditySolCap        \* bound
  /\ solLeg' = solLeg + n
  /\ UNCHANGED <<msolVars, msolLeg, lpSupply, lpMint>>
GiveMsol(m) ==
  /\ m <= Held
  /\ msolLeg' = msolLeg + m
  /\ UNCHANGED <<msolVars, solLeg, lpSupply, lpMint>>
-----------------------------------------------------------------------------
(* The rest of the core: what is ordered, withdrawn or burned is held. *)
CoreStep ==
  /\ \/ \E n \in StakeDeposits : DepositStakeAccount(n)
     \/ \E m \in {k \in Orders : k <= Held} : OrderUnstake(m)
     \/ \E n \in 1 .. circulating : Claim(n)
     \/ \E m \in {k \in Withdrawals : k <= Held}, ready \in BOOLEAN :
          WithdrawStakeAccount(m, ready)
     \/ \E m \in {k \in Burns : k <= Held} : BurnOutside(m)
     \/ Updates
  /\ UNCHANGED poolVars

PoolNext ==
  \/ \E n \in Deposits : DepositSol(n)
  \/ \E n \in Additions : AddLiquidity(n)
  \/ \E t \in Removals \cup {lpMint} : RemoveLiquidity(t)
  \/ \E m \in Unstakes, ready \in BOOLEAN : LiquidUnstake(m, ready)
  \/ \E t \in Removals : BurnLp(t)
  \/ \E n \in Gifts : GiveSol(n)
  \/ \E m \in Burns : GiveMsol(m)
  \/ CoreStep

PoolSpec == PoolInit /\ [][PoolNext]_liqVars
-----------------------------------------------------------------------------
PriceKept == Virtual' * msolSupply >= Virtual * msolSupply'

(* An LP token keeps its worth: while the price of mSOL does not fall, no    *)
(* addition dilutes it, no removal takes more than its part and no trade is  *)
(* at its expense; one lamport of rounding apart.                            *)
LpPriceKept ==
  [][PriceKept /\ lpMint > 0 /\ lpMint' > 0 =>
       (PoolValue' + 1) * lpMint >= PoolValue * lpMint']_liqVars

(* A trade never lowers the worth of the pool                                *)
(* (Docs/Backend-Design.md:99-105: it "can't decrease" and "can only         *)
(* increase").                                                               *)
Traded ==
  \/ \E n \in Deposits : DepositSol(n)
  \/ \E m \in Unstakes, ready \in BOOLEAN : LiquidUnstake(m, ready)
SwapsNeverLose == [][Traded => PoolValue' >= PoolValue]_liqVars

(* Whoever drains the pool pays for the depth reached: never less than the   *)
(* linear fee of the liquidity that is left after the trade.                 *)
FeeCoversDepth ==
  [][\A m \in Unstakes, ready \in BOOLEAN :
       LiquidUnstake(m, ready) =>
         solLeg - solLeg' <= MsolToSol(m - FeeBp(LinearFee(solLeg'), m))]_liqVars
=============================================================================
