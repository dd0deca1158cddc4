---------------------------- MODULE PriceProofs ----------------------------
(* What mSOL and LP tokens are worth, for all amounts, fees and bounds.      *)
(*                                                                           *)
(* First, each instruction is reduced to what it does to the lamports and to *)
(* the mSOL: it mints for lamports that come in, burns for a ticket or for a *)
(* stake, or updates (Minted, Ordered, Withdrew, Updated; MsolStep is any of *)
(* them).  Each says, as an inequality between products, which way the       *)
(* result was rounded; that the price does not fall then follows from the    *)
(* types alone, and no other invariant is needed.                            *)
(*                                                                           *)
(* Then the pool: what it does to the mSOL are the same steps, and what its  *)
(* own instructions do to its legs is worth no less to those who stay.       *)
EXTENDS LiqPool, AmountsTheorems

(* The fees are part of what they are taken of. *)
LEMMA FeesAreShares ==
  /\ MaxBpCents \in Nat \ {0} /\ MaxBasisPoints \in Nat \ {0}
  /\ {DepositSolFee, DepositStakeAccountFee} \subseteq 0 .. MaxBpCents
  /\ {DelayedUnstakeFee, WithdrawStakeAccountFee} \subseteq 0 .. MaxBpCents
  /\ RewardFee \in 0 .. MaxBasisPoints
<1>1. MaxBpCents \in Nat /\ MaxBpCents # 0 /\ MaxBasisPoints \in Nat /\ MaxBasisPoints # 0
  <2>1. 1000000 \in Nat /\ 1000000 # 0 /\ 10000 \in Nat /\ 10000 # 0
    BY SMT
  <2> QED BY <2>1, SMT DEF MaxBpCents, MaxBasisPoints
<1> QED BY <1>1, PriceAssumption

LEMMA Fees ==
  ASSUME NEW n \in Nat
  PROVE  /\ FeeCents(DepositSolFee, n) \in 0 .. n
         /\ FeeCents(DepositStakeAccountFee, n) \in 0 .. n
         /\ FeeCents(DelayedUnstakeFee, n) \in 0 .. n
         /\ FeeCents(WithdrawStakeAccountFee, n) \in 0 .. n
         /\ FeeBp(RewardFee, n) \in 0 .. n
<1>1. ASSUME NEW c \in 0 .. MaxBpCents PROVE FeeCents(c, n) \in 0 .. n
  BY FeesAreShares, Share DEF FeeCents
<1>2. ASSUME NEW c \in 0 .. MaxBasisPoints PROVE FeeBp(c, n) \in 0 .. n
  BY FeesAreShares, Share DEF FeeBp
<1> QED BY <1>1, <1>2, FeesAreShares

(* Converted at a price of v lamports for s shares, a result is rounded down. *)
LEMMA Shares ==
  ASSUME NEW n \in Nat, NEW v \in Nat, NEW s \in Nat
  PROVE  /\ SharesFromValue(n, v, s) \in Nat
         /\ s = 0 \/ v = 0 => SharesFromValue(n, v, s) = n
         /\ s # 0 /\ v # 0 => /\ v * SharesFromValue(n, v, s) <= n * s
                              /\ n * s < v * SharesFromValue(n, v, s) + v
<1>1. n * s \in Nat
  OBVIOUS
<1>2. CASE s = 0 \/ v = 0
  BY <1>2 DEF SharesFromValue, Proportional
<1>3. CASE s # 0 /\ v # 0
  <2>1. SharesFromValue(n, v, s) = (n * s) \div v
    BY <1>3 DEF SharesFromValue, Proportional
  <2> QED BY <1>1, <1>3, <2>1, RoundedDown
<1> QED BY <1>2, <1>3

LEMMA Values ==
  ASSUME NEW m \in Nat, NEW v \in Nat, NEW s \in Nat
  PROVE  /\ ValueFromShares(m, v, s) \in Nat
         /\ s = 0 => ValueFromShares(m, v, s) = m
         /\ s # 0 => /\ s * ValueFromShares(m, v, s) <= m * v
                     /\ m * v < s * ValueFromShares(m, v, s) + s
         /\ s # 0 /\ m <= s => ValueFromShares(m, v, s) <= v
<1>1. m * v \in Nat
  OBVIOUS
<1>2. CASE s = 0
  BY <1>2 DEF ValueFromShares, Proportional
<1>3. CASE s # 0
  <2>1. ValueFromShares(m, v, s) = (m * v) \div s
    BY <1>3 DEF ValueFromShares, Proportional
  <2>2. /\ (m * v) \div s \in Nat
        /\ s * ((m * v) \div s) <= m * v
        /\ m * v < s * ((m * v) \div s) + s
    BY <1>1, <1>3, RoundedDown
  <2>3. m <= s => (m * v) \div s <= v
    <3> SUFFICES ASSUME m <= s PROVE (m * v) \div s <= v
      OBVIOUS
    <3>1. (v * m) \div s \in 0 .. v
      BY <1>3, Share
    <3>2. v * m = m * v
      OBVIOUS
    <3> QED BY <3>1, <3>2
  <2> QED BY <1>3, <2>1, <2>2, <2>3
<1> QED BY <1>2, <1>3

(* Virtual is natural, and what the tickets leave of the lamports. *)
LEMMA VirtualIs ==
  ASSUME NEW c \in Nat, NEW t \in Nat
  PROVE  /\ SatSub(c, t) \in Nat
         /\ SatSub(c, t) # 0 => c = t + SatSub(c, t)
         /\ SatSub(c, t) = 0 => c <= t
         /\ SatSub(c, t) <= c
BY DEF SatSub

LEMMA Prices ==
  ASSUME PriceTypeOK
  PROVE  /\ Virtual \in Nat
         /\ \A n \in Nat : MsolFromLamports(n) \in Nat /\ MsolToSol(n) \in Nat
<1>1. Virtual \in Nat /\ msolSupply \in Nat
  BY VirtualIs DEF PriceTypeOK, Virtual
<1> QED BY <1>1, Shares, Values DEF MsolFromLamports, MsolToSol
-----------------------------------------------------------------------------
(* What the instructions do to the four numbers.  For all that mints: lamports *)
(* come in, and what they buy is rounded down, at the price there was.       *)
Minted(lamports, minted) ==
  /\ controlled' = controlled + lamports /\ circulating' = circulating
  /\ mintSupply' = mintSupply + minted /\ msolSupply' = msolSupply + minted
  /\ msolSupply # 0 /\ Virtual # 0 => minted * Virtual <= lamports * msolSupply
  /\ msolSupply # 0 /\ Virtual = 0 => minted <= lamports

LEMMA DepositStakeMints ==
  ASSUME PriceTypeOK, NEW n \in Nat, DepositStakeAccount(n)
  PROVE  \E minted \in Nat : Minted(n, minted)
<1> DEFINE paid == n - FeeCents(DepositStakeAccountFee, n)
           minted == MsolFromLamports(paid)
<1>1. paid \in Nat /\ paid <= n
  BY Fees
<1>2. /\ controlled' = controlled + n /\ circulating' = circulating
      /\ mintSupply' = mintSupply + minted /\ msolSupply' = msolSupply + minted
  BY DEF DepositStakeAccount, Mint
<1>3. Virtual \in Nat /\ msolSupply \in Nat
  BY Prices DEF PriceTypeOK
<1> HIDE DEF paid
<1>4. /\ minted \in Nat
      /\ msolSupply # 0 /\ Virtual # 0 => Virtual * minted <= paid * msolSupply
      /\ msolSupply # 0 /\ Virtual = 0 => minted = paid
  BY <1>1, <1>3, Shares DEF MsolFromLamports
<1> HIDE DEF minted
<1>5. paid * msolSupply <= n * msolSupply
  BY <1>1, <1>3
<1>6. minted * Virtual = Virtual * minted /\ paid * msolSupply \in Nat /\ n * msolSupply \in Nat
  BY <1>1, <1>3, <1>4
<1>7. Minted(n, minted)
  BY <1>1, <1>2, <1>3, <1>4, <1>5, <1>6 DEF Minted
<1> QED BY <1>4, <1>7

(* The part of a deposit that the pool sells. *)
LEMMA SwapOfDeposit ==
  ASSUME PriceTypeOK, NEW n \in Nat, NEW leg \in Nat
  PROVE  /\ BuyOrder(n) \in Nat /\ Swapped(n, leg) \in Nat /\ SolSwapped(n, leg) \in Nat
         /\ Swapped(n, leg) <= BuyOrder(n) /\ Swapped(n, leg) <= leg
         /\ Swapped(n, leg) # BuyOrder(n) => Swapped(n, leg) = leg
         /\ Swapped(n, leg) = 0 => SolSwapped(n, leg) = 0
         /\ Swapped(n, leg) # 0 /\ Swapped(n, leg) = BuyOrder(n) => SolSwapped(n, leg) = n
         /\ Swapped(n, leg) # 0 /\ Swapped(n, leg) # BuyOrder(n)
              => SolSwapped(n, leg) = MsolToSol(Swapped(n, leg))
         /\ msolSupply # 0 /\ Virtual # 0 => BuyOrder(n) * Virtual <= n * msolSupply
         /\ msolSupply # 0 /\ Virtual = 0 => BuyOrder(n) <= n
<1> DEFINE paid == n - FeeCents(DepositSolFee, n)
<1>1. paid \in Nat /\ paid <= n
  BY Fees
<1>2. Virtual \in Nat /\ msolSupply \in Nat
  BY Prices DEF PriceTypeOK
<1>3. BuyOrder(n) = SharesFromValue(paid, Virtual, msolSupply)
  BY DEF BuyOrder, MsolFromLamports
<1> HIDE DEF paid
<1>4. /\ BuyOrder(n) \in Nat
      /\ msolSupply # 0 /\ Virtual # 0 => Virtual * BuyOrder(n) <= paid * msolSupply
      /\ msolSupply # 0 /\ Virtual = 0 => BuyOrder(n) = paid
  <2> DEFINE bought == SharesFromValue(paid, Virtual, msolSupply)
  <2>1. /\ bought \in Nat
        /\ msolSupply # 0 /\ Virtual # 0 => Virtual * bought <= paid * msolSupply
        /\ msolSupply # 0 /\ Virtual = 0 => bought = paid
    BY <1>1, <1>2, Shares
  <2> HIDE DEF bought
  <2>2. BuyOrder(n) = bought
    BY <1>3 DEF bought
  <2> QED BY <2>1, <2>2
<1>5. /\ Swapped(n, leg) \in Nat
      /\ Swapped(n, leg) <= BuyOrder(n) /\ Swapped(n, leg) <= leg
      /\ Swapped(n, leg) # BuyOrder(n) => Swapped(n, leg) = leg
  BY <1>4 DEF Swapped, MinOf
<1>6. MsolToSol(Swapped(n, leg)) \in Nat
  BY <1>5, Prices
<1>7. /\ SolSwapped(n, leg) \in Nat
      /\ Swapped(n, leg) = 0 => SolSwapped(n, leg) = 0
      /\ Swapped(n, leg) # 0 /\ Swapped(n, leg) = BuyOrder(n) => SolSwapped(n, leg) = n
      /\ Swapped(n, leg) # 0 /\ Swapped(n, leg) # BuyOrder(n)
           => SolSwapped(n, leg) = MsolToSol(Swapped(n, leg))
  BY <1>6 DEF SolSwapped
<1>8. paid * msolSupply <= n * msolSupply
  BY <1>1, <1>2
<1>9. /\ BuyOrder(n) * Virtual = Virtual * BuyOrder(n)
      /\ paid * msolSupply \in Nat /\ n * msolSupply \in Nat /\ Virtual * BuyOrder(n) \in Nat
  BY <1>1, <1>2, <1>4
<1>10. /\ msolSupply # 0 /\ Virtual # 0 => BuyOrder(n) * Virtual <= n * msolSupply
       /\ msolSupply # 0 /\ Virtual = 0 => BuyOrder(n) <= n
  BY <1>1, <1>4, <1>8, <1>9
<1> QED BY <1>4, <1>5, <1>7, <1>10

LEMMA DepositMints ==
  ASSUME PriceTypeOK, NEW n \in Nat, NEW leg \in Nat, Deposit(n, leg)
  PROVE  /\ n - SolSwapped(n, leg) \in Nat
         /\ BuyOrder(n) - Swapped(n, leg) \in Nat
         /\ Minted(n - SolSwapped(n, leg), BuyOrder(n) - Swapped(n, leg))
<1> DEFINE b == BuyOrder(n)
           s == Swapped(n, leg)
           sol == SolSwapped(n, leg)
<1>1. /\ n - sol >= 0
      /\ controlled' = controlled + (n - sol) /\ circulating' = circulating
      /\ mintSupply' = mintSupply + (b - s) /\ msolSupply' = msolSupply + (b - s)
  BY DEF Deposit, Mint
<1>2. Virtual \in Nat /\ msolSupply \in Nat
  BY Prices DEF PriceTypeOK
<1>3. /\ b \in Nat /\ s \in Nat /\ sol \in Nat /\ s <= b
      /\ s = 0 => sol = 0
      /\ s # 0 /\ s = b => sol = n
      /\ s # 0 /\ s # b => sol = MsolToSol(s)
      /\ msolSupply # 0 /\ Virtual # 0 => b * Virtual <= n * msolSupply
      /\ msolSupply # 0 /\ Virtual = 0 => b <= n
  BY SwapOfDeposit
<1>4. msolSupply # 0 => msolSupply * MsolToSol(s) <= s * Virtual /\ MsolToSol(s) \in Nat
  BY <1>2, <1>3, Values DEF MsolToSol
<1> HIDE DEF b, s, sol
<1>5. n - sol \in Nat /\ b - s \in Nat
  BY <1>1, <1>3
<1>6. ASSUME msolSupply # 0, Virtual # 0
      PROVE  (b - s) * Virtual <= (n - sol) * msolSupply
  <2>1. (b - s) * Virtual = b * Virtual - s * Virtual
    BY <1>2, <1>3
  <2>2. (n - sol) * msolSupply = n * msolSupply - sol * msolSupply
    BY <1>2, <1>3
  <2>3. /\ b * Virtual \in Nat /\ s * Virtual \in Nat
        /\ n * msolSupply \in Nat /\ sol * msolSupply \in Nat
    BY <1>2, <1>3
  <2>4. CASE s = b
    <3>1. (b - s) * Virtual = 0
      BY <1>2, <1>3, <2>4
    <3>2. (n - sol) * msolSupply \in Nat
      BY <1>2, <1>5
    <3> QED BY <3>1, <3>2
  <2>5. CASE s = 0
    BY <1>2, <1>3, <1>6, <2>5
  <2>6. CASE s # 0 /\ s # b
    <3>1. sol * msolSupply <= s * Virtual
      BY <1>2, <1>3, <1>4, <1>6, <2>6
    <3> QED BY <1>3, <1>6, <2>1, <2>2, <2>3, <3>1
  <2> QED BY <2>4, <2>5, <2>6
<1>7. ASSUME msolSupply # 0, Virtual = 0
      PROVE  b - s <= n - sol
  <2>1. CASE s = b
    BY <1>3, <1>5, <2>1
  <2>2. CASE s = 0
    BY <1>3, <1>7, <2>2
  <2>3. CASE s # 0 /\ s # b
    <3>1. msolSupply * sol <= 0
      BY <1>2, <1>3, <1>4, <1>7, <2>3
    <3>2. sol = 0
      BY <1>2, <1>3, <1>7, <3>1
    <3> QED BY <1>3, <1>7, <2>3, <3>2
  <2> QED BY <2>1, <2>2, <2>3
<1>8. Minted(n - sol, b - s)
  BY <1>1, <1>6, <1>7 DEF Minted
<1> QED BY <1>5, <1>8 DEF b, s, sol

(* For a ticket: mSOL is burned for lamports that are worth no more. *)
Ordered(lamports, burned) ==
  /\ controlled' = controlled /\ circulating' = circulating + lamports
  /\ mintSupply' = mintSupply - burned /\ msolSupply' = msolSupply - burned
  /\ burned <= mintSupply
  /\ msolSupply # 0 /\ lamports # 0 /\ lamports <= Virtual
  /\ lamports * msolSupply <= burned * Virtual

LEMMA OrderUnstakeOrders ==
  ASSUME PriceTypeOK, NEW m \in Nat, OrderUnstake(m)
  PROVE  \E lamports \in Nat : Ordered(lamports, m)
<1> DEFINE value == MsolToSol(m)
           n == value - FeeCents(DelayedUnstakeFee, value)
<1>1. /\ n >= MinWithdraw /\ m <= mintSupply /\ m <= msolSupply
      /\ mintSupply' = mintSupply - m /\ msolSupply' = msolSupply - m
      /\ circulating' = circulating + n /\ controlled' = controlled
  BY DEF OrderUnstake, Burn
<1>2. Virtual \in Nat /\ msolSupply \in Nat
  BY Prices DEF PriceTypeOK
<1>3. value \in Nat
  BY Prices
<1>4. n \in Nat /\ n <= value
  BY <1>3, Fees
<1>5. /\ msolSupply = 0 => value = m
      /\ msolSupply # 0 => msolSupply * value <= m * Virtual
      /\ msolSupply # 0 => value <= Virtual
  BY <1>1, <1>2, Values DEF MsolToSol
<1> HIDE DEF value, n
<1>6. n # 0
  BY <1>1, <1>4, PriceAssumption
<1>7. msolSupply # 0
  BY <1>1, <1>2, <1>3, <1>4, <1>5, <1>6
<1>8. n * msolSupply <= m * Virtual
  <2>1. n * msolSupply <= value * msolSupply
    BY <1>2, <1>3, <1>4
  <2>2. value * msolSupply = msolSupply * value
    BY <1>2, <1>3
  <2>3. n * msolSupply \in Nat /\ value * msolSupply \in Nat /\ m * Virtual \in Nat
    BY <1>2, <1>3, <1>4
  <2> QED BY <1>5, <1>7, <2>1, <2>2, <2>3
<1>9. n <= Virtual
  BY <1>2, <1>3, <1>4, <1>5, <1>7
<1>10. Ordered(n, m)
  BY <1>1, <1>6, <1>7, <1>8, <1>9 DEF Ordered
<1> QED BY <1>4, <1>10

(* For a stake: the mSOL burned is rounded down too, by less than one.       *)
Withdrew(lamports, burned) ==
  /\ controlled' = controlled - lamports /\ circulating' = circulating
  /\ mintSupply' = mintSupply - burned /\ msolSupply' = msolSupply - burned
  /\ burned <= mintSupply
  /\ msolSupply # 0 /\ lamports # 0 /\ lamports <= Virtual
  /\ lamports * msolSupply < burned * Virtual + Virtual

LEMMA WithdrawStakeWithdraws ==
  ASSUME PriceTypeOK, NEW m \in Nat, NEW ready \in BOOLEAN, WithdrawStakeAccount(m, ready)
  PROVE  \E lamports \in Nat, burned \in 0 .. m : Withdrew(lamports, burned)
<1> DEFINE value == MsolToSol(m)
           split == value - FeeCents(WithdrawStakeAccountFee, value)
           worth == MsolFromLamports(split)
           burned == BurnedForStake(m, split, ready)
<1>1. /\ m <= mintSupply /\ value >= MinWithdraw /\ split >= MinStake
      /\ mintSupply' = mintSupply - burned /\ msolSupply' = msolSupply - burned
      /\ controlled' = controlled - split /\ circulating' = circulating
      /\ burned <= mintSupply
  BY DEF WithdrawStakeAccount, Burn
<1>2. Virtual \in Nat /\ msolSupply \in Nat /\ mintSupply \in Nat /\ mintSupply <= msolSupply
  BY Prices DEF PriceTypeOK
<1>3. value \in Nat
  BY Prices
<1>4. split \in Nat /\ split <= value
  BY <1>3, Fees
<1>5. /\ msolSupply = 0 => value = m
      /\ msolSupply # 0 => msolSupply * value <= m * Virtual
      /\ msolSupply # 0 => value <= Virtual
  <2> HIDE DEF split, worth, burned
  <2>1. m <= msolSupply
    BY <1>1, <1>2
  <2> QED BY <1>2, <2>1, Values DEF MsolToSol
<1>6. MinStake \in Nat \ {0} /\ MinWithdraw \in Nat \ {0}
  BY PriceAssumption
<1> HIDE DEF value
<1>7. msolSupply # 0 /\ Virtual # 0 /\ split # 0 /\ split <= Virtual
  BY <1>1, <1>2, <1>3, <1>4, <1>5, <1>6
<1> HIDE DEF split
<1>8. worth \in Nat /\ split * msolSupply < Virtual * worth + Virtual
  BY <1>2, <1>4, <1>7, Shares DEF MsolFromLamports
<1>9. burned \in 0 .. m /\ (burned = m \/ burned = worth)
  BY <1>8 DEF BurnedForStake, SatSub
<1>10. split * msolSupply <= m * Virtual
  <2>1. split * msolSupply <= value * msolSupply
    BY <1>2, <1>3, <1>4
  <2>2. value * msolSupply = msolSupply * value
    BY <1>2, <1>3
  <2>3. split * msolSupply \in Nat /\ value * msolSupply \in Nat /\ m * Virtual \in Nat
    BY <1>2, <1>3, <1>4
  <2> QED BY <1>5, <1>7, <2>1, <2>2, <2>3
<1> HIDE DEF worth, burned
<1>11. split * msolSupply < burned * Virtual + Virtual
  <2>1. CASE burned = m
    <3>1. split * msolSupply \in Nat /\ m * Virtual \in Nat
      BY <1>2, <1>4
    <3> QED BY <1>2, <1>7, <1>10, <2>1, <3>1
  <2>2. CASE burned = worth
    <3>1. Virtual * worth = worth * Virtual
      BY <1>2, <1>8
    <3> QED BY <1>8, <2>2, <3>1
  <2> QED BY <1>9, <2>1, <2>2
<1>12. Withdrew(split, burned)
  BY <1>1, <1>7, <1>11 DEF Withdrew
<1> QED BY <1>4, <1>9, <1>12

(* For an update: lamports were found and earned or slashed, and the fees    *)
(* are cuts of what was found and of what was earned, rounded down at the    *)
(* price, by the supply of the mint, before what was earned.                 *)
Found(given, extra) == SatSub(controlled + given + extra, circulating)

Fee(cut, virtual, supply, minted) ==
  /\ supply # 0 /\ virtual # 0 => /\ virtual * minted <= cut * supply
                                  /\ cut * supply < virtual * minted + virtual
  /\ supply # 0 /\ virtual = 0 => minted = cut

Updated(given, extra, rewards, slashed, cut1, cut2, fee1, fee2) ==
  /\ rewards = 0 \/ slashed = 0
  /\ slashed <= controlled
  /\ controlled' = controlled + given + extra + rewards - slashed
  /\ circulating' = circulating
  /\ mintSupply' = mintSupply + fee1 + fee2 /\ msolSupply' = mintSupply + fee1 + fee2
  /\ Fee(cut1, Found(given, extra), mintSupply, fee1)
  /\ Fee(cut2, Found(given, extra), mintSupply + fee1, fee2)

LEMMA ProtocolFeeIsFee ==
  ASSUME NEW n \in Nat, NEW total \in Nat, NEW supply \in Nat, NEW ready \in BOOLEAN,
         circulating \in Nat
  PROVE  \E cut \in 0 .. n : Fee(cut, SatSub(total, circulating), supply,
                                 ProtocolFee(n, total, supply, ready))
<1> DEFINE fee == ProtocolFee(n, total, supply, ready)
           virtual == SatSub(total, circulating)
<1>1. virtual \in Nat
  BY VirtualIs
<1>2. CASE ready
  <2> DEFINE cut == FeeBp(RewardFee, n)
  <2>1. cut \in 0 .. n
    BY Fees
  <2>2. fee = SharesFromValue(cut, virtual, supply)
    BY <1>2 DEF ProtocolFee
  <2> HIDE DEF cut, virtual, fee
  <2>3. /\ supply = 0 \/ virtual = 0 => fee = cut
        /\ supply # 0 /\ virtual # 0 => /\ virtual * fee <= cut * supply
                                        /\ cut * supply < virtual * fee + virtual
    <3> DEFINE shares == SharesFromValue(cut, virtual, supply)
    <3>1. /\ supply = 0 \/ virtual = 0 => shares = cut
          /\ supply # 0 /\ virtual # 0 => /\ virtual * shares <= cut * supply
                                          /\ cut * supply < virtual * shares + virtual
      BY <1>1, <2>1, Shares
    <3> HIDE DEF shares
    <3>2. fee = shares
      BY <2>2 DEF shares
    <3> QED BY <3>1, <3>2
  <2>4. Fee(cut, virtual, supply, fee)
    BY <2>3 DEF Fee
  <2> QED BY <2>1, <2>4 DEF virtual, fee
<1>3. CASE ~ready
  <2>1. fee = 0
    BY <1>3 DEF ProtocolFee
  <2> HIDE DEF fee, virtual
  <2>2. Fee(0, virtual, supply, fee)
    BY <1>1, <2>1 DEF Fee
  <2> QED BY <2>2 DEF virtual, fee
<1> QED BY <1>2, <1>3

LEMMA ProtocolFeeNat ==
  ASSUME NEW n \in Nat, NEW total \in Nat, NEW supply \in Nat, NEW ready \in BOOLEAN,
         circulating \in Nat
  PROVE  ProtocolFee(n, total, supply, ready) \in Nat
<1>1. SatSub(total, circulating) \in Nat
  BY VirtualIs
<1>2. FeeBp(RewardFee, n) \in Nat
  BY Fees
<1>3. SharesFromValue(FeeBp(RewardFee, n), SatSub(total, circulating), supply) \in Nat
  BY <1>1, <1>2, Shares
<1> QED BY <1>3 DEF ProtocolFee

LEMMA UpdateUpdates ==
  ASSUME PriceTypeOK, NEW given \in Nat, NEW extra \in Nat, NEW rewards \in Nat,
         NEW slashed \in Nat, NEW ready \in BOOLEAN,
         Update(given, extra, rewards, slashed, ready)
  PROVE  \E cut1 \in 0 .. extra, cut2 \in 0 .. rewards, fee1, fee2 \in Nat :
           Updated(given, extra, rewards, slashed, cut1, cut2, fee1, fee2)
<1> DEFINE total == controlled + given + extra
           fee1 == ProtocolFee(extra, total, mintSupply, ready)
           fee2 == ProtocolFee(rewards, total, mintSupply + fee1, ready)
<1>1. /\ rewards = 0 \/ slashed = 0
      /\ slashed <= controlled
      /\ mintSupply' = mintSupply + fee1 + fee2
      /\ msolSupply' = mintSupply'
      /\ controlled' = total + rewards - slashed
      /\ circulating' = circulating
  BY DEF Update
<1>2. total \in Nat /\ circulating \in Nat /\ mintSupply \in Nat
  BY DEF PriceTypeOK
<1>3. fee1 \in Nat
  BY <1>2, ProtocolFeeNat
<1> HIDE DEF total
<1>4. PICK cut1 \in 0 .. extra : Fee(cut1, SatSub(total, circulating), mintSupply, fee1)
  BY <1>2, ProtocolFeeIsFee
<1> HIDE DEF fee1
<1>5. mintSupply + fee1 \in Nat
  BY <1>2, <1>3
<1>6. fee2 \in Nat
  BY <1>2, <1>5, ProtocolFeeNat
<1>7. PICK cut2 \in 0 .. rewards : Fee(cut2, SatSub(total, circulating), mintSupply + fee1, fee2)
  BY <1>2, <1>5, ProtocolFeeIsFee
<1> HIDE DEF fee2
<1>8. Found(given, extra) = SatSub(total, circulating)
  BY DEF Found, total
<1>9. Updated(given, extra, rewards, slashed, cut1, cut2, fee1, fee2)
  BY <1>1, <1>4, <1>7, <1>8 DEF Updated, total
<1> QED BY <1>3, <1>6, <1>9
-----------------------------------------------------------------------------
(* Every step, with the pool or without it, does one of these to the mSOL.   *)
MsolStep ==
  \/ \E lamports, minted \in Nat : Minted(lamports, minted)
  \/ \E lamports, burned \in Nat : Ordered(lamports, burned)
  \/ \E n \in 1 .. circulating : Claim(n)
  \/ Withdrawn /\ \E lamports, burned \in Nat : Withdrew(lamports, burned)
  \/ \E m \in Nat : BurnOutside(m)
  \/ Updates
  \/ UNCHANGED msolVars

LEMMA PriceNextSteps ==
  ASSUME PriceTypeOK, [PriceNext]_msolVars
  PROVE  MsolStep
<1>1. ASSUME NEW n \in Deposits, NEW leg \in {m \in Legs : m <= mintSupply}, Deposit(n, leg)
      PROVE  MsolStep
  <2>1. n \in Nat /\ leg \in Nat
    BY PriceAssumption
  <2> QED BY <1>1, <2>1, DepositMints DEF MsolStep
<1>2. ASSUME NEW n \in StakeDeposits, DepositStakeAccount(n) PROVE MsolStep
  <2>1. n \in Nat
    BY PriceAssumption
  <2> QED BY <1>2, <2>1, DepositStakeMints DEF MsolStep
<1>3. ASSUME NEW m \in OrAll(Orders), OrderUnstake(m) PROVE MsolStep
  <2>1. m \in Nat
    BY PriceAssumption DEF OrAll, PriceTypeOK
  <2> QED BY <1>3, <2>1, OrderUnstakeOrders DEF MsolStep
<1>4. ASSUME NEW m \in Withdrawals, NEW ready \in BOOLEAN, WithdrawStakeAccount(m, ready)
      PROVE  MsolStep
  <2>1. m \in Nat
    BY PriceAssumption
  <2>2. \E lamports, burned \in Nat : Withdrew(lamports, burned)
    BY <1>4, <2>1, WithdrawStakeWithdraws
  <2>3. Withdrawn
    BY <1>4 DEF Withdrawn
  <2> QED BY <2>2, <2>3 DEF MsolStep
<1>5. ASSUME NEW m \in Burns, BurnOutside(m) PROVE MsolStep
  <2>1. m \in Nat
    BY PriceAssumption
  <2> QED BY <1>5, <2>1 DEF MsolStep
<1>6. ASSUME NEW n \in 1 .. circulating, Claim(n) PROVE MsolStep
  BY <1>6 DEF MsolStep
<1>7. CASE Updates \/ UNCHANGED msolVars
  BY <1>7 DEF MsolStep
<1> QED BY <1>1, <1>2, <1>3, <1>4, <1>5, <1>6, <1>7 DEF PriceNext

(* What an update finds is an amount of lamports. *)
LEMMA UpdatesUpdate ==
  ASSUME PriceTypeOK, Updates
  PROVE  \E given, extra, rewards, slashed \in Nat :
         \E cut1 \in 0 .. extra, cut2 \in 0 .. rewards, fee1, fee2 \in Nat :
           /\ Updated(given, extra, rewards, slashed, cut1, cut2, fee1, fee2)
           /\ ~Slashed => slashed = 0
           /\ Slashes \subseteq {0} => slashed = 0
<1>1. PICK given \in Gifts \cup {0}, extra \in Tips \cup {0}, rewards \in Rewards \cup {0},
           slashed \in Slashes \cup {0}, ready \in BOOLEAN :
        Update(given, extra, rewards, slashed, ready)
  BY DEF Updates
<1>2. given \in Nat /\ extra \in Nat /\ rewards \in Nat /\ slashed \in Nat
  BY PriceAssumption
<1>3. \E cut1 \in 0 .. extra, cut2 \in 0 .. rewards, fee1, fee2 \in Nat :
        Updated(given, extra, rewards, slashed, cut1, cut2, fee1, fee2)
  BY <1>1, <1>2, UpdateUpdates
<1>4. ~Slashed => slashed = 0
  <2> SUFFICES ASSUME slashed # 0 PROVE Slashed
    OBVIOUS
  <2>1. rewards = 0 /\ slashed > 0 /\ slashed \in Slashes
    BY <1>1, <1>2 DEF Update
  <2> QED BY <1>1, <2>1 DEF Slashed
<1> QED BY <1>2, <1>3, <1>4

LEMMA StepKeepsTypes ==
  ASSUME PriceTypeOK, MsolStep
  PROVE  PriceTypeOK'
<1>1. /\ controlled \in Nat /\ circulating \in Nat /\ msolSupply \in Nat
      /\ mintSupply \in Nat /\ mintSupply <= msolSupply
  BY DEF PriceTypeOK
<1>2. ASSUME NEW lamports \in Nat, NEW minted \in Nat, Minted(lamports, minted)
      PROVE  PriceTypeOK'
  BY <1>1, <1>2 DEF Minted, PriceTypeOK
<1>3. ASSUME NEW lamports \in Nat, NEW burned \in Nat, Ordered(lamports, burned)
      PROVE  PriceTypeOK'
  BY <1>1, <1>3 DEF Ordered, PriceTypeOK
<1>4. ASSUME NEW lamports \in Nat, NEW burned \in Nat, Withdrew(lamports, burned)
      PROVE  PriceTypeOK'
  <2>1. lamports <= controlled
    BY <1>1, <1>4, VirtualIs DEF Withdrew, Virtual
  <2> QED BY <1>1, <1>4, <2>1 DEF Withdrew, PriceTypeOK
<1>5. ASSUME NEW n \in 1 .. circulating, Claim(n) PROVE PriceTypeOK'
  BY <1>1, <1>5 DEF Claim, PriceTypeOK
<1>6. ASSUME NEW m \in Nat, BurnOutside(m) PROVE PriceTypeOK'
  BY <1>1, <1>6 DEF BurnOutside, PriceTypeOK
<1>7. CASE Updates
  <2>1. PICK given, extra, rewards, slashed \in Nat :
        \E cut1 \in 0 .. extra, cut2 \in 0 .. rewards, fee1, fee2 \in Nat :
          Updated(given, extra, rewards, slashed, cut1, cut2, fee1, fee2)
    BY <1>7, UpdatesUpdate
  <2>2. PICK fee1, fee2 \in Nat :
          /\ slashed <= controlled
          /\ controlled' = controlled + given + extra + rewards - slashed
          /\ circulating' = circulating
          /\ mintSupply' = mintSupply + fee1 + fee2 /\ msolSupply' = mintSupply + fee1 + fee2
    BY <2>1 DEF Updated
  <2> QED BY <1>1, <2>2 DEF PriceTypeOK
<1>8. CASE UNCHANGED msolVars
  BY <1>8 DEF msolVars, PriceTypeOK
<1> QED BY <1>2, <1>3, <1>4, <1>5, <1>6, <1>7, <1>8 DEF MsolStep

(* The amounts stay natural, and no mSOL is minted that is not recorded.     *)
THEOREM PriceTypes == PriceSpec => []PriceTypeOK
<1>1. PriceInit => PriceTypeOK
  BY DEF PriceInit, PriceTypeOK
<1>2. PriceTypeOK /\ [PriceNext]_msolVars => PriceTypeOK'
  BY PriceNextSteps, StepKeepsTypes
<1> QED BY <1>1, <1>2, PTL DEF PriceSpec
-----------------------------------------------------------------------------
(* The price before and after, as products that are compared. *)

LEMMA MintKeepsPrice ==
  ASSUME PriceTypeOK, NEW lamports \in Nat, NEW minted \in Nat, Minted(lamports, minted),
         msolSupply # 0
  PROVE  /\ Virtual' * msolSupply >= Virtual * msolSupply'
         /\ minted * Virtual' <= lamports * msolSupply'
<1> DEFINE V == Virtual
           W == Virtual'
           S == msolSupply
<1>1. V \in Nat /\ S \in Nat \ {0}
  BY Prices DEF PriceTypeOK
<1>2. /\ W \in Nat
      /\ V # 0 => W = V + lamports
      /\ V = 0 => W <= lamports
  <2>1. controlled \in Nat /\ circulating \in Nat
    BY DEF PriceTypeOK
  <2>2. W = SatSub(controlled + lamports, circulating)
    BY DEF Minted, Virtual
  <2>3. V = SatSub(controlled, circulating)
    BY DEF Virtual
  <2> HIDE DEF V, W
  <2> QED BY <2>1, <2>2, <2>3 DEF SatSub
<1>3. msolSupply' = S + minted
  BY DEF Minted
<1>4. /\ V # 0 => minted * V <= lamports * S
      /\ V = 0 => minted <= lamports
  BY DEF Minted
<1> HIDE DEF V, W, S
<1>5. CASE V = 0
  <2>1. W * S >= V * (S + minted)
    BY <1>1, <1>2, <1>5
  <2>2. minted * W <= lamports * (S + minted)
    <3>1. minted * W <= minted * lamports
      BY <1>2, <1>5
    <3>2. minted * lamports <= (S + minted) * lamports
      BY <1>1
    <3>3. (S + minted) * lamports = lamports * (S + minted)
      BY <1>1
    <3>4. minted * W \in Nat /\ minted * lamports \in Nat /\ (S + minted) * lamports \in Nat
      BY <1>1, <1>2
    <3> QED BY <3>1, <3>2, <3>3, <3>4
  <2> QED BY <1>3, <2>1, <2>2 DEF V, W, S
<1>6. CASE V # 0
  <2>1. /\ W * S = V * S + lamports * S
        /\ V * (S + minted) = V * S + minted * V
        /\ minted * W = minted * V + minted * lamports
        /\ lamports * (S + minted) = lamports * S + minted * lamports
    BY <1>1, <1>2, <1>6
  <2>2. /\ V * S \in Nat /\ lamports * S \in Nat /\ minted * V \in Nat
        /\ minted * lamports \in Nat
    BY <1>1
  <2>3. W * S >= V * (S + minted) /\ minted * W <= lamports * (S + minted)
    BY <1>4, <1>6, <2>1, <2>2
  <2> QED BY <1>3, <2>3 DEF V, W, S
<1> QED BY <1>5, <1>6

LEMMA OrderKeepsPrice ==
  ASSUME PriceTypeOK, NEW lamports \in Nat, NEW burned \in Nat, Ordered(lamports, burned)
  PROVE  Virtual' * msolSupply >= Virtual * msolSupply'
<1>1. /\ Virtual \in Nat /\ msolSupply \in Nat
      /\ burned <= msolSupply
  BY Prices DEF PriceTypeOK, Ordered
<1>2. Virtual' = Virtual - lamports
  <2>1. controlled \in Nat /\ circulating \in Nat
    BY DEF PriceTypeOK
  <2>2. /\ Virtual' = SatSub(controlled, circulating + lamports)
        /\ lamports # 0 /\ lamports <= Virtual
    BY DEF Ordered, Virtual
  <2> QED BY <2>1, <2>2 DEF SatSub, Virtual
<1>3. /\ msolSupply' = msolSupply - burned
      /\ lamports * msolSupply <= burned * Virtual
  BY DEF Ordered
<1>4. /\ (Virtual - lamports) * msolSupply = Virtual * msolSupply - lamports * msolSupply
      /\ Virtual * (msolSupply - burned) = Virtual * msolSupply - burned * Virtual
      /\ Virtual * msolSupply \in Nat /\ lamports * msolSupply \in Nat
      /\ burned * Virtual \in Nat
  BY <1>1
<1> QED BY <1>2, <1>3, <1>4

LEMMA WithdrawRounds ==
  ASSUME PriceTypeOK, NEW lamports \in Nat, NEW burned \in Nat, Withdrew(lamports, burned)
  PROVE  Virtual * msolSupply' - Virtual' * msolSupply < Virtual
<1>1. /\ Virtual \in Nat /\ msolSupply \in Nat
      /\ burned <= msolSupply
  BY Prices DEF PriceTypeOK, Withdrew
<1>2. Virtual' = Virtual - lamports
  <2>1. controlled \in Nat /\ circulating \in Nat
    BY DEF PriceTypeOK
  <2>2. /\ Virtual' = SatSub(controlled - lamports, circulating)
        /\ lamports # 0 /\ lamports <= Virtual
    BY DEF Withdrew, Virtual
  <2> QED BY <2>1, <2>2 DEF SatSub, Virtual
<1>3. /\ msolSupply' = msolSupply - burned
      /\ lamports * msolSupply < burned * Virtual + Virtual
  BY DEF Withdrew
<1>4. /\ (Virtual - lamports) * msolSupply = Virtual * msolSupply - lamports * msolSupply
      /\ Virtual * (msolSupply - burned) = Virtual * msolSupply - burned * Virtual
      /\ Virtual * msolSupply \in Nat /\ lamports * msolSupply \in Nat
      /\ burned * Virtual \in Nat
  BY <1>1
<1> QED BY <1>1, <1>2, <1>3, <1>4

(* The two fees of an update, of the price V before it and the supply M: the *)
(* lamports found make the first fee, at V1, and those earned the second.    *)
LEMMA FeesKeepPrice ==
  ASSUME NEW V \in Nat \ {0}, NEW M \in Nat \ {0}, NEW V1 \in Nat,
         NEW found \in Nat, V1 = V + found, NEW r \in Nat,
         NEW c1 \in 0 .. found, NEW c2 \in 0 .. r, NEW k1 \in Nat, NEW k2 \in Nat,
         V1 * k1 <= c1 * M, V1 * k2 <= c2 * (M + k1)
  PROVE  V * (M + k1 + k2) <= (V1 + r) * M
<1> DEFINE A == M + k1
<1>0. A \in Nat
  OBVIOUS
<1>1. V * A <= V1 * M
  <2>1. V * k1 <= V1 * k1
    OBVIOUS
  <2>2. c1 * M <= found * M
    OBVIOUS
  <2>3. V * A = V * M + V * k1 /\ V1 * M = V * M + found * M
    OBVIOUS
  <2>4. /\ V * k1 \in Nat /\ V1 * k1 \in Nat /\ c1 * M \in Nat /\ found * M \in Nat
        /\ V * M \in Nat
    OBVIOUS
  <2> QED BY <2>1, <2>2, <2>3, <2>4
<1> HIDE DEF A
<1>2. V * k2 <= r * M
  <2>1. V1 * (V * k2) <= V1 * (r * M)
    <3>1. V1 * (V * k2) = V * (V1 * k2)
      OBVIOUS
    <3>2. V * (V1 * k2) <= V * (c2 * A)
      <4>1. V1 * k2 <= c2 * A /\ V1 * k2 \in Nat /\ c2 * A \in Nat
        BY <1>0 DEF A
      <4> HIDE DEF A
      <4> QED BY <4>1
    <3>3. V * (c2 * A) = c2 * (V * A)
      BY <1>0
    <3>4. c2 * (V * A) <= c2 * (V1 * M)
      <4>1. V * A \in Nat /\ V1 * M \in Nat
        BY <1>0
      <4> QED BY <1>1, <4>1
    <3>5. c2 * (V1 * M) <= r * (V1 * M)
      <4>1. V1 * M \in Nat
        OBVIOUS
      <4> QED BY <4>1
    <3>6. r * (V1 * M) = V1 * (r * M)
      OBVIOUS
    <3>7. /\ V * (V1 * k2) \in Nat /\ V * (c2 * A) \in Nat /\ c2 * (V1 * M) \in Nat
          /\ r * (V1 * M) \in Nat
      BY <1>0
    <3> QED BY <3>1, <3>2, <3>3, <3>4, <3>5, <3>6, <3>7
  <2>2. V * k2 \in Nat /\ r * M \in Nat /\ V1 \in Nat \ {0}
    OBVIOUS
  <2> DEFINE x == V * k2
             y == r * M
  <2> HIDE DEF x, y
  <2>3. V1 * x <= V1 * y /\ x \in Nat /\ y \in Nat
    BY <2>1, <2>2 DEF x, y
  <2>4. x <= y
    BY <2>2, <2>3
  <2> QED BY <2>4 DEF x, y
<1>3. V * (M + k1 + k2) = V * A + V * k2 /\ (V1 + r) * M = V1 * M + r * M
  BY DEF A
<1>4. V * A \in Nat /\ V * k2 \in Nat /\ V1 * M \in Nat /\ r * M \in Nat
  BY <1>0
<1> QED BY <1>1, <1>2, <1>3, <1>4

LEMMA SmallerFactor ==
  ASSUME NEW x \in Nat, NEW y \in Nat, NEW f \in Nat \ {0}, f * x < f * y
  PROVE  x < y
OBVIOUS

(* What the fees mint is worth no more afterwards than what was found and    *)
(* earned.  The second fee is taken at the price the first has lowered; that *)
(* is made up for by what the first was rounded down.                        *)
LEMMA FeesGainNothing ==
  ASSUME NEW V1 \in Nat \ {0}, NEW M \in Nat \ {0},
         NEW e \in Nat, NEW r \in Nat,
         NEW c1 \in 0 .. e, NEW c2 \in 0 .. r, NEW k1 \in Nat, NEW k2 \in Nat,
         V1 * k1 <= c1 * M, V1 * k2 <= c2 * (M + k1), c2 * (M + k1) < V1 * k2 + V1
  PROVE  (k1 + k2) * (V1 + r) <= (e + r) * (M + (k1 + k2))
<1>1. c2 * k1 <= e * (k1 + k2)
  <2>1. CASE k1 = 0
    BY <2>1
  <2>2. CASE k1 # 0
    <3>1. c1 # 0
      <4>1. V1 * k1 # 0
        BY <2>2
      <4>2. c1 = 0 => c1 * M = 0
        OBVIOUS
      <4>3. V1 * k1 \in Nat
        OBVIOUS
      <4> QED BY <4>1, <4>2, <4>3
    <3>2. e \in Nat \ {0}
      BY <3>1
    <3>3. V1 * (c2 * k1) < V1 * (e * k2 + e)
      <4>1. V1 * (c2 * k1) = c2 * (V1 * k1) /\ V1 * (e * k2 + e) = e * (V1 * k2 + V1)
        OBVIOUS
      <4>2. c2 * (V1 * k1) <= c2 * (c1 * M)
        <5>1. V1 * k1 \in Nat /\ c1 * M \in Nat
          OBVIOUS
        <5> QED BY <5>1
      <4>3. c2 * (c1 * M) <= c2 * (e * M)
        <5>1. c1 * M <= e * M /\ c1 * M \in Nat /\ e * M \in Nat
          OBVIOUS
        <5> QED BY <5>1
      <4>4. c2 * (e * M) = e * (c2 * M)
        OBVIOUS
      <4>5. e * (c2 * M) <= e * (c2 * (M + k1))
        <5>1. c2 * M <= c2 * (M + k1) /\ c2 * M \in Nat /\ c2 * (M + k1) \in Nat
          OBVIOUS
        <5> QED BY <5>1
      <4>6. e * (c2 * (M + k1)) < e * (V1 * k2 + V1)
        <5>1. c2 * (M + k1) \in Nat /\ V1 * k2 + V1 \in Nat
          OBVIOUS
        <5> QED BY <3>2, <5>1
      <4>7. /\ c2 * (V1 * k1) \in Nat /\ c2 * (c1 * M) \in Nat /\ c2 * (e * M) \in Nat
            /\ e * (c2 * (M + k1)) \in Nat /\ e * (V1 * k2 + V1) \in Nat
        OBVIOUS
      <4> QED BY <4>1, <4>2, <4>3, <4>4, <4>5, <4>6, <4>7
    <3>4. c2 * k1 < e * k2 + e
      <4>1. c2 * k1 \in Nat /\ e * k2 + e \in Nat
        OBVIOUS
      <4> QED BY <3>3, <4>1, SmallerFactor
    <3>5. e * k2 + e <= e * (k1 + k2)
      BY <2>2
    <3>6. c2 * k1 \in Nat /\ e * k2 + e \in Nat /\ e * (k1 + k2) \in Nat
      OBVIOUS
    <3> QED BY <3>4, <3>5, <3>6
  <2> QED BY <2>1, <2>2
<1>2. /\ (k1 + k2) * (V1 + r) = V1 * k1 + V1 * k2 + (k1 + k2) * r
      /\ c2 * (M + k1) = c2 * M + c2 * k1
      /\ (e + r) * (M + (k1 + k2)) = e * M + r * M + e * (k1 + k2) + (k1 + k2) * r
  OBVIOUS
<1>3. c1 * M <= e * M /\ c2 * M <= r * M
  OBVIOUS
<1>4. /\ V1 * k1 \in Nat /\ V1 * k2 \in Nat /\ (k1 + k2) * r \in Nat
      /\ c1 * M \in Nat /\ c2 * M \in Nat /\ e * M \in Nat /\ r * M \in Nat
      /\ c2 * k1 \in Nat /\ e * (k1 + k2) \in Nat /\ c2 * (M + k1) \in Nat
  OBVIOUS
<1> QED BY <1>1, <1>2, <1>3, <1>4

LEMMA UpdateKeepsPrice ==
  ASSUME PriceTypeOK, mintSupply # 0,
         NEW given \in Nat, NEW extra \in Nat, NEW rewards \in Nat,
         NEW cut1 \in 0 .. extra, NEW cut2 \in 0 .. rewards, NEW fee1 \in Nat, NEW fee2 \in Nat,
         Updated(given, extra, rewards, 0, cut1, cut2, fee1, fee2)
  PROVE  /\ Virtual' * msolSupply >= Virtual * msolSupply'
         /\ (fee1 + fee2) * Virtual' <= (given + extra + rewards) * msolSupply'
<1> DEFINE V == Virtual
           W == Virtual'
           V1 == Found(given, extra)
           M == mintSupply
           S == msolSupply
           K == fee1 + fee2
           d == given + extra + rewards
<1>1. V \in Nat /\ M \in Nat \ {0} /\ S \in Nat /\ M <= S
  BY Prices DEF PriceTypeOK
<1>2. msolSupply' = M + K
  BY <1>1 DEF Updated
<1>3. /\ V1 \in Nat /\ W \in Nat
      /\ V # 0 => V1 = V + (given + extra)
      /\ V1 # 0 => W = V1 + rewards
      /\ V1 = 0 => W <= rewards
  <2>1. controlled \in Nat /\ circulating \in Nat
    BY DEF PriceTypeOK
  <2>2. W = SatSub(controlled + given + extra + rewards - 0, circulating)
    BY DEF Updated, Virtual
  <2>3. V = SatSub(controlled, circulating)
    BY DEF Virtual
  <2>4. V1 = SatSub(controlled + given + extra, circulating)
    BY DEF Found
  <2> HIDE DEF V, W, V1
  <2> QED BY <2>1, <2>2, <2>3, <2>4 DEF SatSub
<1>4. /\ V1 # 0 => /\ V1 * fee1 <= cut1 * M
                   /\ V1 * fee2 <= cut2 * (M + fee1)
                   /\ cut2 * (M + fee1) < V1 * fee2 + V1
  BY <1>1 DEF Updated, Fee
<1> HIDE DEF V, W, V1, M, S
<1>5. W * S >= V * (M + K)
  <2>1. CASE V = 0
    <3>1. V * (M + K) = 0 /\ W * S \in Nat
      BY <1>1, <1>3, <2>1
    <3> QED BY <3>1
  <2>2. CASE V # 0
    <3>1. V1 # 0 /\ V1 = V + (given + extra) /\ W = V1 + rewards
      BY <1>1, <1>3, <2>2
    <3>2. cut1 \in 0 .. given + extra
      OBVIOUS
    <3>3. V * (M + fee1 + fee2) <= (V1 + rewards) * M
      <4>1. V \in Nat \ {0} /\ given + extra \in Nat
        BY <1>1, <2>2
      <4> QED BY <1>1, <1>3, <1>4, <3>1, <3>2, <4>1, FeesKeepPrice
    <3>4. W * M <= W * S
      BY <1>1, <1>3
    <3>5. V * (M + K) \in Nat /\ W * M \in Nat /\ W * S \in Nat /\ M + K = M + fee1 + fee2
      BY <1>1, <1>3
    <3> QED BY <3>1, <3>3, <3>4, <3>5
  <2> QED BY <2>1, <2>2
<1>6. K * W <= d * (M + K)
  <2>1. K \in Nat /\ d \in Nat
    OBVIOUS
  <2>2. CASE V1 = 0
    <3> HIDE DEF K, d
    <3>1. K * W <= K * rewards
      BY <1>3, <2>1, <2>2
    <3>2. rewards * K <= d * K
      BY <2>1 DEF d
    <3>3. d * K <= d * (M + K)
      BY <1>1, <2>1
    <3>4. K * rewards = rewards * K
      BY <2>1
    <3>5. K * W \in Nat /\ rewards * K \in Nat /\ d * K \in Nat /\ d * (M + K) \in Nat
      BY <1>1, <1>3, <2>1
    <3> QED BY <3>1, <3>2, <3>3, <3>4, <3>5
  <2>3. CASE V1 # 0
    <3>1. V1 \in Nat \ {0} /\ W = V1 + rewards
      BY <1>3, <2>3
    <3>2. K * (V1 + rewards) <= (extra + rewards) * (M + K)
      BY <1>1, <1>4, <2>3, <3>1, FeesGainNothing
    <3>3. (extra + rewards) * (M + K) <= d * (M + K)
      BY <1>1
    <3> HIDE DEF K, d
    <3>4. /\ K * W \in Nat /\ (extra + rewards) * (M + K) \in Nat /\ d * (M + K) \in Nat
      BY <1>1, <1>3, <2>1
    <3> QED BY <3>1, <3>2, <3>3, <3>4
  <2> QED BY <2>2, <2>3
<1> QED BY <1>2, <1>5, <1>6 DEF V, W, S, M
-----------------------------------------------------------------------------
LEMMA SameDifference ==
  ASSUME NEW c \in Nat, NEW t \in Nat, NEW d \in Nat, NEW u \in Nat, c + u = d + t
  PROVE  SatSub(c, t) = SatSub(d, u)
BY DEF SatSub

(* No step lowers the price, but a withdrawn stake by its rounding; and no   *)
(* mint is worth more than what came with it.                                *)
LEMMA StepKeepsPrice ==
  ASSUME PriceTypeOK, MsolStep, Priced, ~Slashed
  PROVE  /\ \/ Virtual' * msolSupply >= Virtual * msolSupply'
            \/ Withdrawn /\ Virtual * msolSupply' - Virtual' * msolSupply < Virtual
         /\ mintSupply' > mintSupply =>
              (mintSupply' - mintSupply) * Virtual' <= SatSub(controlled', controlled) * msolSupply'
<1> DEFINE Fair == Virtual' * msolSupply >= Virtual * msolSupply'
           Paid == mintSupply' > mintSupply =>
                     (mintSupply' - mintSupply) * Virtual'
                       <= SatSub(controlled', controlled) * msolSupply'
<1>0. /\ controlled \in Nat /\ circulating \in Nat /\ msolSupply \in Nat
      /\ mintSupply \in Nat /\ mintSupply <= msolSupply /\ msolSupply # 0
      /\ Virtual \in Nat
  BY Prices DEF PriceTypeOK, Priced
<1>1. ASSUME NEW lamports \in Nat, NEW minted \in Nat, Minted(lamports, minted)
      PROVE  Fair /\ Paid
  <2>1. Fair /\ minted * Virtual' <= lamports * msolSupply'
    BY <1>0, <1>1, MintKeepsPrice
  <2>2. mintSupply' - mintSupply = minted /\ SatSub(controlled', controlled) = lamports
    BY <1>0, <1>1 DEF Minted, SatSub
  <2> QED BY <2>1, <2>2
<1>2. ASSUME NEW lamports \in Nat, NEW burned \in Nat, Ordered(lamports, burned)
      PROVE  Fair /\ Paid
  <2>1. Fair
    BY <1>2, OrderKeepsPrice
  <2>2. ~(mintSupply' > mintSupply)
    BY <1>0, <1>2 DEF Ordered
  <2> QED BY <2>1, <2>2
<1>3. ASSUME NEW lamports \in Nat, NEW burned \in Nat, Withdrew(lamports, burned)
      PROVE  Virtual * msolSupply' - Virtual' * msolSupply < Virtual /\ Paid
  <2>1. ~(mintSupply' > mintSupply)
    BY <1>0, <1>3 DEF Withdrew
  <2> QED BY <1>3, <2>1, WithdrawRounds
<1>4. ASSUME /\ controlled' + circulating = controlled + circulating'
             /\ controlled' \in Nat /\ circulating' \in Nat
             /\ msolSupply' = msolSupply
             /\ ~(mintSupply' > mintSupply)
      PROVE  Fair /\ Paid
  <2>1. Virtual' = Virtual
    <3>1. /\ controlled' + circulating = controlled + circulating'
          /\ controlled' \in Nat /\ circulating' \in Nat
      BY <1>4
    <3>2. SatSub(controlled', circulating') = SatSub(controlled, circulating)
      BY <1>0, <3>1, SameDifference
    <3> QED BY <3>2 DEF Virtual
  <2>2. Virtual' * msolSupply = Virtual * msolSupply' /\ Virtual' * msolSupply \in Nat
    BY <1>0, <1>4, <2>1
  <2> QED BY <1>4, <2>2
<1>5. ASSUME NEW n \in 1 .. circulating, Claim(n) PROVE Fair /\ Paid
  <2>1. /\ controlled' + circulating = controlled + circulating'
        /\ controlled' \in Nat /\ circulating' \in Nat
        /\ msolSupply' = msolSupply /\ ~(mintSupply' > mintSupply)
    BY <1>0, <1>5 DEF Claim
  <2> QED BY <1>4, <2>1
<1>6. ASSUME NEW m \in Nat, BurnOutside(m) PROVE Fair /\ Paid
  <2>1. /\ controlled' + circulating = controlled + circulating'
        /\ controlled' \in Nat /\ circulating' \in Nat
        /\ msolSupply' = msolSupply /\ ~(mintSupply' > mintSupply)
    BY <1>0, <1>6 DEF BurnOutside
  <2> QED BY <1>4, <2>1
<1>7. ASSUME UNCHANGED msolVars PROVE Fair /\ Paid
  <2>1. /\ controlled' + circulating = controlled + circulating'
        /\ controlled' \in Nat /\ circulating' \in Nat
        /\ msolSupply' = msolSupply /\ ~(mintSupply' > mintSupply)
    BY <1>0, <1>7 DEF msolVars
  <2> QED BY <1>4, <2>1
<1>8. ASSUME Updates PROVE Fair /\ Paid
  <2>1. mintSupply # 0
    BY <1>8 DEF Priced
  <2>2. PICK given, extra, rewards, slashed \in Nat :
        \E cut1 \in 0 .. extra, cut2 \in 0 .. rewards, fee1, fee2 \in Nat :
          /\ Updated(given, extra, rewards, slashed, cut1, cut2, fee1, fee2)
          /\ slashed = 0
    BY <1>8, UpdatesUpdate
  <2>3. PICK cut1 \in 0 .. extra, cut2 \in 0 .. rewards, fee1 \in Nat, fee2 \in Nat :
          Updated(given, extra, rewards, 0, cut1, cut2, fee1, fee2)
    BY <2>2
  <2>4. Fair /\ (fee1 + fee2) * Virtual' <= (given + extra + rewards) * msolSupply'
    BY <2>1, <2>3, UpdateKeepsPrice
  <2>5. /\ mintSupply' - mintSupply = fee1 + fee2
        /\ SatSub(controlled', controlled) = given + extra + rewards
    BY <1>0, <2>3 DEF Updated, SatSub
  <2> QED BY <2>4, <2>5
<1> QED BY <1>1, <1>2, <1>3, <1>5, <1>6, <1>7, <1>8 DEF MsolStep

LEMMA StepRounds ==
  ASSUME PriceTypeOK, MsolStep, Priced, ~Slashed, Virtual > 0
  PROVE  Virtual * msolSupply' - Virtual' * msolSupply < Virtual
<1>1. PriceTypeOK'
  BY StepKeepsTypes
<1>2. /\ Virtual \in Nat /\ msolSupply \in Nat /\ Virtual' \in Nat /\ msolSupply' \in Nat
  <2>1. Virtual' \in Nat
    BY <1>1, VirtualIs DEF PriceTypeOK, Virtual
  <2> QED BY <1>1, <2>1, Prices DEF PriceTypeOK
<1> DEFINE V == Virtual
           W == Virtual'
           S == msolSupply
           T == msolSupply'
<1>3. V \in Nat /\ W \in Nat /\ S \in Nat /\ T \in Nat /\ V > 0
  BY <1>2
<1>4. W * S >= V * T \/ V * T - W * S < V
  BY StepKeepsPrice
<1> HIDE DEF V, W, S, T
<1>5. V * T \in Nat /\ W * S \in Nat
  BY <1>3
<1>6. V * T - W * S < V
  BY <1>3, <1>4, <1>5
<1> QED BY <1>6 DEF V, W, S, T

(* No step lowers the price of mSOL, slashing and the rounding of a          *)
(* withdrawn stake apart: not for any amounts, fees or supply.               *)
THEOREM PriceNeverLowered == PriceSpec => PriceNeverFalls
<1>1. ASSUME PriceTypeOK, [PriceNext]_msolVars, Priced, ~Slashed, ~Withdrawn
      PROVE  Virtual' * msolSupply >= Virtual * msolSupply'
  BY <1>1, PriceNextSteps, StepKeepsPrice
<1> QED BY <1>1, PriceTypes, PTL DEF PriceSpec, PriceNeverFalls

(* A withdrawn stake lowers it by less than the worth of one unit of mSOL.   *)
THEOREM RoundingAlwaysBounded == PriceSpec => RoundingBounded
<1>1. ASSUME PriceTypeOK, [PriceNext]_msolVars, Priced, ~Slashed, Virtual > 0
      PROVE  Virtual * msolSupply' - Virtual' * msolSupply < Virtual
  BY <1>1, PriceNextSteps, StepRounds
<1> QED BY <1>1, PriceTypes, PTL DEF PriceSpec, RoundingBounded

(* Who is minted mSOL, a depositor or the treasury, gets no more than came   *)
(* in, at the price that is left behind.                                     *)
THEOREM MintNeverEnriches == PriceSpec => MintNeverGains
<1>1. ASSUME PriceTypeOK, [PriceNext]_msolVars, Priced, ~Slashed, mintSupply' > mintSupply
      PROVE  (mintSupply' - mintSupply) * Virtual' <= SatSub(controlled', controlled) * msolSupply'
  BY <1>1, PriceNextSteps, StepKeepsPrice
<1> QED BY <1>1, PriceTypes, PTL DEF PriceSpec, MintNeverGains
-----------------------------------------------------------------------------
NeverSlashed == Slashes \subseteq {0}

LEMMA StepImplementsVault ==
  ASSUME NeverSlashed, PriceTypeOK, MsolStep, ~UNCHANGED msolVars
  PROVE  PriceVault!Next \/ UNCHANGED PriceVault!vars
<1>0. controlled \in Nat /\ circulating \in Nat /\ mintSupply \in Nat
  BY DEF PriceTypeOK
<1>1. ASSUME NEW lamports \in Nat, NEW minted \in Nat, Minted(lamports, minted)
      PROVE  PriceVault!Earn
  BY <1>0, <1>1 DEF Minted, PriceVault!Earn
<1>2. ASSUME NEW lamports \in Nat, NEW burned \in Nat, Ordered(lamports, burned)
      PROVE  PriceVault!Promise
  <2>1. lamports # 0 /\ lamports <= SatSub(controlled, circulating)
    BY <1>2 DEF Ordered, Virtual
  <2>2. circulating + lamports <= controlled
    BY <1>0, <2>1 DEF SatSub
  <2> QED BY <1>0, <1>2, <2>1, <2>2 DEF Ordered, PriceVault!Promise
<1>3. ASSUME NEW lamports \in Nat, NEW burned \in Nat, Withdrew(lamports, burned), Withdrawn
      PROVE  PriceVault!Release
  <2>1. lamports # 0 /\ lamports <= SatSub(controlled, circulating)
    BY <1>3 DEF Withdrew, Virtual
  <2>2. circulating <= controlled - lamports
    BY <1>0, <2>1 DEF SatSub
  <2>3. Withdrawals # {}
    BY <1>3 DEF Withdrawn
  <2> QED BY <1>0, <1>3, <2>1, <2>2, <2>3 DEF Withdrew, PriceVault!Release
<1>4. ASSUME NEW n \in 1 .. circulating, Claim(n)
      PROVE  PriceVault!Pay
  BY <1>0, <1>4 DEF Claim, PriceVault!Pay
<1>5. ASSUME NEW m \in Nat, BurnOutside(m)
      PROVE  UNCHANGED PriceVault!vars
  BY <1>5 DEF BurnOutside, PriceVault!vars
<1>6. ASSUME Updates
      PROVE  PriceVault!Earn
  <2>1. PICK given, extra, rewards, slashed \in Nat :
        \E cut1 \in 0 .. extra, cut2 \in 0 .. rewards, fee1, fee2 \in Nat :
          /\ Updated(given, extra, rewards, slashed, cut1, cut2, fee1, fee2)
          /\ slashed = 0
    BY <1>6, UpdatesUpdate DEF NeverSlashed
  <2>2. /\ controlled' = controlled + given + extra + rewards - 0
        /\ circulating' = circulating
    BY <2>1 DEF Updated
  <2> QED BY <1>0, <2>2 DEF PriceVault!Earn
<1> QED BY <1>1, <1>2, <1>3, <1>4, <1>5, <1>6 DEF MsolStep, PriceVault!Next

(* As long as no stake is slashed the mSOL side implements the vault too:    *)
(* tickets promise no more than there is on the books, and lamports leave    *)
(* only for them and for stakes withdrawn.                                   *)
THEOREM PriceImplementsVault ==
  ASSUME NeverSlashed
  PROVE  PriceSpec => ImplementsVault
<1>1. PriceInit => PriceVault!Init
  BY DEF PriceInit, PriceVault!Init
<1>2. ASSUME PriceTypeOK, [PriceNext]_msolVars
      PROVE  [PriceVault!Next]_(PriceVault!vars)
  <2>1. CASE UNCHANGED msolVars
    BY <2>1 DEF msolVars, PriceVault!vars
  <2>2. CASE ~UNCHANGED msolVars
    BY <1>2, <2>2, PriceNextSteps, StepImplementsVault
  <2> QED BY <2>1, <2>2
<1> QED BY <1>1, <1>2, PriceTypes, PTL DEF PriceSpec, ImplementsVault, PriceVault!Spec
-----------------------------------------------------------------------------
(* The pool.  Its fee is between the two configured, and falls with what is  *)
(* left of the liquidity.                                                    *)
LEMMA PoolFees ==
  /\ LpMinFee \in Nat /\ LpMaxFee \in Nat /\ LpMinFee <= LpMaxFee /\ LpMaxFee <= MaxBasisPoints
  /\ TreasuryCut \in 0 .. MaxBasisPoints
  /\ \A c \in 0 .. MaxBasisPoints : \A n \in Nat : FeeBp(c, n) \in 0 .. n
<1>1. /\ LpMaxFee \in 0 .. MaxBasisPoints /\ LpMinFee \in 0 .. LpMaxFee
      /\ TreasuryCut \in 0 .. MaxBasisPoints
  BY PoolAssumption
<1>2. \A c \in 0 .. MaxBasisPoints : \A n \in Nat : FeeBp(c, n) \in 0 .. n
  BY FeesAreShares, Share DEF FeeBp
<1> QED BY <1>1, <1>2, FeesAreShares

LEMMA LinearFeeFalls ==
  /\ \A n \in Nat : LinearFee(n) \in LpMinFee .. LpMaxFee
  /\ \A n, m \in Nat : n <= m => LinearFee(m) <= LinearFee(n)
<1> DEFINE Cut(n) == ((LpMaxFee - LpMinFee) * n) \div LiquidityTarget
<1>1. /\ LpMinFee \in Nat /\ LpMaxFee \in Nat /\ LpMinFee <= LpMaxFee
      /\ LiquidityTarget \in Nat \ {0}
  BY PoolFees, PoolAssumption
<1>2. \A n : LinearFee(n) = IF n >= LiquidityTarget THEN LpMinFee ELSE LpMaxFee - Cut(n)
  BY <1>1 DEF LinearFee, Proportional, SatSub
<1>3. \A n \in Nat : n < LiquidityTarget => Cut(n) \in 0 .. (LpMaxFee - LpMinFee)
  <2> SUFFICES ASSUME NEW n \in Nat, n < LiquidityTarget
               PROVE  Cut(n) \in 0 .. (LpMaxFee - LpMinFee)
    OBVIOUS
  <2> QED BY <1>1, Share
<1>4. \A n, m \in Nat : n <= m => Cut(n) <= Cut(m)
  <2> SUFFICES ASSUME NEW n \in Nat, NEW m \in Nat, n <= m PROVE Cut(n) <= Cut(m)
    OBVIOUS
  <2>1. /\ (LpMaxFee - LpMinFee) * n \in Nat /\ (LpMaxFee - LpMinFee) * m \in Nat
        /\ (LpMaxFee - LpMinFee) * n <= (LpMaxFee - LpMinFee) * m
    BY <1>1
  <2> QED BY <1>1, <2>1, ShareMonotone
<1> HIDE DEF Cut
<1>5. \A n \in Nat : LinearFee(n) \in LpMinFee .. LpMaxFee
  BY <1>1, <1>2, <1>3
<1>6. ASSUME NEW n \in Nat, NEW m \in Nat, n <= m PROVE LinearFee(m) <= LinearFee(n)
  <2>1. CASE m >= LiquidityTarget
    BY <1>1, <1>2, <1>5, <2>1
  <2>2. CASE m < LiquidityTarget
    <3>1. n < LiquidityTarget /\ Cut(n) <= Cut(m)
      BY <1>1, <1>4, <1>6, <2>2
    <3>2. Cut(n) \in Nat /\ Cut(m) \in Nat
      BY <1>1, <1>3, <2>2, <3>1
    <3>3. LinearFee(n) = LpMaxFee - Cut(n) /\ LinearFee(m) = LpMaxFee - Cut(m)
      BY <1>1, <1>2, <2>2, <3>1
    <3> QED BY <1>1, <3>1, <3>2, <3>3
  <2> QED BY <1>1, <2>1, <2>2
<1> QED BY <1>5, <1>6

(* What is taken of m mSOL sold: the fee, and of the fee the treasury's cut. *)
LEMMA UnstakeFees ==
  ASSUME PoolTypeOK, NEW m \in Nat, NEW ready \in BOOLEAN
  PROVE  /\ MsolToSol(m) \in Nat
         /\ FeeOfLiquidityAfter(m) \in LpMinFee .. LpMaxFee
         /\ FeeBp(FeeOfLiquidityAfter(m), m) \in 0 .. m
         /\ \A fee \in 0 .. m : TakenIn(m, fee, ready) \in (m - fee) .. m
<1>1. MsolToSol(m) \in Nat /\ solLeg \in Nat
  BY Prices DEF PoolTypeOK
<1>2. FeeOfLiquidityAfter(m) \in LpMinFee .. LpMaxFee
  <2>1. LpMaxFee \in LpMinFee .. LpMaxFee
    BY PoolFees
  <2>2. ~(MsolToSol(m) >= solLeg) => solLeg - MsolToSol(m) \in Nat
    BY <1>1
  <2> QED BY <2>1, <2>2, LinearFeeFalls DEF FeeOfLiquidityAfter
<1>3. FeeBp(FeeOfLiquidityAfter(m), m) \in 0 .. m
  <2>1. FeeOfLiquidityAfter(m) \in 0 .. MaxBasisPoints
    BY <1>2, PoolFees, FeesAreShares
  <2> QED BY <2>1, PoolFees
<1>4. ASSUME NEW fee \in 0 .. m PROVE TakenIn(m, fee, ready) \in (m - fee) .. m
  <2>1. FeeBp(TreasuryCut, fee) \in 0 .. fee
    BY PoolFees
  <2> QED BY <2>1 DEF TakenIn
<1> QED BY <1>1, <1>2, <1>3, <1>4

LEMMA Shared ==
  ASSUME NEW t \in Nat, NEW leg \in Nat, NEW total \in Nat
  PROVE  /\ Proportional(t, leg, total) \in Nat
         /\ total # 0 => total * Proportional(t, leg, total) <= t * leg
<1>1. t * leg \in Nat
  OBVIOUS
<1>2. CASE total = 0
  BY <1>2 DEF Proportional
<1>3. CASE total # 0
  <2>1. Proportional(t, leg, total) = (t * leg) \div total
    BY <1>3 DEF Proportional
  <2> QED BY <1>1, <1>3, <2>1, RoundedDown
<1> QED BY <1>2, <1>3

LEMMA PoolNumbers ==
  ASSUME PoolTypeOK
  PROVE  /\ PriceTypeOK
         /\ solLeg \in Nat /\ msolLeg \in Nat /\ msolLeg <= mintSupply
         /\ mintSupply \in Nat /\ mintSupply <= msolSupply
         /\ lpSupply \in Nat /\ lpMint \in Nat /\ lpMint <= lpSupply
         /\ LpTotal = lpMint
         /\ PoolValue \in Nat
<1>1. /\ PriceTypeOK
      /\ solLeg \in Nat /\ msolLeg \in Nat /\ msolLeg <= mintSupply
      /\ mintSupply \in Nat /\ mintSupply <= msolSupply
      /\ lpSupply \in Nat /\ lpMint \in Nat /\ lpMint <= lpSupply
  BY DEF PoolTypeOK, PriceTypeOK
<1>2. LpTotal = lpMint
  BY <1>1 DEF LpTotal
<1>3. PoolValue \in Nat
  BY <1>1, Prices DEF PoolValue
<1> QED BY <1>1, <1>2, <1>3

(* With the pool the same happens to the mSOL. *)
LEMMA PoolNextSteps ==
  ASSUME PoolTypeOK, [PoolNext]_liqVars
  PROVE  MsolStep
<1>0. PriceTypeOK /\ msolLeg \in Nat
  BY PoolNumbers
<1>1. ASSUME NEW n \in Deposits, DepositSol(n) PROVE MsolStep
  <2>1. n \in Nat /\ Deposit(n, msolLeg)
    BY <1>1, PriceAssumption DEF DepositSol
  <2> QED BY <1>0, <2>1, DepositMints DEF MsolStep
<1>2. ASSUME NEW n \in StakeDeposits, DepositStakeAccount(n) PROVE MsolStep
  <2>1. n \in Nat
    BY PriceAssumption
  <2> QED BY <1>0, <1>2, <2>1, DepositStakeMints DEF MsolStep
<1>3. ASSUME NEW m \in Orders, OrderUnstake(m) PROVE MsolStep
  <2>1. m \in Nat
    BY PriceAssumption
  <2> QED BY <1>0, <1>3, <2>1, OrderUnstakeOrders DEF MsolStep
<1>4. ASSUME NEW m \in Withdrawals, NEW ready \in BOOLEAN, WithdrawStakeAccount(m, ready)
      PROVE  MsolStep
  <2>1. m \in Nat
    BY PriceAssumption
  <2>2. \E lamports, burned \in Nat : Withdrew(lamports, burned)
    BY <1>0, <1>4, <2>1, WithdrawStakeWithdraws
  <2>3. Withdrawn
    BY <1>4 DEF Withdrawn
  <2> QED BY <2>2, <2>3 DEF MsolStep
<1>5. ASSUME NEW m \in Burns, BurnOutside(m) PROVE MsolStep
  <2>1. m \in Nat
    BY PriceAssumption
  <2> QED BY <1>5, <2>1 DEF MsolStep
<1>6. ASSUME NEW n \in 1 .. circulating, Claim(n) PROVE MsolStep
  BY <1>6 DEF MsolStep
<1>7. CASE CoreStep
  BY <1>2, <1>3, <1>4, <1>5, <1>6, <1>7 DEF CoreStep, MsolStep
<1>8. CASE UNCHANGED msolVars
  BY <1>8 DEF MsolStep
<1>9. CASE \/ \E n \in Additions : AddLiquidity(n)
           \/ \E t \in Removals \cup {lpMint} : RemoveLiquidity(t)
           \/ \E m \in Unstakes, ready \in BOOLEAN : LiquidUnstake(m, ready)
           \/ \E t \in Removals : BurnLp(t)
           \/ \E n \in Gifts : GiveSol(n)
           \/ \E m \in Burns : GiveMsol(m)
  <2>1. UNCHANGED msolVars
    BY <1>9, Zenon DEF AddLiquidity, RemoveLiquidity, LiquidUnstake, BurnLp, GiveSol, GiveMsol
  <2> QED BY <1>8, <2>1
<1>10. CASE UNCHANGED liqVars
  <2>1. UNCHANGED msolVars
    BY <1>10 DEF liqVars
  <2> QED BY <1>8, <2>1
<1> QED BY <1>1, <1>7, <1>9, <1>10 DEF PoolNext

LEMMA PoolStepKeepsTypes ==
  ASSUME PoolTypeOK, [PoolNext]_liqVars
  PROVE  PoolTypeOK'
<1>0. /\ PriceTypeOK
      /\ solLeg \in Nat /\ msolLeg \in Nat /\ msolLeg <= mintSupply
      /\ mintSupply \in Nat /\ mintSupply <= msolSupply
      /\ lpSupply \in Nat /\ lpMint \in Nat /\ lpMint <= lpSupply
      /\ LpTotal = lpMint /\ PoolValue \in Nat
  BY PoolNumbers
<1>1. PriceTypeOK'
  BY <1>0, PoolNextSteps, StepKeepsTypes
<1>2. mintSupply' \in Nat
  BY <1>1 DEF PriceTypeOK
<1> DEFINE LegsOK == solLeg' \in Nat /\ msolLeg' \in Nat /\ msolLeg' <= mintSupply'
           LpOK == lpSupply' \in Nat /\ lpMint' \in Nat /\ lpMint' <= lpSupply'
<1>3. ASSUME NEW n \in Deposits, DepositSol(n) PROVE LegsOK /\ LpOK
  <2>1. n \in Nat /\ Deposit(n, msolLeg)
    BY <1>3, PriceAssumption DEF DepositSol
  <2>2. /\ SolSwapped(n, msolLeg) \in Nat /\ Swapped(n, msolLeg) \in Nat
        /\ Swapped(n, msolLeg) <= msolLeg
        /\ BuyOrder(n) - Swapped(n, msolLeg) \in Nat
    BY <1>0, <2>1, SwapOfDeposit, DepositMints
  <2>3. mintSupply' = mintSupply + (BuyOrder(n) - Swapped(n, msolLeg))
    BY <2>1 DEF Deposit, Mint
  <2>4. /\ solLeg' = solLeg + SolSwapped(n, msolLeg)
        /\ msolLeg' = msolLeg - Swapped(n, msolLeg)
        /\ lpSupply' = lpSupply /\ lpMint' = lpMint
    BY <1>3 DEF DepositSol
  <2> QED BY <1>0, <2>2, <2>3, <2>4
<1>4. ASSUME NEW n \in Additions, AddLiquidity(n) PROVE LegsOK /\ LpOK
  <2>1. n \in Nat
    BY PoolAssumption
  <2>2. LpFor(n) \in Nat
    BY <1>0, <2>1, Shares DEF LpFor
  <2>3. /\ lpMint' = lpMint + LpFor(n) /\ lpSupply' = lpMint + LpFor(n)
        /\ solLeg' = solLeg + n
        /\ msolLeg' = msolLeg /\ mintSupply' = mintSupply
    BY <1>4 DEF AddLiquidity, LpSupplyAfter, msolVars
  <2> QED BY <1>0, <2>1, <2>2, <2>3
<1>5. ASSUME NEW t \in Removals \cup {lpMint}, RemoveLiquidity(t) PROVE LegsOK /\ LpOK
  <2>1. t \in Nat
    BY <1>0, PoolAssumption
  <2>2. /\ Proportional(t, solLeg, LpTotal) \in Nat
        /\ Proportional(t, msolLeg, LpTotal) \in Nat
    BY <1>0, <2>1, Shared
  <2>3. /\ t <= lpMint
        /\ Proportional(t, solLeg, LpTotal) <= solLeg
        /\ Proportional(t, msolLeg, LpTotal) <= msolLeg
        /\ lpMint' = lpMint - t /\ lpSupply' = LpTotal - t
        /\ solLeg' = solLeg - Proportional(t, solLeg, LpTotal)
        /\ msolLeg' = msolLeg - Proportional(t, msolLeg, LpTotal)
        /\ mintSupply' = mintSupply
    BY <1>5 DEF RemoveLiquidity, msolVars
  <2> QED BY <1>0, <2>1, <2>2, <2>3
<1>6. ASSUME NEW m \in Unstakes, NEW ready \in BOOLEAN, LiquidUnstake(m, ready)
      PROVE  LegsOK /\ LpOK
  <2> DEFINE fee == FeeBp(FeeOfLiquidityAfter(m), m)
             value == MsolToSol(m - fee)
  <2>1. m \in Nat
    BY PoolAssumption
  <2>2. fee \in 0 .. m
    BY <2>1, UnstakeFees
  <2>3. TakenIn(m, fee, ready) \in (m - fee) .. m
    <3> HIDE DEF fee
    <3> QED BY <2>1, <2>2, UnstakeFees
  <2>4. /\ m <= Held /\ value <= solLeg
        /\ solLeg' = solLeg - value
        /\ msolLeg' = msolLeg + TakenIn(m, fee, ready)
        /\ mintSupply' = mintSupply /\ lpSupply' = lpSupply /\ lpMint' = lpMint
    BY <1>6 DEF LiquidUnstake, msolVars
  <2>5. value \in Nat
    <3> HIDE DEF fee
    <3>1. m - fee \in Nat
      BY <2>1, <2>2
    <3> QED BY <1>0, <3>1, Prices
  <2> HIDE DEF fee, value
  <2> QED BY <1>0, <2>1, <2>2, <2>3, <2>4, <2>5 DEF Held
<1>7. ASSUME NEW t \in Removals, BurnLp(t) PROVE LegsOK /\ LpOK
  <2>1. t \in Nat
    BY PoolAssumption
  <2> QED BY <1>0, <1>7, <2>1 DEF BurnLp, msolVars
<1>8. ASSUME NEW n \in Gifts, GiveSol(n) PROVE LegsOK /\ LpOK
  <2>1. n \in Nat
    BY PriceAssumption
  <2> QED BY <1>0, <1>8, <2>1 DEF GiveSol, msolVars
<1>9. ASSUME NEW m \in Burns, GiveMsol(m) PROVE LegsOK /\ LpOK
  <2>1. m \in Nat
    BY PriceAssumption
  <2> QED BY <1>0, <1>9, <2>1 DEF GiveMsol, Held, msolVars
<1>10. ASSUME CoreStep PROVE LegsOK /\ LpOK
  <2>1. solLeg' = solLeg /\ msolLeg' = msolLeg /\ lpSupply' = lpSupply /\ lpMint' = lpMint
    BY <1>10 DEF CoreStep, poolVars
  <2>2. msolLeg <= mintSupply'
    <3>1. ASSUME NEW n \in StakeDeposits, DepositStakeAccount(n) PROVE msolLeg <= mintSupply'
      <4>1. n \in Nat
        BY PriceAssumption
      <4>2. PICK minted \in Nat : Minted(n, minted)
        BY <1>0, <3>1, <4>1, DepositStakeMints
      <4> QED BY <1>0, <4>2 DEF Minted
    <3>2. ASSUME NEW m \in {k \in Orders : k <= Held}, OrderUnstake(m)
          PROVE  msolLeg <= mintSupply'
      <4>1. m \in Nat /\ m <= Held
        BY PriceAssumption
      <4>2. mintSupply' = mintSupply - m
        BY <3>2 DEF OrderUnstake, Burn
      <4> QED BY <1>0, <4>1, <4>2 DEF Held
    <3>3. ASSUME NEW n \in 1 .. circulating, Claim(n) PROVE msolLeg <= mintSupply'
      BY <1>0, <3>3 DEF Claim
    <3>4. ASSUME NEW m \in {k \in Withdrawals : k <= Held}, NEW ready \in BOOLEAN,
                 WithdrawStakeAccount(m, ready)
          PROVE  msolLeg <= mintSupply'
      <4>1. m \in Nat /\ m <= Held
        BY PriceAssumption
      <4>2. PICK lamports \in Nat, burned \in 0 .. m : Withdrew(lamports, burned)
        BY <1>0, <3>4, <4>1, WithdrawStakeWithdraws
      <4> QED BY <1>0, <4>1, <4>2 DEF Withdrew, Held
    <3>5. ASSUME NEW m \in {k \in Burns : k <= Held}, BurnOutside(m)
          PROVE  msolLeg <= mintSupply'
      <4>1. m \in Nat /\ m <= Held
        BY PriceAssumption
      <4> QED BY <1>0, <3>5, <4>1 DEF BurnOutside, Held
    <3>6. ASSUME Updates PROVE msolLeg <= mintSupply'
      <4>1. PICK given, extra, rewards, slashed \in Nat :
            \E cut1 \in 0 .. extra, cut2 \in 0 .. rewards, fee1, fee2 \in Nat :
              Updated(given, extra, rewards, slashed, cut1, cut2, fee1, fee2)
        BY <1>0, <3>6, UpdatesUpdate
      <4>2. PICK fee1, fee2 \in Nat : mintSupply' = mintSupply + fee1 + fee2
        BY <4>1 DEF Updated
      <4> QED BY <1>0, <4>2
    <3> QED BY <1>10, <3>1, <3>2, <3>3, <3>4, <3>5, <3>6 DEF CoreStep
  <2> QED BY <1>0, <2>1, <2>2
<1>11. ASSUME UNCHANGED liqVars PROVE LegsOK /\ LpOK
  BY <1>0, <1>11 DEF liqVars, poolVars, msolVars
<1>12. LegsOK /\ LpOK
  <2> HIDE DEF LegsOK, LpOK
  <2> QED BY <1>3, <1>4, <1>5, <1>6, <1>7, <1>8, <1>9, <1>10, <1>11 DEF PoolNext
<1> QED BY <1>1, <1>2, <1>12 DEF PoolTypeOK

(* The legs never owe more than they hold, the mSOL leg is part of the mSOL  *)
(* there is, and no LP token is minted that is not recorded.                 *)
THEOREM PoolTypes == PoolSpec => []PoolTypeOK
<1>1. PoolInit => PoolTypeOK
  BY DEF PoolInit, PriceInit, PoolTypeOK, PriceTypeOK
<1>2. PoolTypeOK /\ [PoolNext]_liqVars => PoolTypeOK'
  BY PoolStepKeepsTypes
<1> QED BY <1>1, <1>2, PTL DEF PoolSpec

(* The pool does not touch the price it trades at. *)
THEOREM PoolLowersNoPrice == PoolSpec => PriceNeverFalls
<1>1. ASSUME PoolTypeOK, [PoolNext]_liqVars, Priced, ~Slashed, ~Withdrawn
      PROVE  Virtual' * msolSupply >= Virtual * msolSupply'
  BY <1>1, PoolNextSteps, PoolNumbers, StepKeepsPrice
<1> QED BY <1>1, PoolTypes, PTL DEF PoolSpec, PriceNeverFalls
-----------------------------------------------------------------------------
(* What mSOL is worth: nothing is worth nothing, two parts are worth no more *)
(* than the whole, and a price that does not fall keeps the worth.           *)
LEMMA ValueOfNone ==
  ASSUME NEW v \in Nat, NEW s \in Nat
  PROVE  ValueFromShares(0, v, s) = 0
<1>1. CASE s = 0
  BY <1>1, Values
<1>2. CASE s # 0
  <2> DEFINE x == ValueFromShares(0, v, s)
  <2>1. x \in Nat /\ s * x <= 0 * v
    BY <1>2, Values
  <2> HIDE DEF x
  <2>2. x = 0
    BY <1>2, <2>1
  <2> QED BY <2>2 DEF x
<1> QED BY <1>1, <1>2

LEMMA ValueOfParts ==
  ASSUME NEW a \in Nat, NEW b \in Nat, NEW v \in Nat, NEW s \in Nat
  PROVE  ValueFromShares(a, v, s) + ValueFromShares(b, v, s) <= ValueFromShares(a + b, v, s)
<1> DEFINE c == a + b
<1>c. c \in Nat /\ c = a + b
  OBVIOUS
<1> HIDE DEF c
<1>1. CASE s = 0
  <2>1. ValueFromShares(a, v, s) = a /\ ValueFromShares(b, v, s) = b
    BY <1>1, Values
  <2>2. ValueFromShares(c, v, s) = c
    BY <1>1, <1>c, Values
  <2> QED BY <1>c, <2>1, <2>2 DEF c
<1>2. CASE s # 0
  <2> DEFINE x == ValueFromShares(a, v, s)
             y == ValueFromShares(b, v, s)
             z == ValueFromShares(c, v, s)
  <2>x. x \in Nat /\ s * x <= a * v /\ y \in Nat /\ s * y <= b * v
    BY <1>2, Values
  <2>z. z \in Nat /\ c * v < s * z + s
    BY <1>2, <1>c, Values
  <2> HIDE DEF x, y, z
  <2>1. /\ x \in Nat /\ s * x <= a * v
        /\ y \in Nat /\ s * y <= b * v
        /\ z \in Nat /\ (a + b) * v < s * z + s
    BY <1>c, <2>x, <2>z
  <2>2. (a + b) * v = a * v + b * v /\ s * (x + y) = s * x + s * y /\ s * (z + 1) = s * z + s
    BY <2>1
  <2>3. a * v \in Nat /\ b * v \in Nat /\ s * x \in Nat /\ s * y \in Nat /\ s * z \in Nat
    BY <2>1
  <2>4. s * (x + y) < s * (z + 1)
    BY <2>1, <2>2, <2>3
  <2>5. x + y < z + 1
    BY <1>2, <2>1, <2>4, SmallerFactor
  <2> QED BY <2>1, <2>5 DEF x, y, z, c
<1> QED BY <1>1, <1>2

LEMMA ValueKept ==
  ASSUME NEW m \in Nat, NEW v \in Nat, NEW w \in Nat, NEW s \in Nat \ {0}, NEW t \in Nat \ {0},
         w * s >= v * t
  PROVE  ValueFromShares(m, v, s) <= ValueFromShares(m, w, t)
<1> DEFINE x == ValueFromShares(m, v, s)
           y == ValueFromShares(m, w, t)
<1>1. /\ x \in Nat /\ s * x <= m * v
      /\ y \in Nat /\ m * w < t * y + t
  BY Values
<1> HIDE DEF x, y
<1>2. (s * t) * x < (s * t) * (y + 1)
  <2>1. (s * t) * x = t * (s * x) /\ (s * t) * (y + 1) = s * (t * y + t)
    BY <1>1
  <2>2. t * (s * x) <= t * (m * v)
    <3>1. s * x \in Nat /\ m * v \in Nat
      BY <1>1
    <3> QED BY <1>1, <3>1
  <2>3. t * (m * v) = m * (v * t)
    OBVIOUS
  <2>4. m * (v * t) <= m * (w * s)
    <3>1. v * t \in Nat /\ w * s \in Nat
      OBVIOUS
    <3> QED BY <3>1
  <2>5. m * (w * s) = s * (m * w)
    OBVIOUS
  <2>6. s * (m * w) < s * (t * y + t)
    <3>1. m * w \in Nat /\ t * y + t \in Nat
      BY <1>1
    <3> QED BY <1>1, <3>1
  <2>7. /\ t * (s * x) \in Nat /\ t * (m * v) \in Nat /\ m * (w * s) \in Nat
        /\ s * (t * y + t) \in Nat
    BY <1>1
  <2> QED BY <2>1, <2>2, <2>3, <2>4, <2>5, <2>6, <2>7
<1>3. s * t \in Nat \ {0}
  OBVIOUS
<1>4. x < y + 1
  BY <1>1, <1>2, <1>3, SmallerFactor
<1> QED BY <1>1, <1>4 DEF x, y

(* b mSOL sold for n lamports, which are worth more. *)
LEMMA ValueSold ==
  ASSUME NEW m \in Nat, NEW b \in 0 .. m, NEW n \in Nat, NEW v \in Nat, NEW s \in Nat \ {0},
         b * v <= n * s
  PROVE  ValueFromShares(m, v, s) <= n + ValueFromShares(m - b, v, s)
<1> DEFINE x == ValueFromShares(m, v, s)
           y == ValueFromShares(m - b, v, s)
<1>1. /\ x \in Nat /\ s * x <= m * v
      /\ y \in Nat /\ (m - b) * v < s * y + s
  <2>1. x \in Nat /\ s * x <= m * v
    BY Values
  <2>2. m - b \in Nat
    OBVIOUS
  <2> DEFINE d == m - b
  <2> HIDE DEF d
  <2>3. d \in Nat
    BY <2>2 DEF d
  <2>4. ValueFromShares(d, v, s) \in Nat /\ d * v < s * ValueFromShares(d, v, s) + s
    BY <2>3, Values
  <2> QED BY <2>1, <2>4 DEF d
<1> HIDE DEF x, y
<1>2. s * x < s * (n + y + 1)
  <2>1. m * v = (m - b) * v + b * v /\ s * (n + y + 1) = n * s + s * y + s
    BY <1>1
  <2>2. (m - b) * v \in Nat /\ b * v \in Nat /\ s * x \in Nat /\ s * y \in Nat /\ n * s \in Nat
    BY <1>1
  <2> QED BY <1>1, <2>1, <2>2
<1>3. x < n + y + 1
  BY <1>1, <1>2, SmallerFactor
<1> QED BY <1>1, <1>3 DEF x, y

(* t of L tokens take so lamports and mo mSOL: the rest keeps its part, one  *)
(* lamport of rounding apart.                                                *)
LEMMA RestKeepsPart ==
  ASSUME NEW sol \in Nat, NEW msol \in Nat, NEW v \in Nat, NEW s \in Nat \ {0},
         NEW L \in Nat, NEW t \in 0 .. L,
         NEW so \in 0 .. sol, NEW mo \in 0 .. msol,
         L # 0, L * so <= t * sol, L * mo <= t * msol
  PROVE  (sol - so + ValueFromShares(msol - mo, v, s) + 1) * L
           >= (sol + ValueFromShares(msol, v, s)) * (L - t)
<1> DEFINE x == ValueFromShares(msol, v, s)
           y == ValueFromShares(msol - mo, v, s)
           R == L - t
           rest == msol - mo
<1>1. /\ x \in Nat /\ s * x <= msol * v
      /\ y \in Nat /\ rest * v < s * y + s
      /\ R \in Nat /\ rest \in Nat
  <2>1. x \in Nat /\ s * x <= msol * v
    BY Values
  <2>2. R \in Nat /\ rest \in Nat
    OBVIOUS
  <2> HIDE DEF rest
  <2>3. ValueFromShares(rest, v, s) \in Nat /\ rest * v < s * ValueFromShares(rest, v, s) + s
    BY <2>2, Values
  <2> QED BY <2>1, <2>2, <2>3 DEF rest
<1>2. msol * R <= L * rest
  <2>1. msol * R = msol * L - t * msol /\ L * rest = msol * L - L * mo
    OBVIOUS
  <2>2. msol * L \in Nat /\ t * msol \in Nat /\ L * mo \in Nat
    OBVIOUS
  <2> QED BY <2>1, <2>2
<1>3. sol * R <= (sol - so) * L
  <2>1. sol * R = sol * L - t * sol /\ (sol - so) * L = sol * L - L * so
    OBVIOUS
  <2>2. sol * L \in Nat /\ t * sol \in Nat /\ L * so \in Nat
    OBVIOUS
  <2> QED BY <2>1, <2>2
<1> HIDE DEF x, y, R, rest
<1>4. s * (x * R) < s * ((y + 1) * L)
  <2>1. s * (x * R) = R * (s * x) /\ s * ((y + 1) * L) = L * (s * y + s)
    BY <1>1
  <2>2. R * (s * x) <= R * (msol * v)
    <3>1. s * x \in Nat /\ msol * v \in Nat
      BY <1>1
    <3> QED BY <1>1, <3>1
  <2>3. R * (msol * v) = v * (msol * R)
    BY <1>1
  <2>4. v * (msol * R) <= v * (L * rest)
    <3>1. msol * R \in Nat /\ L * rest \in Nat
      BY <1>1
    <3> QED BY <1>2, <3>1
  <2>5. v * (L * rest) = L * (rest * v)
    BY <1>1
  <2>6. L * (rest * v) < L * (s * y + s)
    <3>1. rest * v \in Nat /\ s * y + s \in Nat
      BY <1>1
    <3> QED BY <1>1, <3>1
  <2>7. /\ R * (s * x) \in Nat /\ R * (msol * v) \in Nat /\ v * (L * rest) \in Nat
        /\ L * (rest * v) \in Nat /\ L * (s * y + s) \in Nat
    BY <1>1
  <2> QED BY <2>1, <2>2, <2>3, <2>4, <2>5, <2>6, <2>7
<1>5. x * R < (y + 1) * L
  <2>1. x * R \in Nat /\ (y + 1) * L \in Nat
    BY <1>1
  <2> QED BY <1>4, <2>1, SmallerFactor
<1>6. (sol - so + y + 1) * L = (sol - so) * L + (y + 1) * L /\ (sol + x) * R = sol * R + x * R
  BY <1>1
<1>7. /\ sol * R \in Nat /\ x * R \in Nat /\ (sol - so) * L \in Nat /\ (y + 1) * L \in Nat
  BY <1>1
<1>8. (sol - so + y + 1) * L >= (sol + x) * R
  BY <1>3, <1>5, <1>6, <1>7
<1> QED BY <1>8 DEF x, y, R

LEMMA ValueMonotone ==
  ASSUME NEW a \in Nat, NEW b \in Nat, a <= b, NEW v \in Nat, NEW s \in Nat
  PROVE  ValueFromShares(a, v, s) <= ValueFromShares(b, v, s)
<1> DEFINE d == b - a
<1>1. d \in Nat /\ a + d = b
  OBVIOUS
<1> HIDE DEF d
<1>2. ValueFromShares(a, v, s) + ValueFromShares(d, v, s) <= ValueFromShares(a + d, v, s)
  BY <1>1, ValueOfParts
<1>3. ValueFromShares(a, v, s) \in Nat /\ ValueFromShares(d, v, s) \in Nat
  BY <1>1, Values
<1>4. ValueFromShares(b, v, s) \in Nat
  BY Values
<1> QED BY <1>1, <1>2, <1>3, <1>4

(* The worth of the pool, after a step. *)
LEMMA PoolValueIs ==
  /\ PoolValue = solLeg + ValueFromShares(msolLeg, Virtual, msolSupply)
  /\ PoolValue' = solLeg' + ValueFromShares(msolLeg', Virtual', msolSupply')
BY DEF PoolValue, MsolToSol

LEMMA PoolNumbersAfter ==
  ASSUME PoolTypeOK'
  PROVE  /\ solLeg' \in Nat /\ msolLeg' \in Nat /\ Virtual' \in Nat /\ msolSupply' \in Nat
         /\ msolLeg' <= msolSupply' /\ PoolValue' \in Nat
<1>1. /\ solLeg' \in Nat /\ msolLeg' \in Nat /\ msolSupply' \in Nat
      /\ msolLeg' <= msolSupply' /\ controlled' \in Nat /\ circulating' \in Nat
  BY DEF PoolTypeOK, PriceTypeOK
<1>2. Virtual' \in Nat
  BY <1>1, VirtualIs DEF Virtual
<1> DEFINE L == msolLeg'
           V == Virtual'
           S == msolSupply'
<1>3. L \in Nat /\ V \in Nat /\ S \in Nat
  BY <1>1, <1>2
<1> HIDE DEF L, V, S
<1>4. ValueFromShares(L, V, S) \in Nat
  BY <1>3, Values
<1> QED BY <1>1, <1>2, <1>4, PoolValueIs DEF L, V, S
-----------------------------------------------------------------------------
(* What LiquidUnstake takes and pays. *)
Sold(m, fee, paid, taken) ==
  /\ fee = FeeBp(FeeOfLiquidityAfter(m), m) /\ fee \in 0 .. m
  /\ paid = MsolToSol(m - fee) /\ paid \in 0 .. solLeg /\ paid <= MsolToSol(m)
  /\ taken \in (m - fee) .. m
  /\ solLeg' = solLeg - paid /\ msolLeg' = msolLeg + taken
  /\ lpMint' = lpMint /\ Virtual' = Virtual /\ msolSupply' = msolSupply

LEMMA LiquidUnstakeSells ==
  ASSUME PoolTypeOK, NEW m \in Nat, NEW ready \in BOOLEAN, LiquidUnstake(m, ready)
  PROVE  \E fee, paid, taken \in Nat : Sold(m, fee, paid, taken)
<1> DEFINE fee == FeeBp(FeeOfLiquidityAfter(m), m)
           rest == m - fee
           paid == MsolToSol(rest)
           taken == TakenIn(m, fee, ready)
<1>1. /\ paid <= solLeg /\ solLeg' = solLeg - paid /\ msolLeg' = msolLeg + taken
      /\ lpMint' = lpMint /\ Virtual' = Virtual /\ msolSupply' = msolSupply
  BY DEF LiquidUnstake, msolVars, Virtual
<1>2. fee \in 0 .. m
  BY UnstakeFees
<1>3. rest \in Nat /\ rest <= m
  <2> HIDE DEF fee
  <2> QED BY <1>2
<1>4. taken \in rest .. m
  <2> HIDE DEF fee
  <2> QED BY <1>2, UnstakeFees
<1>5. Virtual \in Nat /\ msolSupply \in Nat /\ solLeg \in Nat
  BY PoolNumbers, Prices DEF PriceTypeOK
<1>6. paid \in Nat /\ paid <= MsolToSol(m)
  <2> HIDE DEF rest
  <2>1. MsolToSol(rest) <= MsolToSol(m)
    BY <1>3, <1>5, ValueMonotone DEF MsolToSol
  <2>2. MsolToSol(rest) \in Nat
    BY <1>3, <1>5, Values DEF MsolToSol
  <2> QED BY <2>1, <2>2
<1>7. taken \in Nat /\ fee \in Nat
  <2> HIDE DEF rest, taken, fee
  <2> QED BY <1>2, <1>3, <1>4
<1>8. Sold(m, fee, paid, taken)
  <2>1. fee = FeeBp(FeeOfLiquidityAfter(m), m) /\ paid = MsolToSol(m - fee)
    OBVIOUS
  <2>2. taken \in (m - fee) .. m
    BY <1>4
  <2> HIDE DEF fee, rest, paid, taken
  <2> QED BY <1>1, <1>2, <1>5, <1>6, <2>1, <2>2 DEF Sold
<1> HIDE DEF fee, paid, taken
<1> QED BY <1>6, <1>7, <1>8

(* Whoever drains the pool pays the fee of the liquidity he leaves.          *)
THEOREM DepthIsPaidFor == PoolSpec => FeeCoversDepth
<1>1. ASSUME PoolTypeOK, NEW m \in Unstakes, NEW ready \in BOOLEAN, LiquidUnstake(m, ready)
      PROVE  solLeg - solLeg' <= MsolToSol(m - FeeBp(LinearFee(solLeg'), m))
  <2>1. m \in Nat
    BY PoolAssumption
  <2>2. PICK fee, paid, taken \in Nat : Sold(m, fee, paid, taken)
    BY <1>1, <2>1, LiquidUnstakeSells
  <2> DEFINE left == solLeg'
             due == FeeBp(LinearFee(left), m)
             worth == MsolToSol(m)
             charged == FeeOfLiquidityAfter(m)
  <2>3. /\ solLeg \in Nat /\ Virtual \in Nat /\ msolSupply \in Nat /\ worth \in Nat
        /\ charged \in LpMinFee .. LpMaxFee
    BY <1>1, <2>1, PoolNumbers, Prices, UnstakeFees DEF PriceTypeOK
  <2>4. /\ fee = FeeBp(charged, m) /\ fee <= m
        /\ paid = MsolToSol(m - fee) /\ paid <= worth /\ paid <= solLeg
        /\ left = solLeg - paid
    BY <2>2 DEF Sold
  <2>5. charged = IF worth >= solLeg THEN LpMaxFee ELSE LinearFee(solLeg - worth)
    BY DEF FeeOfLiquidityAfter
  <2> HIDE DEF left, worth, charged
  <2>6. left \in Nat
    BY <2>3, <2>4
  <2>7. LinearFee(left) \in LpMinFee .. LpMaxFee
    BY <2>6, LinearFeeFalls
  <2>8. LinearFee(left) <= charged
    <3>1. CASE worth >= solLeg
      BY <2>5, <2>7, <3>1
    <3>2. CASE ~(worth >= solLeg)
      <4>1. solLeg - worth \in Nat /\ solLeg - worth <= left
        BY <2>3, <2>4, <3>2
      <4> QED BY <2>5, <2>6, <3>2, <4>1, LinearFeeFalls
    <3> QED BY <3>1, <3>2
  <2>9. due \in 0 .. m /\ due <= fee
    <3>1. LinearFee(left) \in 0 .. MaxBasisPoints
      BY <2>7, PoolFees, FeesAreShares
    <3>2. LinearFee(left) \in Nat /\ charged \in Nat
      BY <2>3, <2>7, PoolFees
    <3> DEFINE a == LinearFee(left)
    <3> HIDE DEF a
    <3>3. a \in Nat /\ a <= charged
      BY <2>8, <3>2 DEF a
    <3>4. m * a \in Nat /\ m * charged \in Nat /\ m * a <= m * charged
      BY <2>1, <3>2, <3>3
    <3>5. FeeBp(a, m) <= FeeBp(charged, m)
      BY <3>4, ShareMonotone, FeesAreShares DEF FeeBp
    <3> QED BY <2>1, <2>4, <3>1, <3>5, PoolFees DEF a
  <2> HIDE DEF due
  <2>10. m - fee \in Nat /\ m - due \in Nat /\ m - fee <= m - due
    BY <2>1, <2>4, <2>9
  <2>11. MsolToSol(m - fee) <= MsolToSol(m - due)
    BY <2>3, <2>10, ValueMonotone DEF MsolToSol
  <2>12. solLeg - left = paid
    BY <2>3, <2>4
  <2> QED BY <2>4, <2>11, <2>12 DEF due, left
<1>2. PoolTypeOK =>
        [\A m \in Unstakes, ready \in BOOLEAN :
           LiquidUnstake(m, ready) =>
             solLeg - solLeg' <= MsolToSol(m - FeeBp(LinearFee(solLeg'), m))]_liqVars
  BY <1>1
<1> QED BY <1>2, PoolTypes, PTL DEF FeeCoversDepth

(* The part k of the mSOL leg that stays is worth no less afterwards, when   *)
(* the price has not fallen.                                                 *)
LEMMA LegKeepsValue ==
  ASSUME PoolTypeOK, PoolTypeOK', PriceKept, msolLeg' <= msolLeg
  PROVE  ValueFromShares(msolLeg', Virtual, msolSupply)
           <= ValueFromShares(msolLeg', Virtual', msolSupply')
<1> DEFINE k == msolLeg'
           V == Virtual
           W == Virtual'
           S == msolSupply
           T == msolSupply'
<1>1. /\ V \in Nat /\ S \in Nat /\ W \in Nat /\ T \in Nat /\ k \in Nat
      /\ k <= S /\ k <= T /\ W * S >= V * T
  <2>1. Virtual \in Nat /\ msolSupply \in Nat /\ msolLeg \in Nat /\ msolLeg <= msolSupply
    BY PoolNumbers, Prices DEF PriceTypeOK
  <2>2. /\ msolLeg' \in Nat /\ Virtual' \in Nat /\ msolSupply' \in Nat
        /\ msolLeg' <= msolSupply'
    BY PoolNumbersAfter
  <2>3. W * S >= V * T
    BY DEF PriceKept
  <2>4. k <= S
    BY <2>1, <2>2
  <2> QED BY <2>1, <2>2, <2>3, <2>4
<1> HIDE DEF k, V, W, S, T
<1>2. CASE k = 0
  BY <1>1, <1>2, ValueOfNone DEF k, V, W, S, T
<1>3. CASE k # 0
  <2>1. S \in Nat \ {0} /\ T \in Nat \ {0}
    BY <1>1, <1>3
  <2>2. ValueFromShares(k, V, S) <= ValueFromShares(k, W, T)
    BY <1>1, <2>1, ValueKept
  <2> QED BY <2>2 DEF k, V, W, S, T
<1> QED BY <1>2, <1>3

(* Enough for the LP tokens not to lose worth. *)
LEMMA NoWorthLost ==
  ASSUME NEW p \in Nat, NEW q \in Nat, NEW l \in Nat, NEW k \in Nat, q >= p, k <= l
  PROVE  (q + 1) * l >= p * k
<1>1. (q + 1) * l >= p * l
  OBVIOUS
<1>2. p * l >= p * k
  OBVIOUS
<1>3. (q + 1) * l \in Nat /\ p * l \in Nat /\ p * k \in Nat
  OBVIOUS
<1> QED BY <1>1, <1>2, <1>3

LEMMA DepositKeepsPoolValue ==
  ASSUME PoolTypeOK, PoolTypeOK', NEW n \in Nat, DepositSol(n)
  PROVE  PoolValue' >= PoolValue
<1> DEFINE b == BuyOrder(n)
           s == Swapped(n, msolLeg)
           sol == SolSwapped(n, msolLeg)
<1>1. /\ Deposit(n, msolLeg) /\ solLeg' = solLeg + sol /\ msolLeg' = msolLeg - s
  BY DEF DepositSol
<1>2. /\ PriceTypeOK /\ solLeg \in Nat /\ msolLeg \in Nat /\ msolLeg <= msolSupply
      /\ Virtual \in Nat /\ msolSupply \in Nat
  BY PoolNumbers, Prices DEF PriceTypeOK
<1>3. /\ b \in Nat /\ s \in Nat /\ sol \in Nat /\ s <= b /\ s <= msolLeg
      /\ s # b => s = msolLeg
      /\ s = 0 => sol = 0
      /\ s # 0 /\ s = b => sol = n
      /\ s # 0 /\ s # b => sol = MsolToSol(s)
      /\ msolSupply # 0 /\ Virtual # 0 => b * Virtual <= n * msolSupply
      /\ msolSupply # 0 /\ Virtual = 0 => b <= n
  BY <1>2, SwapOfDeposit
<1>4. msolSupply # 0 => PriceKept
  <2>1. n - sol \in Nat /\ b - s \in Nat /\ Minted(n - sol, b - s)
    BY <1>1, <1>2, DepositMints
  <2> HIDE DEF b, s, sol
  <2> DEFINE x == n - sol
             y == b - s
  <2>2. x \in Nat /\ y \in Nat /\ Minted(x, y)
    BY <2>1
  <2> HIDE DEF x, y
  <2> QED BY <1>2, <2>2, MintKeepsPrice DEF PriceKept
<1> DEFINE before == ValueFromShares(msolLeg, Virtual, msolSupply)
           rest == ValueFromShares(msolLeg', Virtual, msolSupply)
           after == ValueFromShares(msolLeg', Virtual', msolSupply')
<1>5. /\ PoolValue = solLeg + before /\ PoolValue' = solLeg' + after
  BY PoolValueIs
<1> HIDE DEF b, s, sol
<1>6. msolLeg' \in Nat /\ msolLeg' <= msolLeg
  BY <1>1, <1>2, <1>3
<1>7. before \in Nat /\ rest \in Nat /\ after \in Nat
  <2>1. before \in Nat
    BY <1>2, Values
  <2> DEFINE k == msolLeg'
             W == Virtual'
             T == msolSupply'
  <2>2. k \in Nat /\ W \in Nat /\ T \in Nat
    BY PoolNumbersAfter
  <2> HIDE DEF k, W, T
  <2>3. ValueFromShares(k, Virtual, msolSupply) \in Nat /\ ValueFromShares(k, W, T) \in Nat
    BY <1>2, <2>2, Values
  <2> QED BY <2>1, <2>3 DEF k, W, T
<1>8. msolSupply # 0 => rest <= after
  BY <1>4, <1>6, LegKeepsValue
<1>9. CASE msolSupply = 0
  <2>1. msolLeg = 0
    BY <1>2, <1>9
  <2>2. before = 0
    BY <1>2, <2>1, ValueOfNone
  <2> HIDE DEF before, rest, after
  <2> QED BY <1>1, <1>2, <1>3, <1>5, <1>7, <2>2
<1>10. CASE msolSupply # 0
  <2>1. before <= sol + rest
    <3>1. CASE s = 0
      <4>1. msolLeg' = msolLeg
        BY <1>1, <1>2, <3>1
      <4>2. before = rest
        BY <4>1
      <4> HIDE DEF before, rest
      <4> QED BY <1>3, <1>7, <4>2
    <3>2. CASE s # 0 /\ s = b
      <4>1. b * Virtual <= n * msolSupply
        <5>1. CASE Virtual = 0
          <6>1. b * Virtual = 0 /\ n * msolSupply \in Nat
            BY <1>2, <1>3, <5>1
          <6> QED BY <6>1
        <5> QED BY <1>3, <1>10, <5>1
      <4>2. sol = n /\ msolLeg' = msolLeg - b /\ b \in 0 .. msolLeg
        BY <1>1, <1>2, <1>3, <3>2
      <4>3. ValueFromShares(msolLeg, Virtual, msolSupply)
              <= n + ValueFromShares(msolLeg - b, Virtual, msolSupply)
        BY <1>2, <1>10, <4>1, <4>2, ValueSold
      <4> QED BY <4>2, <4>3
    <3>3. CASE s # 0 /\ s # b
      <4>1. s = msolLeg /\ sol = before
        BY <1>3, <3>3 DEF MsolToSol
      <4> HIDE DEF before, rest
      <4> QED BY <1>7, <4>1
    <3> QED BY <3>1, <3>2, <3>3
  <2> HIDE DEF before, rest, after
  <2> QED BY <1>1, <1>2, <1>3, <1>5, <1>7, <1>8, <1>10, <2>1
<1> QED BY <1>9, <1>10

LEMMA UnstakeKeepsPoolValue ==
  ASSUME PoolTypeOK, NEW m \in Nat, NEW ready \in BOOLEAN, LiquidUnstake(m, ready)
  PROVE  PoolValue' >= PoolValue
<1>1. PICK fee, paid, taken \in Nat : Sold(m, fee, paid, taken)
  BY LiquidUnstakeSells
<1>2. /\ fee <= m /\ paid = MsolToSol(m - fee) /\ paid <= solLeg
      /\ m - fee <= taken
      /\ solLeg' = solLeg - paid /\ msolLeg' = msolLeg + taken
      /\ Virtual' = Virtual /\ msolSupply' = msolSupply
  BY <1>1 DEF Sold
<1>3. /\ solLeg \in Nat /\ msolLeg \in Nat /\ Virtual \in Nat /\ msolSupply \in Nat
  BY PoolNumbers, Prices DEF PriceTypeOK
<1> DEFINE r == m - fee
           least == msolLeg + r
           most == msolLeg + taken
<1>4. r \in Nat /\ least \in Nat /\ most \in Nat /\ least <= most
  BY <1>2, <1>3
<1>5. PoolValue = solLeg + ValueFromShares(msolLeg, Virtual, msolSupply)
  BY PoolValueIs
<1>6. PoolValue' = (solLeg - paid) + ValueFromShares(most, Virtual, msolSupply)
  BY <1>2, PoolValueIs
<1>7. paid = ValueFromShares(r, Virtual, msolSupply)
  BY <1>2 DEF MsolToSol
<1> HIDE DEF r, least, most
<1>8. ValueFromShares(msolLeg, Virtual, msolSupply) + ValueFromShares(r, Virtual, msolSupply)
        <= ValueFromShares(msolLeg + r, Virtual, msolSupply)
  BY <1>3, <1>4, ValueOfParts
<1>9. ValueFromShares(least, Virtual, msolSupply) <= ValueFromShares(most, Virtual, msolSupply)
  BY <1>3, <1>4, ValueMonotone
<1>10. /\ ValueFromShares(least, Virtual, msolSupply) \in Nat
       /\ ValueFromShares(most, Virtual, msolSupply) \in Nat
       /\ ValueFromShares(msolLeg, Virtual, msolSupply) \in Nat
  BY <1>3, <1>4, Values
<1>11. ValueFromShares(msolLeg, Virtual, msolSupply) + paid
         <= ValueFromShares(least, Virtual, msolSupply)
  BY <1>7, <1>8 DEF least
<1> QED BY <1>2, <1>3, <1>5, <1>6, <1>9, <1>10, <1>11

(* No trade is at the expense of the pool.                                   *)
THEOREM SwapsAlwaysPay == PoolSpec => SwapsNeverLose
<1>1. ASSUME PoolTypeOK, [PoolNext]_liqVars, Traded
      PROVE  PoolValue' >= PoolValue
  <2>1. PoolTypeOK'
    BY <1>1, PoolStepKeepsTypes
  <2>2. ASSUME NEW n \in Deposits, DepositSol(n) PROVE PoolValue' >= PoolValue
    <3>1. n \in Nat
      BY PriceAssumption
    <3> QED BY <1>1, <2>1, <2>2, <3>1, DepositKeepsPoolValue
  <2>3. ASSUME NEW m \in Unstakes, NEW ready \in BOOLEAN, LiquidUnstake(m, ready)
        PROVE  PoolValue' >= PoolValue
    <3>1. m \in Nat
      BY PoolAssumption
    <3> QED BY <1>1, <2>3, <3>1, UnstakeKeepsPoolValue
  <2> QED BY <1>1, <2>2, <2>3 DEF Traded
<1> QED BY <1>1, PoolTypes, PTL DEF PoolSpec, SwapsNeverLose

(* An addition pays for the LP tokens it mints. *)
LEMMA AdditionPays ==
  ASSUME PoolTypeOK, NEW n \in Nat, AddLiquidity(n), lpMint > 0
  PROVE  (PoolValue' + 1) * lpMint >= PoolValue * lpMint'
<1> DEFINE P == PoolValue
           L == lpMint
           lp == LpFor(n)
<1>1. P \in Nat /\ L \in Nat \ {0} /\ solLeg \in Nat
  BY PoolNumbers
<1>2. lpMint' = L + lp /\ solLeg' = solLeg + n /\ msolLeg' = msolLeg
      /\ Virtual' = Virtual /\ msolSupply' = msolSupply
  BY DEF AddLiquidity, msolVars, Virtual
<1>3. PoolValue' = P + n
  <2>1. /\ msolLeg \in Nat /\ Virtual \in Nat /\ msolSupply \in Nat
    BY PoolNumbers, Prices DEF PriceTypeOK
  <2>2. ValueFromShares(msolLeg, Virtual, msolSupply) \in Nat
    BY <2>1, Values
  <2>3. /\ PoolValue = solLeg + ValueFromShares(msolLeg, Virtual, msolSupply)
        /\ PoolValue' = (solLeg + n) + ValueFromShares(msolLeg, Virtual, msolSupply)
    BY <1>2, PoolValueIs
  <2> QED BY <1>1, <2>2, <2>3
<1>4. lp \in Nat /\ (P # 0 => P * lp <= n * L)
  <2>1. lp = SharesFromValue(n, P, L)
    BY DEF LpFor
  <2> HIDE DEF P, L, lp
  <2> QED BY <1>1, <2>1, Shares
<1> HIDE DEF P, L, lp
<1>5. ((P + n) + 1) * L = P * L + n * L + L /\ P * (L + lp) = P * L + P * lp
  BY <1>1, <1>4
<1>6. P * L \in Nat /\ n * L \in Nat /\ P * lp \in Nat
  BY <1>1, <1>4
<1>7. ((P + n) + 1) * L >= P * (L + lp)
  <2>1. P * lp <= n * L
    <3>1. CASE P = 0
      BY <1>4, <1>6, <3>1
    <3> QED BY <1>4, <3>1
  <2> QED BY <1>1, <1>5, <1>6, <2>1
<1> QED BY <1>2, <1>3, <1>7 DEF P, L

(* A removal takes no more than its part of each leg. *)
LEMMA RemovalLeavesRest ==
  ASSUME PoolTypeOK, NEW t \in Nat, RemoveLiquidity(t), lpMint > 0
  PROVE  (PoolValue' + 1) * lpMint >= PoolValue * lpMint'
<1> DEFINE L == lpMint
           so == Proportional(t, solLeg, L)
           mo == Proportional(t, msolLeg, L)
<1>1. /\ L \in Nat \ {0} /\ solLeg \in Nat /\ msolLeg \in Nat /\ LpTotal = L
      /\ Virtual \in Nat /\ msolSupply \in Nat /\ msolLeg <= msolSupply
  BY PoolNumbers, Prices DEF PriceTypeOK
<1>2. /\ t <= L /\ lpMint' = L - t
      /\ so <= solLeg /\ solLeg' = solLeg - so
      /\ mo <= msolLeg /\ msolLeg' = msolLeg - mo
      /\ Virtual' = Virtual /\ msolSupply' = msolSupply
  BY <1>1 DEF RemoveLiquidity, msolVars, Virtual
<1>3. /\ so \in Nat /\ L * so <= t * solLeg
      /\ mo \in Nat /\ L * mo <= t * msolLeg
  <2> HIDE DEF L
  <2> QED BY <1>1, Shared
<1> HIDE DEF L, so, mo
<1>4. /\ PoolValue = solLeg + ValueFromShares(msolLeg, Virtual, msolSupply)
      /\ PoolValue' = (solLeg - so) + ValueFromShares(msolLeg - mo, Virtual, msolSupply)
  BY <1>2, PoolValueIs
<1>5. t \in 0 .. L /\ so \in 0 .. solLeg /\ mo \in 0 .. msolLeg
  BY <1>1, <1>2, <1>3
<1>6. CASE msolSupply # 0
  <2>1. (solLeg - so + ValueFromShares(msolLeg - mo, Virtual, msolSupply) + 1) * L
          >= (solLeg + ValueFromShares(msolLeg, Virtual, msolSupply)) * (L - t)
    BY <1>1, <1>3, <1>5, <1>6, RestKeepsPart
  <2> QED BY <1>2, <1>4, <2>1 DEF L
<1>7. CASE msolSupply = 0
  <2>1. msolLeg = 0 /\ mo = 0
    BY <1>1, <1>5, <1>7
  <2>2. PoolValue = solLeg /\ PoolValue' = solLeg - so
    <3>1. ValueFromShares(0, Virtual, msolSupply) = 0
      BY <1>1, ValueOfNone
    <3> QED BY <1>1, <1>4, <1>5, <2>1, <3>1
  <2>3. (solLeg - so + ValueFromShares(msolLeg - mo, 1, 1) + 1) * L
          >= (solLeg + ValueFromShares(msolLeg, 1, 1)) * (L - t)
    <3> DEFINE one == 1
    <3>1. one \in Nat /\ one \in Nat \ {0}
      OBVIOUS
    <3> HIDE DEF one
    <3>2. (solLeg - so + ValueFromShares(msolLeg - mo, one, one) + 1) * L
            >= (solLeg + ValueFromShares(msolLeg, one, one)) * (L - t)
      BY <1>1, <1>3, <1>5, <3>1, RestKeepsPart
    <3> QED BY <3>2 DEF one
  <2>4. ValueFromShares(0, 1, 1) = 0
    BY ValueOfNone
  <2>5. solLeg - so + 0 = solLeg - so /\ solLeg + 0 = solLeg /\ 0 - 0 = 0
    BY <1>1, <1>5
  <2>6. (solLeg - so + 1) * L >= solLeg * (L - t)
    BY <2>1, <2>3, <2>4, <2>5
  <2> QED BY <1>2, <2>2, <2>6 DEF L
<1> QED BY <1>6, <1>7

LEMMA StepKeepsLpPrice ==
  ASSUME PoolTypeOK, [PoolNext]_liqVars, PriceKept, lpMint > 0
  PROVE  (PoolValue' + 1) * lpMint >= PoolValue * lpMint'
<1> DEFINE Fair == (PoolValue' + 1) * lpMint >= PoolValue * lpMint'
           Kept == PoolValue' >= PoolValue /\ lpMint' <= lpMint
<1>1. PoolTypeOK'
  BY PoolStepKeepsTypes
<1>2. /\ solLeg \in Nat /\ msolLeg \in Nat /\ lpMint \in Nat /\ PoolValue \in Nat
      /\ Virtual \in Nat /\ msolSupply \in Nat
  BY PoolNumbers, Prices DEF PriceTypeOK
<1>3. PoolValue' \in Nat /\ lpMint' \in Nat
  BY <1>1, PoolNumbersAfter DEF PoolTypeOK
<1>4. Kept => Fair
  <2> DEFINE q == PoolValue'
             p == PoolValue
             k == lpMint'
  <2>1. p \in Nat /\ q \in Nat /\ k \in Nat
    BY <1>2, <1>3
  <2> HIDE DEF p, q, k
  <2>2. q >= p /\ k <= lpMint => (q + 1) * lpMint >= p * k
    BY <1>2, <2>1, NoWorthLost
  <2> QED BY <2>2 DEF p, q, k
<1>5. ASSUME NEW n \in Deposits, DepositSol(n) PROVE Fair
  <2>1. n \in Nat
    BY PriceAssumption
  <2>2. PoolValue' >= PoolValue
    BY <1>1, <1>5, <2>1, DepositKeepsPoolValue
  <2>3. lpMint' <= lpMint
    BY <1>2, <1>5 DEF DepositSol
  <2> QED BY <1>4, <2>2, <2>3
<1>6. ASSUME NEW n \in Additions, AddLiquidity(n) PROVE Fair
  <2>1. n \in Nat
    BY PoolAssumption
  <2> QED BY <1>6, <2>1, AdditionPays
<1>7. ASSUME NEW t \in Removals \cup {lpMint}, RemoveLiquidity(t) PROVE Fair
  <2>1. t \in Nat
    BY <1>2, PoolAssumption
  <2> QED BY <1>7, <2>1, RemovalLeavesRest
<1>8. ASSUME NEW m \in Unstakes, NEW ready \in BOOLEAN, LiquidUnstake(m, ready) PROVE Fair
  <2>1. m \in Nat
    BY PoolAssumption
  <2>2. PoolValue' >= PoolValue
    BY <1>8, <2>1, UnstakeKeepsPoolValue
  <2>3. lpMint' <= lpMint
    BY <1>2, <1>8 DEF LiquidUnstake
  <2> QED BY <1>4, <2>2, <2>3
<1>9. ASSUME solLeg' >= solLeg, msolLeg' >= msolLeg, lpMint' <= lpMint, UNCHANGED msolVars
      PROVE  Fair
  <2> DEFINE k == msolLeg'
  <2>1. k \in Nat /\ msolLeg <= k /\ solLeg' \in Nat
    BY <1>1, <1>9, PoolNumbersAfter
  <2>2. PoolValue = solLeg + ValueFromShares(msolLeg, Virtual, msolSupply)
    BY PoolValueIs
  <2>3. PoolValue' = solLeg' + ValueFromShares(k, Virtual, msolSupply)
    BY <1>9, PoolValueIs DEF msolVars, Virtual
  <2> HIDE DEF k
  <2>4. /\ ValueFromShares(msolLeg, Virtual, msolSupply)
             <= ValueFromShares(k, Virtual, msolSupply)
        /\ ValueFromShares(msolLeg, Virtual, msolSupply) \in Nat
        /\ ValueFromShares(k, Virtual, msolSupply) \in Nat
    BY <1>2, <2>1, ValueMonotone, Values
  <2> QED BY <1>2, <1>4, <1>9, <2>1, <2>2, <2>3, <2>4
<1>10. ASSUME NEW t \in Removals, BurnLp(t) PROVE Fair
  <2>1. t \in Nat
    BY PoolAssumption
  <2> QED BY <1>2, <1>9, <1>10, <2>1 DEF BurnLp
<1>11. ASSUME NEW n \in Gifts, GiveSol(n) PROVE Fair
  <2>1. n \in Nat
    BY PriceAssumption
  <2> QED BY <1>2, <1>9, <1>11, <2>1 DEF GiveSol
<1>12. ASSUME NEW m \in Burns, GiveMsol(m) PROVE Fair
  <2>1. m \in Nat
    BY PriceAssumption
  <2> QED BY <1>2, <1>9, <1>12, <2>1 DEF GiveMsol
<1>13. ASSUME UNCHANGED poolVars PROVE Fair
  <2>1. solLeg' = solLeg /\ msolLeg' = msolLeg /\ lpMint' = lpMint
    BY <1>13 DEF poolVars
  <2>2. ValueFromShares(msolLeg', Virtual, msolSupply)
          <= ValueFromShares(msolLeg', Virtual', msolSupply')
    BY <1>1, <1>2, <2>1, LegKeepsValue
  <2> DEFINE before == ValueFromShares(msolLeg, Virtual, msolSupply)
             after == ValueFromShares(msolLeg', Virtual', msolSupply')
  <2>3. PoolValue = solLeg + before /\ PoolValue' = solLeg + after /\ before <= after
    BY <2>1, <2>2, PoolValueIs
  <2> HIDE DEF before, after
  <2>4. PoolValue' >= PoolValue /\ lpMint' <= lpMint
    <3>1. before \in Int /\ after \in Int
      <4>1. before \in Nat
        BY <1>2, Values DEF before
      <4> DEFINE k == msolLeg'
                 W == Virtual'
                 T == msolSupply'
      <4>2. k \in Nat /\ W \in Nat /\ T \in Nat
        BY <1>1, PoolNumbersAfter
      <4> HIDE DEF k, W, T
      <4>3. ValueFromShares(k, W, T) \in Nat
        BY <4>2, Values
      <4> QED BY <4>1, <4>3 DEF after, k, W, T
    <3> QED BY <1>2, <2>1, <2>3, <3>1
  <2> QED BY <1>4, <2>4
<1>14. ASSUME CoreStep PROVE Fair
  BY <1>13, <1>14 DEF CoreStep
<1>15. ASSUME UNCHANGED liqVars PROVE Fair
  BY <1>13, <1>15 DEF liqVars
<1> HIDE DEF Fair, Kept
<1>16. Fair
  BY <1>5, <1>6, <1>7, <1>8, <1>10, <1>11, <1>12, <1>14, <1>15 DEF PoolNext
<1> QED BY <1>16 DEF Fair

(* Whatever is added, removed, traded, given or burned, an LP token is worth *)
(* no less afterwards, while mSOL is not; one lamport of rounding apart.     *)
THEOREM LpTokensKeepWorth == PoolSpec => LpPriceKept
<1>1. PoolTypeOK /\ [PoolNext]_liqVars =>
        [PriceKept /\ lpMint > 0 /\ lpMint' > 0 =>
           (PoolValue' + 1) * lpMint >= PoolValue * lpMint']_liqVars
  BY StepKeepsLpPrice
<1> QED BY <1>1, PoolTypes, PTL DEF PoolSpec, LpPriceKept
=============================================================================
