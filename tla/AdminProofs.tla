---------------------------- MODULE AdminProofs ----------------------------
(* The parameters stay within the limits that the users rely on.  Each       *)
(* instruction checks only what it is given, and takes the rest over from    *)
(* the parameters there are; so the limits hold of all of them because they  *)
(* held before, and this is the inductive invariant: every parameter of the  *)
(* state would be accepted again.                                            *)
EXTENDS Admin, AmountsTheorems

AdminInv == AdminTypeOK /\ Accepted(config) /\ Validate(pool)

(* What is asked for replaces fields and loses none. *)
LEMMA AskedFields ==
  ASSUME NEW types, NEW asked, SomeFields(asked, types), NEW old, AllFields(old, types)
  PROVE  AllFields(Asked(asked, old), types)
<1>1. DOMAIN old = DOMAIN types /\ \A f \in DOMAIN types : old[f] \in types[f]
  BY DEF AllFields
<1>2. Asked(asked, old) = [f \in DOMAIN types |-> IF f \in DOMAIN asked THEN asked[f] ELSE old[f]]
  BY <1>1 DEF Asked
<1>3. \A f \in DOMAIN asked : asked[f] \in types[f]
  BY DEF SomeFields
<1>4. \A f \in DOMAIN types : Asked(asked, old)[f] \in types[f]
  BY <1>1, <1>2, <1>3
<1>5. Asked(asked, old) = [f \in DOMAIN types |-> Asked(asked, old)[f]]
  BY <1>2
<1> QED BY <1>4, <1>5 DEF AllFields

(* Parameters that were accepted, and what is accepted, are accepted.        *)
LEMMA AskedAccepted ==
  ASSUME NEW asked, Accepted(asked), NEW old, Accepted(old)
  PROVE  Accepted(Asked(asked, old))
BY DEF Accepted, Asked

(* The limits, at the parameters the properties read. *)
LEMMA LimitsOfConfig ==
  ASSUME AllFields(config, ConfigTypes), Accepted(config)
  PROVE  /\ config.depositSolFee \in 0 .. MaxFeeCents
         /\ config.delayedUnstakeFee \in 0 .. MaxFeeCents
         /\ config.minWithdraw \in 0 .. MaxWithdrawAtom
<1>1. /\ DOMAIN config = DOMAIN ConfigTypes
      /\ \A f \in DOMAIN ConfigTypes : config[f] \in ConfigTypes[f]
  BY DEF AllFields
<1>2. {"depositSolFee", "delayedUnstakeFee", "minWithdraw"} \subseteq DOMAIN ConfigTypes \cap DOMAIN AtMost
  BY DEF ConfigTypes, AtMost
<1>3. config.depositSolFee \in Nat /\ config.delayedUnstakeFee \in Nat /\ config.minWithdraw \in Nat
  BY <1>1, <1>2 DEF ConfigTypes
<1>4. /\ config.depositSolFee <= AtMost.depositSolFee
      /\ config.delayedUnstakeFee <= AtMost.delayedUnstakeFee
      /\ config.minWithdraw <= AtMost.minWithdraw
  BY <1>1, <1>2 DEF Accepted
<1>5. MaxFeeCents \in Nat /\ MaxWithdrawAtom \in Nat
  BY AdminAssumption DEF MaxFeeCents, MaxWithdrawAtom
<1> QED BY <1>3, <1>4, <1>5 DEF AtMost

LEMMA LimitsOfPool ==
  ASSUME NEW p, AllFields(p, PoolTypes), Validate(p)
  PROVE  /\ p.minFee \in Nat /\ p.maxFee \in Nat /\ p.treasuryCut \in Nat
         /\ p.liquidityTarget \in Nat \ {0}
         /\ p.minFee <= p.maxFee /\ p.maxFee <= 1000 /\ p.treasuryCut <= 7500
<1>1. \A f \in DOMAIN PoolTypes : p[f] \in PoolTypes[f]
  BY DEF AllFields
<1>2. /\ p.minFee \in Nat /\ p.maxFee \in Nat /\ p.treasuryCut \in Nat
      /\ p.liquidityTarget \in Nat
  BY <1>1 DEF PoolTypes
<1> QED BY <1>2, AdminAssumption DEF Validate

LEMMA InitLimits == Initialize => AdminInv
<1> SUFFICES ASSUME Initialize PROVE AdminInv
  OBVIOUS
<1>1. PICK given \in Initials :
        /\ given.rewardFee <= AtMost.rewardFee
        /\ given.slotsForStakeDelta >= AtLeast.slotsForStakeDelta
        /\ given.minStake >= AtLeast.minStake
        /\ Validate(given.pool)
        /\ config = Initialized(given)
        /\ pool = given.pool
        /\ authority \in [Offices -> Keys]
        /\ paused = FALSE
  BY Zenon DEF Initialize
<1>2. /\ given.rewardFee \in Nat /\ given.slotsForStakeDelta \in Nat
      /\ given.minStake \in Nat /\ AllFields(given.pool, PoolTypes)
  BY AdminAssumption
<1>3. AllFields(config, ConfigTypes)
  <2>1. config = [f \in DOMAIN ConfigTypes |-> config[f]]
    BY <1>1, SMT DEF ConfigTypes, Initialized
  <2>2. \A f \in DOMAIN ConfigTypes : config[f] \in ConfigTypes[f]
    <3>1. \A f \in DOMAIN ConfigTypes \ {"withdrawStakeAccountEnabled"} :
            Initialized(given)[f] \in ConfigTypes[f]
      BY <1>2, SMT DEF ConfigTypes, Initialized, Unlimited, MaxBasisPoints
    <3>2. Initialized(given).withdrawStakeAccountEnabled = FALSE
      BY DEF Initialized
    <3>3. ConfigTypes["withdrawStakeAccountEnabled"] = BOOLEAN
      BY DEF ConfigTypes
    <3>4. Initialized(given)["withdrawStakeAccountEnabled"] \in ConfigTypes["withdrawStakeAccountEnabled"]
      BY <3>2, <3>3, Zenon
    <3> QED BY <1>1, <3>1, <3>4
  <2> QED BY <2>1, <2>2 DEF AllFields
<1>4. AllFields(pool, PoolTypes) /\ Validate(pool)
  BY <1>1, <1>2
<1>5. Accepted(config)
  <2>1. 1 <= MaxWithdrawAtom
    BY AdminAssumption DEF MaxWithdrawAtom
  <2> QED BY <1>1, <1>2, <2>1 DEF Accepted, Initialized, AtMost, AtLeast, MaxFeeCents
<1>6. pool.maxFee <= MaxBasisPoints /\ pool.treasuryCut <= MaxBasisPoints
  BY <1>4, LimitsOfPool DEF MaxBasisPoints
<1>7. paused \in BOOLEAN /\ authority \in [Offices -> Keys]
  BY <1>1
<1> QED BY <1>3, <1>4, <1>5, <1>6, <1>7 DEF AdminInv, AdminTypeOK

LEMMA NextLimits == AdminInv /\ [AdminNext]_adminVars => AdminInv'
<1> SUFFICES ASSUME AdminInv, [AdminNext]_adminVars PROVE AdminInv'
  OBVIOUS
<1>1. /\ AllFields(config, ConfigTypes) /\ AllFields(pool, PoolTypes)
      /\ authority \in [Offices -> Keys] /\ paused \in BOOLEAN
      /\ Accepted(config) /\ Validate(pool)
  BY DEF AdminInv, AdminTypeOK
<1>2. ASSUME NEW k \in Keys, NEW asked \in MarinadeRequests, ConfigMarinade(k, asked)
      PROVE  AllFields(config, ConfigTypes)' /\ Accepted(config)'
  <2>1. config' = Asked(asked, config) /\ Accepted(asked)
    BY <1>2 DEF ConfigMarinade
  <2>2. SomeFields(asked, ConfigTypes)
    BY AdminAssumption
  <2>3. AllFields(Asked(asked, config), ConfigTypes)
    BY <1>1, <2>2, AskedFields
  <2>4. Accepted(Asked(asked, config))
    BY <1>1, <2>1, AskedAccepted
  <2> QED BY <2>1, <2>3, <2>4
<1>3. ASSUME NEW k \in Keys, NEW asked \in LpRequests, ConfigLp(k, asked)
      PROVE  AllFields(pool, PoolTypes)' /\ Validate(pool)'
  <2>1. pool' = Asked(asked, pool) /\ Validate(Asked(asked, pool))
    BY <1>3 DEF ConfigLp
  <2>2. SomeFields(asked, PoolTypes)
    BY AdminAssumption
  <2>3. AllFields(Asked(asked, pool), PoolTypes)
    BY <1>1, <2>2, AskedFields
  <2> QED BY <2>1, <2>3
<1>4. ASSUME NEW k \in Keys, NEW asked \in AuthorityRequests, ChangeAuthority(k, asked)
      PROVE  authority' \in [Offices -> Keys]
  <2>1. authority' = Asked(asked, authority)
    BY <1>4 DEF ChangeAuthority
  <2>2. \A o \in DOMAIN asked : o \in Offices /\ asked[o] \in Keys
    BY AdminAssumption DEF SomeFields
  <2> QED BY <1>1, <2>1, <2>2 DEF Asked
<1>5. /\ AllFields(config, ConfigTypes)' /\ Accepted(config)'
      /\ AllFields(pool, PoolTypes)' /\ Validate(pool)'
      /\ (authority \in [Offices -> Keys])' /\ (paused \in BOOLEAN)'
  <2>1. CASE UNCHANGED adminVars
    BY <1>1, <2>1 DEF adminVars
  <2>2. ASSUME NEW k \in Keys, NEW asked \in MarinadeRequests, ConfigMarinade(k, asked)
        PROVE  UNCHANGED <<pool, authority, paused>>
    BY <2>2 DEF ConfigMarinade
  <2>3. ASSUME NEW k \in Keys, NEW asked \in LpRequests, ConfigLp(k, asked)
        PROVE  UNCHANGED <<config, authority, paused>>
    BY <2>3 DEF ConfigLp
  <2>4. ASSUME NEW k \in Keys, NEW asked \in AuthorityRequests, ChangeAuthority(k, asked)
        PROVE  UNCHANGED <<config, pool, paused>>
    BY <2>4 DEF ChangeAuthority
  <2>5. ASSUME NEW k \in Keys, Pause(k) \/ Resume(k)
        PROVE  UNCHANGED <<config, pool, authority>> /\ paused' \in BOOLEAN
    BY <2>5 DEF Pause, Resume
  <2> QED BY <1>1, <1>2, <1>3, <1>4, <2>1, <2>2, <2>3, <2>4, <2>5 DEF AdminNext
<1> QED BY <1>5, LimitsOfPool DEF AdminInv, AdminTypeOK, MaxBasisPoints

LEMMA LimitsAlways == AdminSpec => []AdminInv
<1> QED BY InitLimits, NextLimits, PTL DEF AdminSpec

(* Every parameter stays of its type: no instruction loses a field.          *)
THEOREM AdminTypes == AdminSpec => []AdminTypeOK
<1>1. AdminInv => AdminTypeOK
  BY DEF AdminInv
<1> QED BY <1>1, LimitsAlways, PTL

(* Two shares one after the other are at most the share of twice the top.    *)
LEMMA TwoShares ==
  ASSUME NEW M \in Nat \ {0}, NEW top \in Nat, 2 * top <= M,
         NEW c \in 0 .. top, NEW d \in 0 .. top, NEW n \in Nat,
         NEW f, f = (n * c) \div M,
         NEW g, g = ((n - f) * d) \div M
  PROVE  f + g <= (n * (2 * top)) \div M
<1> DEFINE m == n - f
           h == (n * (2 * top)) \div M
<1>0. c \in 0 .. M /\ d \in 0 .. M /\ 2 * top \in 0 .. M
  OBVIOUS
<1>1. f \in 0 .. n /\ M * f <= n * c
  BY <1>0, Share
<1>2. m \in Nat /\ m <= n
  BY <1>1
<1>3. g \in Nat /\ M * g <= m * d
  BY <1>0, <1>2, Share
<1>4. h \in Nat /\ n * (2 * top) < M * h + M
  BY <1>0, Share
<1> HIDE DEF m, h
<1>5. m * d <= n * top
  <2>1. m * d <= n * d
    BY <1>2
  <2>2. n * d <= n * top
    OBVIOUS
  <2> QED BY <1>2, <2>1, <2>2
<1>6. n * c <= n * top
  OBVIOUS
<1>7. M * (f + g) < M * (h + 1)
  <2>1. n * (2 * top) = n * top + n * top
    OBVIOUS
  <2>2. M * f + M * g < M * h + M
    <3>1. n * top \in Nat /\ n * c \in Nat /\ m * d \in Nat
      BY <1>2
    <3>2. M * f \in Nat /\ M * g \in Nat /\ M * h \in Nat
      BY <1>1, <1>3, <1>4
    <3> QED BY <1>1, <1>3, <1>4, <1>5, <1>6, <2>1, <3>1, <3>2
  <2> QED BY <1>1, <1>3, <1>4, <2>2
<1>8. f + g < h + 1
  BY <1>1, <1>3, <1>4, <1>7
<1> QED BY <1>1, <1>3, <1>4, <1>8 DEF h

(* The fees in millionths are such shares, and the highest is small.         *)
LEMMA FeesInMillionths ==
  /\ MaxBpCents \in Nat \ {0}
  /\ MaxFeeCents \in Nat /\ 2 * MaxFeeCents \in 0 .. MaxBpCents
  /\ \A c, n : FeeCents(c, n) = (n * c) \div MaxBpCents
<1>1. MaxBpCents \in Nat \ {0} /\ MaxFeeCents \in Nat /\ 2 * MaxFeeCents \in 0 .. MaxBpCents
  <2>1. 1000000 \in Nat /\ 1000000 # 0 /\ 2000 \in Nat
    BY SMT
  <2>2. 2 * 2000 <= 1000000
    BY SMT
  <2>3. MaxBpCents \in Nat /\ MaxBpCents # 0 /\ MaxFeeCents \in Nat
    BY <2>1, SMT DEF MaxBpCents, MaxFeeCents
  <2>4. 2 * MaxFeeCents <= MaxBpCents
    BY <2>2, SMT DEF MaxBpCents, MaxFeeCents
  <2> QED BY <2>3, <2>4, SMT
<1>2. \A c, n : FeeCents(c, n) = (n * c) \div MaxBpCents
  BY SMT DEF FeeCents
<1> QED BY <1>1, <1>2

LEMMA FeeBounds ==
  ASSUME NEW c \in 0 .. MaxFeeCents, NEW n \in Nat
  PROVE  /\ FeeCents(c, n) \in 0 .. n
         /\ FeeCents(c, n) <= FeeCents(MaxFeeCents, n)
         /\ FeeCents(MaxFeeCents, n) \in 0 .. n
<1>1. c \in 0 .. MaxBpCents /\ MaxFeeCents \in 0 .. MaxBpCents
  BY FeesInMillionths
<1>2. (n * c) \div MaxBpCents \in 0 .. n /\ (n * MaxFeeCents) \div MaxBpCents \in 0 .. n
  BY <1>1, FeesInMillionths, Share
<1>3. (n * c) \div MaxBpCents <= (n * MaxFeeCents) \div MaxBpCents
  <2>1. n * c \in Nat /\ n * MaxFeeCents \in Nat /\ n * c <= n * MaxFeeCents
    BY FeesInMillionths
  <2> QED BY <2>1, FeesInMillionths, ShareMonotone
<1> QED BY <1>2, <1>3, FeesInMillionths

(* Whatever the parameters became, all that is worth 0.1 SOL after the       *)
(* highest fee can be ordered, and a deposit that is ordered back loses no   *)
(* more than twice the highest fee.                                          *)
THEOREM UsersAlwaysCanLeave == AdminSpec => []UsersCanLeave
<1>1. ASSUME AdminInv PROVE UsersCanLeave
  <2> DEFINE d == config.depositSolFee
             u == config.delayedUnstakeFee
  <2>1. d \in 0 .. MaxFeeCents /\ u \in 0 .. MaxFeeCents
    BY <1>1, LimitsOfConfig DEF AdminInv, AdminTypeOK
  <2>2. config.minWithdraw \in 0 .. MaxWithdrawAtom /\ MaxWithdrawAtom \in Nat
    BY <1>1, LimitsOfConfig, AdminAssumption DEF AdminInv, AdminTypeOK, MaxWithdrawAtom
  <2> SUFFICES ASSUME NEW n \in Nat
               PROVE  /\ n - FeeCents(MaxFeeCents, n) >= MaxWithdrawAtom
                           => n - FeeCents(u, n) >= config.minWithdraw
                      /\ (n - FeeCents(d, n)) - FeeCents(u, n - FeeCents(d, n))
                           >= n - FeeCents(2 * MaxFeeCents, n)
    BY AdminAssumption DEF UsersCanLeave, TicketValue
  <2> HIDE DEF d, u
  <2>3. n - FeeCents(MaxFeeCents, n) >= MaxWithdrawAtom => n - FeeCents(u, n) >= config.minWithdraw
    BY <2>1, <2>2, FeeBounds
  <2>4. FeeCents(d, n) + FeeCents(u, n - FeeCents(d, n)) <= FeeCents(2 * MaxFeeCents, n)
    <3>1. /\ FeeCents(d, n) = (n * d) \div MaxBpCents
          /\ FeeCents(u, n - FeeCents(d, n)) = ((n - FeeCents(d, n)) * u) \div MaxBpCents
          /\ FeeCents(2 * MaxFeeCents, n) = (n * (2 * MaxFeeCents)) \div MaxBpCents
      BY FeesInMillionths
    <3>2. MaxBpCents \in Nat \ {0} /\ MaxFeeCents \in Nat /\ 2 * MaxFeeCents <= MaxBpCents
      BY FeesInMillionths
    <3> QED BY <2>1, <3>1, <3>2, TwoShares
  <2>5. /\ FeeCents(d, n) \in 0 .. n
        /\ FeeCents(u, n - FeeCents(d, n)) \in Nat
    BY <2>1, FeeBounds
  <2>6. FeeCents(2 * MaxFeeCents, n) \in Nat
    BY FeesInMillionths, Share
  <2> QED BY <2>3, <2>4, <2>5, <2>6
<1> QED BY <1>1, LimitsAlways, PTL

(* Whatever the parameters became, the fee of the pool stays between its     *)
(* minimum and its maximum, at most 10 %, and falls with the liquidity.      *)
THEOREM SwapFeeAlwaysBounded == AdminSpec => []SwapFeeBounded
<1>1. ASSUME AdminInv PROVE SwapFeeBounded
  <2> DEFINE min == pool.minFee
             max == pool.maxFee
             target == pool.liquidityTarget
             Cut(n) == (n * (max - min)) \div target
  <2>1. /\ min \in Nat /\ max \in Nat /\ min <= max /\ max <= 1000
        /\ target \in Nat \ {0}
    BY <1>1, LimitsOfPool DEF AdminInv, AdminTypeOK
  <2>2. \A n : LinearFee(n) = IF n >= target THEN min ELSE max - ((max - min) * n) \div target
    BY <2>1 DEF LinearFee, Proportional, SatSub
  <2> HIDE DEF min, max, target
  <2>3. ASSUME NEW n \in Nat, n < target
        PROVE  ((max - min) * n) \div target \in 0 .. (max - min)
    BY <2>1, <2>3, Share
  <2>4. \A n \in Nat : LinearFee(n) \in min .. max
    BY <2>1, <2>2, <2>3
  <2>5. ASSUME NEW n \in Nat, NEW m \in Nat, n <= m PROVE LinearFee(m) <= LinearFee(n)
    <3>1. CASE m >= target
      BY <2>1, <2>2, <2>4, <3>1
    <3>2. CASE m < target
      <4>1. (max - min) * n \in Nat /\ (max - min) * m \in Nat /\ (max - min) * n <= (max - min) * m
        BY <2>1, <2>5
      <4>2. ((max - min) * n) \div target <= ((max - min) * m) \div target
        BY <2>1, <4>1, ShareMonotone
      <4> QED BY <2>1, <2>2, <2>3, <2>5, <3>2, <4>2
    <3> QED BY <2>1, <3>1, <3>2
  <2> QED BY <2>1, <2>4, <2>5, AdminAssumption DEF SwapFeeBounded, min, max
<1> QED BY <1>1, LimitsAlways, PTL
=============================================================================
