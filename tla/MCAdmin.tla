------------------------------ MODULE MCAdmin ------------------------------
(* A small instance of Admin for TLC: a SOL is 100 lamports.  Each parameter *)
(* that the properties read is asked for within, at and beyond its limit;    *)
(* the others take one new value or two.                                     *)
EXTENDS Admin, TLC

CONSTANTS k1, k2

Pool(min, max, target, cut) ==
  [minFee |-> min, maxFee |-> max, liquidityTarget |-> target, treasuryCut |-> cut]

Given(fee, slots, stake, p) ==
  [rewardFee |-> fee, slotsForStakeDelta |-> slots, minStake |-> stake, pool |-> p]

SomeInitials ==
  {Given(fee, slots, stake, p) :
     fee \in {1000, 1001}, slots \in {2999, 3000}, stake \in {0, 1},
     p \in {Pool(30, 300, 5000, 2500), Pool(300, 30, 5000, 2500), Pool(30, 300, 4999, 7501)}}

Fields(f, S) == {f :> x : x \in S}

SomeMarinadeRequests ==
  LET withdraw == Fields("minWithdraw", {0, 10, 11})
      unstake  == Fields("delayedUnstakeFee", {0, 2000, 2500})
      deposit  == Fields("depositSolFee", {0, 2000, 2500})
      others   == Fields("rewardFee", {1000, 1001}) \cup Fields("slotsForStakeDelta", {2999, 9000})
                    \cup Fields("minStake", {0, 5}) \cup Fields("maxStakeMovedPerEpoch", {20000})
  IN  withdraw \cup unstake \cup deposit \cup others
        \cup {r @@ s : r \in withdraw, s \in unstake \cup deposit}

SomeLpRequests ==
  UNION {[S -> {0, 300, 1000, 1001}] : S \in SUBSET {"minFee", "maxFee"}}
    \cup Fields("liquidityTarget", {4999, 7000}) \cup Fields("treasuryCut", {7500, 7501})
    \cup {f @@ t : f \in Fields("maxFee", {300, 1001}), t \in Fields("liquidityTarget", {4999, 5000})}

SomeAuthorityRequests ==
  UNION {[S -> Keys] : S \in {{"admin", "treasuryMsolAccount"}} \cup {{o} : o \in Offices}}

KeySymmetry == Permutations({k1, k2})
=============================================================================
