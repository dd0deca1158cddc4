SPECIFICATION PoolSpec
CONSTANTS
  MinDeposit = 1
  MinWithdraw = 1
  MinStake = 1
  StakingSolCap = 5
  RewardFee = 5000
  DepositSolFee = 200000
  DepositStakeAccountFee = 250000
  DelayedUnstakeFee = 200000
  WithdrawStakeAccountFee = 200000
  MaxU64 = 5
  Deposits = {2, 4}
  StakeDeposits = {2}
  Orders = {2}
  Withdrawals = {3}
  Burns = {1}
  Gifts = {1}
  Tips = {}
  Rewards = {2}
  Slashes = {1}
  Legs = {}
  LiquidityTarget = 5
  LiquiditySolCap = 4
  LpMaxFee = 6000
  LpMinFee = 1000
  TreasuryCut = 5000
  Additions = {2, 3}
  Removals = {1, 2}
  Unstakes = {1, 3}
INVARIANTS PoolTypeOK
PROPERTIES PriceNeverFalls LpPriceKept SwapsNeverLose FeeCoversDepth
