SPECIFICATION PriceSpec
CONSTANTS
  MinDeposit = 1
  MinWithdraw = 1
  MinStake = 1
  StakingSolCap = 24
  RewardFee = 5000
  DepositSolFee = 200000
  DepositStakeAccountFee = 250000
  DelayedUnstakeFee = 200000
  WithdrawStakeAccountFee = 200000
  MaxU64 = 28
  Deposits = {3, 5}
  StakeDeposits = {2, 4}
  Orders = {2, 3}
  Withdrawals = {3, 4}
  Burns = {1}
  Gifts = {1}
  Tips = {1}
  Rewards = {2, 6}
  Slashes = {}
  Legs = {0, 2}
PROPERTIES ImplementsVault PriceNeverFalls RoundingBounded MintNeverGains
