SPECIFICATION FairSpec
CONSTANTS
  a1 = a1
  a2 = a2
  a3 = a3
  Accounts = {a1, a2}
  NumValidators = 2
  MinStake = 1
  Stakes = {1, 2}
  Miscounted = {0, 1}
  Deposits = {1}
  Rewards = {1}
  Slashes = {1}
  Tips = {1}
  MaxLamports = 3
  LateDelinquency = {"Done"}
INVARIANTS TypeOK StakeNumbersInLine ValidatorNumbersInLine ExactWhenDone PriceInvariant
PROPERTIES UpgradeFinishes
CHECK_DEADLOCK FALSE
