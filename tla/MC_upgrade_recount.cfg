SPECIFICATION Spec
CONSTANTS
  a1 = a1
  a2 = a2
  a3 = a3
  Accounts = {a1, a2, a3}
  NumValidators = 2
  MinStake = 1
  Stakes = {1}
  Miscounted = {0}
  Deposits = {}
  Rewards = {}
  Slashes = {}
  Tips = {}
  MaxLamports = 3
  LateDelinquency = {"IteratingStakes", "Done"}
SYMMETRY AccountSymmetry
INVARIANTS StakeNumbersInLine
CHECK_DEADLOCK FALSE
