SPECIFICATION Spec
CONSTANTS
  c1 = c1
  c2 = c2
  a1 = a1
  a2 = a2
  v1 = v1
  v2 = v2
  t1 = t1
  t2 = t2
  Accounts = {c1, a1, a2}
  Validators = {v1}
  Canonical <- OneCanonical
  Tickets = {t1}
  MinStake = 1
  MinWithdraw = 1
  StakingSolCap = 4
  MaxStakeMovedBp = 10000
  StakeRent = 1
  MaxEpoch = 1
  MaxLamports = 4
  Scores = {1}
  ExtraRuns = {0}
  Deposits = {3}
  StakeDeposits = {}
  Orders = {2}
  Withdrawals = {}
  Unstakes = {1}
  Rewards = {}
  Slashes = {}
  Tips = {}
  Donations = {}
  Delinquents = {}
  MayPause = FALSE
SYMMETRY FreshSymmetry
INVARIANTS RetrievableByAnyone
