SPECIFICATION CalmSpec
CONSTANTS
  c1 = c1
  a1 = a1
  a2 = a2
  a3 = a3
  a4 = a4
  v1 = v1
  v2 = v2
  c2 = c2
  t1 = t1
  Accounts = {c1, c2, a1, a2, a3, a4}
  Validators = {v1, v2}
  Canonical <- TwoCanonical
  Tickets = {t1}
  MinStake = 1
  MinWithdraw = 1
  StakingSolCap = 8
  MaxStakeMovedBp = 10000
  StakeRent = 1
  MaxEpoch = 2
  MaxLamports = 8
  Scores = {1}
  ExtraRuns = {0}
  Deposits = {8}
  StakeDeposits = {}
  Orders = {2}
  Withdrawals = {2}
  Unstakes = {}
  Rewards = {}
  Slashes = {}
  Tips = {}
  Donations = {}
  Delinquents = {}
  MayPause = FALSE
SYMMETRY FreshSymmetry
INVARIANTS DueTicketsCovered
