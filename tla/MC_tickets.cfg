SPECIFICATION TimelySpec
CONSTANTS
  c1 = c1
  a1 = a1
  a2 = a2
  a3 = a3
  v1 = v1
  t1 = t1
  t2 = t2
  Accounts = {c1, a1, a2, a3}
  Validators = {v1}
  Canonical <- OneCanonical
  Tickets = {t1, t2}
  MinStake = 1
  MinWithdraw = 1
  StakingSolCap = 4
  MaxStakeMovedBp = 10000
  StakeRent = 1
  MaxEpoch = 2
  MaxLamports = 4
  Scores = {1}
  ExtraRuns = {0}
  Deposits = {3}
  StakeDeposits = {}
  Orders = {1, 3}
  Withdrawals = {}
  Unstakes = {}
  Rewards = {}
  Slashes = {}
  Tips = {}
  Donations = {1}
  Delinquents = {}
  MayPause = FALSE
INVARIANTS DueTicketsCovered
PROPERTIES TicketsPaid
