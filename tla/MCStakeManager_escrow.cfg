SPECIFICATION Spec
CONSTANTS
  a1 = a1
  a2 = a2
  Accounts <- MCAccounts
  JobIds <- MCJobs
  j1 = j1
  MaxStakePerAddress = 3
  UnbondingPeriod = 1
  EmployerSlashPct = 50
  TreasurySlashPct = 0
  SlashRewardPct = 50
  FeePoolSet = TRUE
  Amounts = {2, 3}
  FeeAmounts = {2, 3}
  StakeRoles = {}
  LockTimes = {1}
  PayoutPcts = {100, 150}
  MinStakes = {1}
  FeeBurnPcts <- MCFeeBurn
  UnbondingPeriods = {1}
  Funds = 4
  MaxTime = 0
SYMMETRY Symmetry
INVARIANTS
  ExactlyBacked
