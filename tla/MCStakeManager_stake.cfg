SPECIFICATION Spec
CONSTANTS
  a1 = a1
  a2 = a2
  j1 = j1
  Accounts <- MCAccounts
  JobIds = {}
  MaxStakePerAddress = 3
  UnbondingPeriod = 2
  EmployerSlashPct = 50
  TreasurySlashPct = 0
  SlashRewardPct = 50
  FeePoolSet = TRUE
  Amounts = {1, 2}
  FeeAmounts = {}
  StakeRoles = {"Agent"}
  LockTimes = {1}
  PayoutPcts = {100, 150}
  MinStakes = {1}
  FeeBurnPcts <- MCNoFeeBurn
  UnbondingPeriods = {1, 2}
  Funds = 2
  MaxTime = 1
SYMMETRY Symmetry
INVARIANTS
  TypeOK
  LocksCovered
  StakeAccounting
PROPERTIES
  UnbondNeverEased
