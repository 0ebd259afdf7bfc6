SPECIFICATION Spec
CONSTANTS
  e1 = e1
  g1 = g1
  g2 = g2
  v1 = v1
  v2 = v2
  none = none
  Accounts = {e1, g1, v1}
  Employers = {e1}
  Agents = {g1}
  Validators = {v1}
  None = none
  JobIds = {1, 2}
  MaxStakePerAddress = 0
  UnbondingPeriod = 1
  EmployerSlashPct = 50
  TreasurySlashPct = 0
  SlashRewardPct = 50
  FeePoolSet = TRUE
  Rewards = {4}
  JobStakes = {1}
  Durations = {1}
  GracePeriod = 0
  MinAgentStake = 1
  MaxActiveJobs = 2
  RegistryFeePool = TRUE
  TreasurySet = TRUE
  FeeRewardPcts <- MCOnePct
  BurnPcts = {0}
  Deposits = {2}
  InitialPcts <- MCNoBonus
  PayoutPcts = {}
  Blacklistable = {}
  Funds <- MCTwoFunds
  MaxTime = 2
INVARIANTS
  ActiveJobsExact
  ExactlyBacked
