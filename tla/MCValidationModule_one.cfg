SPECIFICATION Spec
CONSTANTS
  v1 = v1
  v2 = v2
  c1 = c1
  c2 = c2
  registry = registry
  Jobs = {1}
  Validators = {v1, v2}
  Callers = {c1, c2}
  Registry = registry
  Pools <- MCTwoPool
  Params <- MCFixed
  InitialStakes <- MCStakes
  StakeChanges = {0}
  Blacklistable = {v2}
  BurnSettings = {FALSE}
  SlashAccepted = TRUE
  SlashPct = 50
  PenaltyBps = 1000
  BanBlocks = 2
  EarlyDelay = 1
  Grace = 1
  SampleSize = 2
  Strategies = {"Reservoir", "Rotating"}
  HashWindow = 1
  OwnerResets = TRUE
  MaxTime = 9
INVARIANTS
  SeatsMatchCommittee
  CountsMatchSeats
PROPERTIES
  ImplementsSealedVote
