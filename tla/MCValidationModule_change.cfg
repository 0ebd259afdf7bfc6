CHECK_DEADLOCK FALSE
SPECIFICATION FairSpec
CONSTANTS
  v1 = v1
  v2 = v2
  c1 = c1
  c2 = c2
  registry = registry
  Jobs = {1}
  Validators = {v1, v2}
  Callers = {c1, c2}
  Registry = registry
  Pools <- MCPools
  Params <- MCChanging
  InitialStakes <- MCStakes
  StakeChanges = {}
  Blacklistable = {}
  BurnSettings = {FALSE, TRUE}
  SlashAccepted = FALSE
  SlashPct = 7
  PenaltyBps = 600
  BanBlocks = 2
  EarlyDelay = 1
  Grace = 1
  SampleSize = 2
  Strategies = {"Reservoir"}
  HashWindow = 1
  OwnerResets = FALSE
  MaxTime = 6
PROPERTIES
  ApprovalJustified
  JobsDecided
