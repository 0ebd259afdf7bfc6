SPECIFICATION FairSpec
CONSTANTS
  None = None
  deployer = deployer
  governor = governor
  safe = safe
  multisig = multisig
  vault = vault
  registry = registry
  root = root
  otherRoot = otherRoot
  MaxAttempts = 2
  MaxKills = 1
  Setups <- MCSetups
  Copies <- MCCopies
CHECK_DEADLOCK FALSE
INVARIANTS
  TypeOK
  VerifiedMeansDeployed
  RefusedOnlyForConfig
PROPERTIES
  OwnersAsReported
  Migrates
  Transfers
