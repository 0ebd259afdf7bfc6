CHECK_DEADLOCK FALSE
SPECIFICATION FairSpec
CONSTANTS
  w1 = w1
  w2 = w2
  b1 = b1
  zero = zero
  none = none
  Wallets = {w1, w2}
  Receipts = {b1}
  Zero = zero
  None = none
  Tools <- MCTools
  BurnRequired = TRUE
  MaxSalts = 2
  MaxCrashes = 1
INVARIANTS
  TypeOK
  RecordOpens
  FileOpens
PROPERTIES
  RecordedVotesOpened
  ImplementsSealedVote
