SPECIFICATION FairSpec
CONSTANTS
    Labels <- MCLabels
    Norm <- MCNorm
    Employed <- MCEmployed
    Kinds <- MCKinds
    Tests <- MCTests
    Spawners = {s1, s2}
    MinTasks = 1
    MinRate = 65
    MaxPerCategory = 1
    NicheThreshold = 1
    BaseMinSamples = 1
    BaseMinRate = 50
    MinNewRecords = 1
    MaxJobs = 2
    MaxObserved = 1
    MaxWallets = 3
    MaxCrashes = 1
CHECK_DEADLOCK FALSE
INVARIANTS
  TypeOK
  ClearedMeansServed
  CategoryCap
  ActiveSound
PROPERTIES
  CatchesUp
  NicheServed
