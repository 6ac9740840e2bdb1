SPECIFICATION Spec
CONSTANTS
  N = 3
  Settings <- EveryCluster
  MaxEpoch = 4
  MaxQueue = 2
  MaxExpire = 1
  MaxCrash = 1
  MaxBoot = 1
  MaxCommand = 1
  MaxDisturbed = 1
  Mortal = {}
INVARIANTS
  TypeOK
  NoAssertFails
  AckersReachedEpoch
  ExitedStaysOut
  ElectingHasTimer
  QuorumHasFeatures
PROPERTY
  ImplementsMonQuorum
CHECK_DEADLOCK FALSE
