SPECIFICATION Spec
CONSTANTS
  N = 3
  Settings <- OldLeaderCluster
  MaxEpoch = 4
  MaxQueue = 2
  MaxExpire = 2
  MaxCrash = 0
  MaxBoot = 1
  MaxCommand = 0
  MaxDisturbed = 1
  Mortal = {}
INVARIANT
  OldPeersAreIgnored
CHECK_DEADLOCK FALSE
