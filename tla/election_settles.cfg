SPECIFICATION TimelySpec
CONSTANTS
  N = 3
  Settings <- PlainCluster
  MaxEpoch = 12
  MaxQueue = 4
  MaxExpire = 0
  MaxCrash = 1
  MaxBoot = 0
  MaxCommand = 0
  MaxDisturbed = 1
  Mortal = {0}
PROPERTY
  EventuallyStable
CHECK_DEADLOCK FALSE
