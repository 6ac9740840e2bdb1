SPECIFICATION PlannedSpec
CONSTANTS
  N = 5
  MaxEpoch = 10
  BusyEpoch = 10
  MaxOp = 2
  MaxCrash = 2
  MaxRenew = 0
  MaxTimeout = 0
  MaxDisturbed = 2
  MaxPn = 500
INVARIANT Agreement
CHECK_DEADLOCK FALSE
