SPECIFICATION FairSpec
CONSTANTS
  N = 3
  MaxEpoch = 6
  BusyEpoch = 4
  MaxOp = 2
  MaxCrash = 1
  MaxRenew = 1
  MaxTimeout = 1
  MaxDisturbed = 1
  MaxPn = 500
INVARIANTS
  TypeOK
  Agreement
  LeaderKnowsAll
  PendingIsRecorded
  AckedIsDurable
  NoAssertFails
  NoStaleRead
  TimersMatchState
  WaitsWithTimer
PROPERTIES
  LogOnlyGrows
  NoProposalIsDropped
  ProposalsCommit
CHECK_DEADLOCK FALSE
