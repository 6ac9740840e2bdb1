SPECIFICATION FairSpec
CONSTANTS
  Shard = {0, 1}
  Primary = 0
  Stripe = {1, 2}
  Plans <- WritePlans
  MaxVersion = 3
  MaxLogUpdate = 1
  MaxInterval = 1
INVARIANTS
  TypeOK
  NoAssertFails
  CompleteInOrder
  RollForwardIsCommitted
PROPERTIES
  ImplementsECLog
  WritesAreFinal
CHECK_DEADLOCK FALSE
