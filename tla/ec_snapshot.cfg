SPECIFICATION Spec
CONSTANTS
  Shard = {0, 1}
  Primary = 0
  Stripe = {1}
  Plans <- SnapshotPlans
  MaxVersion = 2
  MaxLogUpdate = 0
  MaxInterval = 0
INVARIANT
  OverwritesMerge
CHECK_DEADLOCK FALSE
