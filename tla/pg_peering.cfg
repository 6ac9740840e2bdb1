SPECIFICATION Spec
CONSTANTS
  Pools <- SmallPools
  MaxVersion = 2
INVARIANTS
  TypeOK
  NoAssertFails
  KnownSurvives
  NothingIsLost
  PeerMissingIsRight
  AllUpCanPeer
CHECK_DEADLOCK FALSE
