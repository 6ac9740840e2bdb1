SPECIFICATION Spec
CONSTANTS
  Mon = {0, 1, 2}
  MaxEpoch = 4
INVARIANTS
  TypeOK
  OneLeaderPerEpoch
  OneCompleteQuorum
  ServingIsRecorded
