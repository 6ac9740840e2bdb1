SPECIFICATION Spec
CONSTANTS
  Profiles = {"optlrc_17_12_6"}
  FastProfiles = {}
  Thorough = {}
  MaxFaults = 1
INVARIANT
  RecoveredIsRight
