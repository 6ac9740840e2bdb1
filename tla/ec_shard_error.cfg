SPECIFICATION Spec
CONSTANTS
  Profiles = {"optlrc_9_4_2"}
  FastProfiles = {}
  Thorough = {}
  MaxFaults = 1
INVARIANT
  AnsweredIsDecoded
