SPECIFICATION Spec
CONSTANTS
  Profiles = {"optlrc_9_4_2", "optlrc_10_6_4", "optlrc_10_6_3", "optlrc_15_8_4",
              "optlrc_15_8_5", "optlrc_16_12_7", "optlrc_18_12_3", "optlrc_18_12_4",
              "optlrc_15_10_4", "optlrc_14_10_4", "optlrc_12_8_3", "optlrc_12_8_4",
              "optlrc_17_12_4", "optlrc_14_10_6", "optlrc_14_10_5", "optlrc_12_8_5",
              "optlrc_17_12_5", "optlrc_15_10_5"}
  FastProfiles = {"optlrc_9_4_2"}
  Thorough = {"optlrc_9_4_2"}
  MaxFaults = 2
INVARIANTS
  TypeOK
  RecoveredIsRight
  ReadIsRight
  NoAssertFails
