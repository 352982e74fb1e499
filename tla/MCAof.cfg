SPECIFICATION FairSpec
CONSTANTS
  Policies = {"always", "everysec"}
  NoFsyncOnRewrite = TRUE
  MaxCommands = 2
  MaxRewrites = 1
  MaxSwitches = 2
  MaxCrashes = 1
  MaxFaults = 1
INVARIANTS  ReplayIsPast ReplayIsDataset AckedSurvives
PROPERTIES AofSettles
CHECK_DEADLOCK FALSE
