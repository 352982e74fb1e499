SPECIFICATION Spec
CONSTANTS
  Policies = {"everysec"}
  NoFsyncOnRewrite = FALSE
  MaxCommands = 2
  MaxRewrites = 0
  MaxSwitches = 0
  MaxCrashes = 0
  MaxFaults = 0
INVARIANTS FsyncedIsDurable
CHECK_DEADLOCK FALSE
