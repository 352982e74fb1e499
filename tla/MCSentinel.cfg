SPECIFICATION Spec
CONSTANTS
  Sentinels = {s1, s2, s3}
  Instances = {i1, i2}
  FirstMaster = i1
  Quorum = 2
  Nobody = Nobody
  MaxStarts = 2
  MaxIncidents = 1
  LongRun = TRUE
SYMMETRY Symmetry
INVARIANTS TypeOK VoteOncePerEpoch UndisturbedLeaderUnique ConfigurationWasWon
PROPERTY VoteEpochNeverBack
CHECK_DEADLOCK FALSE
