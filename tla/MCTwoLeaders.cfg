SPECIFICATION Spec
CONSTANTS
  Sentinels = {s1, s2, s3}
  Instances = {i1, i2}
  FirstMaster = i1
  Quorum = 2
  Nobody = Nobody
  MaxStarts = 3
  MaxIncidents = 1
  LongRun = FALSE
SYMMETRY Symmetry
INVARIANT OneLeaderPerEpoch
CHECK_DEADLOCK FALSE
