SPECIFICATION FairSpec
CONSTANTS
  NumShards = 1
  Size = 2
  Instances = {i1, i2}
  MaxSlice = 1
  MaxPolls = 1
  MaxFaults = 1
  MaxCalls = 3
PROPERTIES JobEnds
CHECK_DEADLOCK FALSE
