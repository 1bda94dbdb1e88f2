SPECIFICATION Spec
CONSTANTS
  NumShards = 2
  Size = 2
  Instances = {i1, i2}
  MaxSlice = 1
  MaxPolls = 1
  MaxFaults = 1
  MaxCalls = 3
SYMMETRY MCSymmetry
INVARIANTS ShardSuccessIsFlushed JobSuccessIsFlushed ActiveHasTask
CHECK_DEADLOCK FALSE
