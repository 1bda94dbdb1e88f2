SPECIFICATION FairSpec
CONSTANTS
  NumChildren = 2
  Kind <- MCJobThenBare
  After <- MCThen
  Args <- MCThen
  Instances = {i1, i2}
  MaxAttempts <- MCAttempts
  MaxRaises = 1
  MaxFaults = 1
  MaxTwice = 0
PROPERTIES WorkflowEnds AbortReachesAll
CHECK_DEADLOCK FALSE
