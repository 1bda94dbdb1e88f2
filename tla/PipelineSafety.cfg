SPECIFICATION Spec
CONSTANTS
  NumChildren = 2
  Kind <- MCJobAndSync
  After <- MCApart
  Args <- MCApart
  Instances = {i1, i2}
  MaxAttempts <- MCAttempts
  MaxRaises = 1
  MaxFaults = 1
  MaxTwice = 1
SYMMETRY MCSymmetry
INVARIANTS PipeTypeOK FinalizeWaitsForChildren OnlyPointedRun
PROPERTIES EndIsFinal
CHECK_DEADLOCK FALSE
