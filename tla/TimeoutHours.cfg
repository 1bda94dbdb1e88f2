SPECIFICATION TimeoutSpec
CONSTANTS
  Numbers = {1, 2, 10}
  Units = {"hr", "m", "s", "h"}
  MaxTokens = 2
INVARIANT
  DocumentedTimes
CHECK_DEADLOCK FALSE
