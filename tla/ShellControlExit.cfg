SPECIFICATION Spec
CONSTANTS
  MaxDepth = 3
  MaxLevels = 2
  Codes = {0, 1}
  FatalDepth = 0
INVARIANT ExitStatusKept
CHECK_DEADLOCK FALSE
