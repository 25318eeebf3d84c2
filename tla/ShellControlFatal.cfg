SPECIFICATION Spec
CONSTANTS
  MaxDepth = 2
  MaxLevels = 2
  Codes = {0, 1}
  FatalDepth = 2
INVARIANT FatalAborts
CHECK_DEADLOCK FALSE
