SPECIFICATION Spec
CONSTANTS
  MaxDepth = 4
  MaxLevels = 2
  Codes = {0, 1}
  FatalDepth = 1
PROPERTY ControlExact
CHECK_DEADLOCK FALSE
