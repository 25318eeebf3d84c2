SPECIFICATION HangingSpec
CONSTANTS
  e1 = e1
  f1 = f1
  Editors <- OneEditor
  Files <- SameFileTwice
  MaxOps = 2
  PinCap = 1
  WriteCap = 1
  OldLen = 2
  NewLens <- SomeLengths
INVARIANT TasksAccounted
  
CHECK_DEADLOCK FALSE
