CONSTANTS
  Stages = {s1, s2}
  Files = {f1, f2}
  Dirs = {d1}
  MaxFileRemovalsPerRun = 1
  MaxRemoveFiles = 2
  MaxCreates = 0
SPECIFICATION Spec
PROPERTIES RefusalIsFinal
CHECK_DEADLOCK FALSE
