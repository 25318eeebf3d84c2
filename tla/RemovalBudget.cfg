CONSTANTS
  Stages = {s1, s2}
  Files = {f1, f2}
  Dirs = {d1}
  MaxFileRemovalsPerRun = 1
  MaxRemoveFiles = 2
  MaxCreates = 1
SPECIFICATION Spec
INVARIANTS TypeOK BudgetHolds CounterExact
PROPERTIES IsRunLimit RmTerminates
CHECK_DEADLOCK FALSE
