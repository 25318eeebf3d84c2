SPECIFICATION Spec
CONSTANTS
  Units = {u1, u2}
  MaxSignalQueue = 1
  MaxSignalsRead = 3
  MaxOperands = 2
  MaxOthers = 3
INVARIANT OutcomeTrue
PROPERTIES CommandEnds
CHECK_DEADLOCK FALSE
