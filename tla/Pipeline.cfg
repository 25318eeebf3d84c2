SPECIFICATION FairSpec
CONSTANTS
  N = 3
  Cap = 1
  MaxOps = 2
INVARIANTS TypeOK EofMeansReleased NothingOutlives
PROPERTIES AllEnd
CHECK_DEADLOCK FALSE
