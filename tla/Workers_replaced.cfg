SPECIFICATION Spec
CONSTANTS
  Total = 5
  Align = 2
  MinSplit = 2
  NoWorker = NoWorker
  Workers = {w1, w2}
  Modes = {"segmented", "ranged", "stream"}
  Initial = 1
  MaxConn = 2
  MaxWrite = 3
  MaxRetries = 1
  MaxRefresh = 1
  IfRange = TRUE
  LastVersion = 2
  Blank = 0
\* The attempt ends: phase Ended has no step.
CHECK_DEADLOCK FALSE
SYMMETRY Symmetry
INVARIANTS IInv OneVersion
PROPERTIES ImplementsTransfer
