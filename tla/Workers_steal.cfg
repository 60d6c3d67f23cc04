SPECIFICATION Spec
CONSTANTS
  Total = 6
  Align = 1
  MinSplit = 2
  NoWorker = NoWorker
  Workers = {w1, w2, w3}
  Modes = {"segmented"}
  Initial = 1
  MaxConn = 2
  MaxWrite = 2
  MaxRetries = 0
  MaxRefresh = 0
  IfRange = TRUE
  LastVersion = 1
  Blank = 0
\* The attempt ends: phase Ended has no step.
CHECK_DEADLOCK FALSE
SYMMETRY Symmetry
INVARIANTS TypeOK MapTiles OwnersAgree RecordedIsWritten WritesStayInside ConnectionsBounded SuccessIsComplete
PROPERTIES SplitsStayLarge ImplementsTransfer
