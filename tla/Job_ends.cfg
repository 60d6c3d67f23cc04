SPECIFICATION FairJobSpec
CONSTANTS
  Total = 2
  Align = 1
  MinSplit = 1
  NoWorker = NoWorker
  Workers = {w1}
  Modes = {"segmented", "ranged", "stream"}
  Initial = 1
  MaxConn = 1
  MaxWrite = 1
  MaxRetries = 0
  MaxRefresh = 0
  IfRange = FALSE
  LastVersion = 2
  Blank = 0
  Comparable = FALSE
  Announced = TRUE
  MaxRestarts = 1
  MaxRuns = 2
  MaxCrashes = 1
  DiskFaults = TRUE
  Edited = FALSE
  None = None
\* A download that has ended stays as it is.
CHECK_DEADLOCK FALSE
INVARIANTS JobInv
PROPERTIES RunEnds
