SPECIFICATION JobSpec
CONSTANTS
  Total = 2
  Align = 1
  MinSplit = 1
  NoWorker = NoWorker
  Workers = {w1, w2}
  Modes = {"segmented", "ranged"}
  Initial = 2
  MaxConn = 2
  MaxWrite = 1
  MaxRetries = 0
  MaxRefresh = 0
  IfRange = TRUE
  LastVersion = 2
  Blank = 0
  Comparable = TRUE
  Announced = FALSE
  MaxRestarts = 0
  MaxRuns = 2
  MaxCrashes = 0
  DiskFaults = FALSE
  Edited = TRUE
  None = None
\* A download that has ended stays as it is.
CHECK_DEADLOCK FALSE
INVARIANTS FinalIsOneVersion
