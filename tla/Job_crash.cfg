SPECIFICATION ServersSpec
CONSTANTS
  Total = 2
  Align = 1
  MinSplit = 1
  NoWorker = NoWorker
  Workers = {w1, w2}
  Modes = {"segmented", "ranged", "stream"}
  Initial = 2
  MaxConn = 2
  MaxWrite = 1
  MaxRetries = 0
  MaxRefresh = 0
  IfRange = TRUE
  LastVersion = 2
  Blank = 0
  Comparable = TRUE
  Announced = FALSE
  MaxRestarts = 1
  MaxRuns = 2
  MaxCrashes = 1
  DiskFaults = TRUE
  Edited = FALSE
  None = None
\* A download that has ended stays as it is.
CHECK_DEADLOCK FALSE
SYMMETRY Symmetry
INVARIANTS SavedIsDurable ResumedIsWritten FinalIsWhole FinalIsOneVersion
PROPERTIES PauseKeepsProgress ResumeTakesUp
