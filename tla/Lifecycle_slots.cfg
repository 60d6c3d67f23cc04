SPECIFICATION Spec
CONSTANTS
  Ids = {d1, d2}
  Callers = {c1}
  MaxConcurrent = 1
  AutoRetry = 0
  MaxCalls = 1
  MaxExits = 1
  Ops = {"pause", "resume", "remove", "clear", "redownload"}
\* Every download may be finished and nobody call.
CHECK_DEADLOCK FALSE
SYMMETRY Symmetry
INVARIANTS TypeOK EveryRunIsWatched SlotsRespected
