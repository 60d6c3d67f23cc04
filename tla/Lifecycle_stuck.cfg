SPECIFICATION Spec
CONSTANTS
  Ids = {d1}
  Callers = {c1}
  MaxConcurrent = 1
  AutoRetry = 1
  MaxCalls = 2
  MaxExits = 0
  Ops = {"pause", "resume"}
\* Every download may be finished and nobody call.
CHECK_DEADLOCK FALSE
INVARIANTS Attended
