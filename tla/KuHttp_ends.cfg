SPECIFICATION PartsSpec
CONSTANTS
  Min = 1
  Max = 8
  None = None
  NoWorker = NoWorker
  Workers = {w1, w2}
\* The attempt ends: phase Ended has no step.
CHECK_DEADLOCK FALSE
INVARIANTS TypeOK
PROPERTIES Settles AttemptEnds
