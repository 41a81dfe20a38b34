SPECIFICATION Spec
CONSTANTS
  Workers = {w1, w2}
  MaxCRs = 1
  MaxRuns = 1
  MaxFaults = 0
  Replay = FALSE
INVARIANT NoOrphanJobs
CHECK_DEADLOCK FALSE
