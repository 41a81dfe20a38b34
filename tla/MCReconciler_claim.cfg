SPECIFICATION Spec
CONSTANTS
  Workers = {w1, w2}
  MaxCRs = 2
  MaxRuns = 1
  MaxFaults = 0
  Replay = FALSE
INVARIANT OneGoroutine
CHECK_DEADLOCK FALSE
