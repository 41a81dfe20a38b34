SPECIFICATION FairSpec
CONSTANTS
  Workers = {w1, w2}
  MaxCRs = 1
  MaxRuns = 2
  MaxFaults = 1
  Replay = TRUE
INVARIANTS
  TypeOK
  OneRunInFlight
  SucceededIsTrue
PROPERTY MigrationSettles
CHECK_DEADLOCK FALSE
