SPECIFICATION Spec
CONSTANTS
  maxLogLines = 2
  maxPingLines = 2
  maxHistoryEntries = 1
  maxPageSamples = 2
  MaxMigrations = 2
  MaxLines = 4
  MaxLoads = 2
  MaxPings = 4
INVARIANTS
  TypeOK
  HistoryIsOwn
  ResultsAddUp
  PageIsExact
  SlotsHeld
CHECK_DEADLOCK FALSE
