SPECIFICATION FairSpec
CONSTANTS
  Modes = {"replay", "auto"}
  ChanCap = 1
  MaxLines = 1
  MaxApiErrors = 1
  JobsDeleted = TRUE
INVARIANTS
  TypeOK
  SucceededIsTrue
  OneVerdict
  ApplyErrorLeavesNoJob
PROPERTIES
  NoJobAfterStop
  RunWindsUp
CHECK_DEADLOCK FALSE
