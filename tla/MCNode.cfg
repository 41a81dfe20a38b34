SPECIFICATION Spec
CONSTANTS
  Vms = {v1, v2}
  Sandboxes = {s1}
  MaxStops = 1
  CommandLines <- MCCommandLines
  Markers = {"vmconfig", "agentconfig"}
  Logs <- MCLogs
  ScanLimits <- MCScanLimits
  maxLine = 4
INVARIANTS
  TypeOK
  OwnQEMU
  ServedOnce
  OfferedOrMissed
  CommandLinesReplay
  MarkersAreWhole
SYMMETRY Symmetry
CHECK_DEADLOCK FALSE
