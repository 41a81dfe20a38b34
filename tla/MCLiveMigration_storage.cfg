SPECIFICATION Spec
CONSTANTS
  Drives = {d1, d2}
  SharedStorage = FALSE
  Packets = {}
  TapIface = FALSE
  PlugLimit = 0
  MirrorsMayFail = TRUE
  TunnelNone = FALSE
  ReplayMode = TRUE
SYMMETRY DriveSymmetry
INVARIANTS
  TypeOK
  ResumedOnCurrentDisk
  SourceWithdraws
PROPERTY
  IsHandover
CHECK_DEADLOCK FALSE
