SPECIFICATION FairSpec
CONSTANTS
  Drives = {}
  SharedStorage = TRUE
  Packets = {}
  TapIface = FALSE
  PlugLimit = 0
  MirrorsMayFail = FALSE
  TunnelNone = FALSE
  ReplayMode = FALSE
PROPERTY SourceReturns
CHECK_DEADLOCK FALSE
