SPECIFICATION Spec
CONSTANTS
  Drives = {d1, d2}
  SharedStorage = FALSE
  Packets = {}
  TapIface = FALSE
  PlugLimit = 0
  MirrorsMayFail = FALSE
  TunnelNone = TRUE
  ReplayMode = FALSE
INVARIANT MirrorsTornDown
CHECK_DEADLOCK FALSE
