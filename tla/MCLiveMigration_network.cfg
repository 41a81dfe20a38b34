SPECIFICATION FairSpec
CONSTANTS
  Drives = {}
  SharedStorage = TRUE
  Packets = {p1, p2}
  TapIface = TRUE
  PlugLimit = 1
  MirrorsMayFail = FALSE
  TunnelNone = FALSE
  ReplayMode = FALSE
INVARIANTS
  TapNotLeftPlugged
  RedirectIsCovered
PROPERTIES
  PlugDelivers
  CutoverEnds
  RedirectWithdrawn
CHECK_DEADLOCK FALSE
