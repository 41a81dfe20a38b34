SPECIFICATION FairSpec
CONSTANTS
  Vms = {v1}
  Sandboxes = {s1}
  AdoptedSandboxID = s1
  Callers = {c1}
  Watches = {w1, w2}
  Migrated = v1
  Cleanups = {"none", "delete", "orphan"}
INVARIANTS
  NoColdTwin
  ClosedOnce
PROPERTIES
  SlotFilled
  WaitAnswered
CHECK_DEADLOCK FALSE
