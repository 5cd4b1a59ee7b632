SPECIFICATION FairSpec
CONSTANTS
  MaxOut <- Talkative
  Block = 2
  PendingCap = 2
  Scopes = {None, "route"}
  ExecModes = {"background", "yield"}
  None = None
CHECK_DEADLOCK FALSE
INVARIANTS
  GapsAreFlagged
  NoLostWakeup
PROPERTIES
  RemovalIsFinal
  RemovedDies
  ExitedArchived
