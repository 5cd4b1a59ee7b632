SPECIFICATION Spec
CONSTANTS
  MaxOut <- Terse
  Block = 2
  PendingCap = 2
  Scopes = {"route"}
  ExecModes = {"yield"}
  None = None
CHECK_DEADLOCK FALSE
INVARIANTS
  ExecAnswers
