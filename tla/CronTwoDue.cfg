SPECIFICATION Spec
CONSTANTS
  reminder = reminder
  report = report
  extra = extra
  Jobs <- MCThreeJobs
  Kind <- MCKind
  MaxAt = 2
  Period = 2
  Poll = 1
  ToolOps = {"add"}
  CliOps = {}
  CliOverlaps = FALSE
  MayFail = FALSE
  MayBreak = FALSE
  None = None
INVARIANTS
  OneShotRunsOnce
