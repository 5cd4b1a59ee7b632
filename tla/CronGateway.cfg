SPECIFICATION FairSpec
CONSTANTS
  reminder = reminder
  report = report
  extra = extra
  Jobs <- MCJobs
  Kind <- MCKind
  MaxAt = 2
  Period = 2
  Poll = 1
  ToolOps = {"add", "remove"}
  CliOps = {"disable", "enable", "run"}
  CliOverlaps = FALSE
  MayFail = TRUE
  MayBreak = TRUE
  None = None
INVARIANTS
  AtMostOnce
  RunsRecorded
PROPERTIES
  FileAndCacheAgree
  OneShotServed
