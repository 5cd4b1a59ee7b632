SPECIFICATION MCSpec
CONSTANTS
    Pids = {p1}
    NoPid = NoPid
    ChannelList <- WithWecom
    AgentCounts = {0}
    Servers = {"files"}
    MaxAttempts = 1
    MaxChanges = 1
    Reasons = {}
    Coalesce = {0}
    IntervalMs = 0
    RetryMs = 2
    Wakes = {}
    None = None
PROPERTIES
    StartLeadsToService
CHECK_DEADLOCK FALSE
