SPECIFICATION MCSpec
CONSTANTS
    Pids = {p1, p2}
    NoPid = NoPid
    ChannelList <- SomeChannels
    AgentCounts = {0, 1, 2}
    Servers = {"files", "search"}
    MaxAttempts = 2
    MaxChanges = 1
    Reasons <- GatewayReasons
    Coalesce = {0}
    IntervalMs = 3
    RetryMs = 2
    Wakes = {w1, w2}
    None = None
INVARIANTS
    FilesAreTrue
    RunnerSafe
    PendingIsTopRequest
PROPERTIES
    MessagesAreTaken
    ServersDoNotBlock
    RetryBackoff
    WakeServed
    ServesRequests
CHECK_DEADLOCK FALSE
