SPECIFICATION MCSpec
CONSTANTS
    Pages = {g1, g2}
    NoPage = NoPage
    Documents <- MCDocuments
    MaxRefs = 3
    OwnCdp = FALSE
    Transports = {"relay", "cdp", "unsupported"}
    MemPages = {g1, g2, g3}
    NoTab = NoTab
    LogLimit = 2
    MemoryOn = TRUE
    Targets = {"runtime", "relay", "proxy"}
    Listed = {"change", "hook"}
    Paths = 2
    Texts = {"a", "b"}
    MaxSteps = 4
    MaxParseRetries = 1
    MaxActionRetries = 1
    MaxNoProgress = 2
    MaxRepeats = 3
    Writers = {w1, w2}
    Persons = {u1}
    MaxEvents = 2
    MaxEntries = 2
    Invocations = {main, sub}
    Providers = {"codex", "other"}
    GivenIds = {"a", "b"}
    MaxRequests = 2
    MaxCalls = 2
    MaxFragments = 1
    MaxEdits = 3
    MaxCommands = 3
    ShellValues <- MCShells
    Chats = {"c1", "c2"}
    Modes = {"none", "channel", "last"}
    MaxRuns = 2
    MaxSays = 1
    Sizes = {1, 2, 4}
    MaxLines = 3
    Budget = 3
    Minutes = 3
    Hours = 3
    MonthDays = 3
    WeekDays = 3
    Changes = {"none", "forward", "back"}
    ChangeAt = 12
    Horizon = 30
    ScanLimit = 60
    Expressions <- MCExpressions
INVARIANTS
    EachElementHasItsRef
    OneEffectPerCall
    TaskAccounted
    FactsWrittenOnce
    ModelCallsPaired
    ConfigKept
    RoutesKept
    PagesCoverTheFile
    DueWhenMeant
PROPERTIES
    RuntimesKeepTabs
CHECK_DEADLOCK FALSE
