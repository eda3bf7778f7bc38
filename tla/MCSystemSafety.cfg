SPECIFICATION SafetySpec
CONSTANTS
    Parts = {"feed", "memory", "buffer", "history", "archive", "local", "remote", "agent", "release", "approval", "changes", "alarm", "replayed", "rule", "device", "config", "outage", "query", "shared", "orders", "worked", "shadow", "analysis", "command", "upstream", "modbus", "subscribed", "polled", "publishing", "importing", "templates", "manual", "fenced", "inquiry", "rounds", "citing", "pages", "ledger", "adopted", "native", "chain"}
    BufferFaults = 1
    FeedReadings = 2
    FeedFaults = 1
    ReplayFaults = 2
    ReplayOrders = 2
    ArchiveTimes = {1, 2}
    ControlFaults = 1
    AgentFaults = 4
    Deployments = {1, 2}
    ReleaseFaults = 1
    ReleaseOrders = 1
    ConfigRevisions = 1
    ConfigFaults = 1
    QueryCommits = 4
    DeviceConfigs = 2
    None = None
    ExchangeHandlers = {1, 2}
    RightChanges = 1
    RuleVersions = 2
    RuleReadings = 2
    RuleDuration = 0
    StopFails = TRUE
    ApprovalChanges = 1
INVARIANT TypeOK
INVARIANT Accounted
INVARIANT OneExecution
INVARIANT NothingLost
INVARIANT NothingForgotten
INVARIANT OnePlace
INVARIANT QueryMissesNothing
INVARIANT OneOutcome
INVARIANT ShownIsTrue
INVARIANT OneProgram
INVARIANT TwoPersons
INVARIANT NothingSkipped
INVARIANT SitesAgree
INVARIANT ReceiptTrue
INVARIANT BranchesApart
PROPERTY OutcomesStand
PROPERTY StoppedWritesNothing
PROPERTY KeptWhileRetained
PROPERTY EntersOnRunning
PROPERTY OnStandingSignatures
PROPERTY CompletionsAllowed
CHECK_DEADLOCK FALSE
