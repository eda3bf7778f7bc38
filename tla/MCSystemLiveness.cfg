SPECIFICATION Spec
CONSTANTS
    Parts = {"feed", "buffer", "history", "local", "agent", "release", "changes", "rule", "device", "config", "query", "upstream", "subscribed", "polled"}
    BufferFaults = 1
    FeedReadings = 2
    FeedFaults = 0
    ReplayFaults = 1
    ReplayOrders = 1
    ArchiveTimes = {1, 2}
    ControlFaults = 1
    AgentFaults = 3
    Deployments = {1}
    ReleaseFaults = 1
    ReleaseOrders = 1
    ConfigRevisions = 0
    ConfigFaults = 1
    QueryCommits = 3
    DeviceConfigs = 1
    None = None
    ExchangeHandlers = {1, 2}
    RightChanges = 1
    RuleVersions = 1
    RuleReadings = 2
    RuleDuration = 1
    StopFails = TRUE
    ApprovalChanges = 1
PROPERTY CallsReturn
PROPERTY AcceptedIsDealtWith
PROPERTY OrdersEnd
CHECK_DEADLOCK FALSE
