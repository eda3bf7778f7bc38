SPECIFICATION Spec
CONSTANTS
    a = a
    b = b
    s1 = s1
    s2 = s2
    d1 = d1
    ra = ra
    rb = rb
    ha = ha
    hb = hb
    None = None
    Downlink = ra
    Edges <- MCEdges
    Steps <- MCSteps
    StepEdge <- MCStepEdge
    NormalPlan <- MCNormalPlan
    DegradedPlan <- MCDegradedPlan
    Runners <- MCRunners
    Handlers <- MCHandlers
    Home <- MCHome
    CancelEdges = {a}
    RefusingEdges = {}
    OutageEdges = {a}
    MaxClaims = 2
    MaxCrashes = 1
    MaxVersion = 5
INVARIANT TypeOK
INVARIANT AtMostOnce
PROPERTY LedgerSpec
INVARIANT CompletedMeansDone
PROPERTY JournalProgress
CONSTRAINT MCBound
CHECK_DEADLOCK FALSE
