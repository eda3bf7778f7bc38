SPECIFICATION Spec
CONSTANTS
    a = a
    b = b
    s1 = s1
    s2 = s2
    d1 = d1
    ra = ra
    ra2 = ra2
    hb = hb
    None = None
    Downlink = ra
    Edges <- MCEdges
    Steps <- MCSteps
    StepEdge <- MCStepEdge
    NormalPlan <- MCNormalPlan
    DegradedPlan <- MCDegradedPlan
    Runners <- MCRunners
    Handlers <- MCHandlers
    Home <- MCHome
    CancelEdges = {}
    RefusingEdges <- MCEdges
    OutageEdges <- MCEdges
    MaxClaims = 2
    MaxCrashes = 1
    MaxVersion = 5
CHECK_DEADLOCK FALSE
PROPERTY NormalStepsFenced
