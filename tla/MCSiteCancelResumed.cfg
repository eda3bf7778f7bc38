SPECIFICATION Spec
CONSTANTS
    a = a
    b = b
    s1 = s1
    s2 = s2
    d1 = d1
    ra = ra
    rb = rb
    ha = ha
    hb = hb
    None = None
    Downlink = ra
    Edges <- MCEdges
    Steps <- MCSteps
    StepEdge <- MCStepEdge
    NormalPlan <- MCNormalPlan
    DegradedPlan <- MCDegradedPlan
    Runners <- MCRunners
    Handlers <- MCHandlers
    Home <- MCHome
    CancelEdges <- MCEdges
    RefusingEdges = {}
    OutageEdges = {}
    MaxClaims = 3
    MaxCrashes = 0
    MaxVersion = 5
CHECK_DEADLOCK FALSE
PROPERTY CancelStops
