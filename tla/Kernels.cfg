CONSTANTS
    Size = 3
    maxite = 2
    StepDen = 10
    BarrierPeriod = 1
    PushGraph <- MCPushGraph
    InitialGraph <- MCInitialGraph
    One <- MCOne
    Gradients <- MCGradients
SPECIFICATION Spec
INVARIANTS
    TypeOK
    GradientOfOneStep
    OneIterate
    AverageDescends
    TrackerSumsGradients
    TrackedUnderPushes
