\* Three ranks on the power-two ring (every rank has two in-neighbors), one
\* iteration: the pushes of two senders into one window interleave.
CONSTANTS
    Size = 3
    maxite = 1
    BarrierPeriod = 1
    One <- MCOne
    InitialGraph <- MCInitialGraph
    Free = Free
SPECIFICATION Spec
INVARIANTS
    TypeOK
    NothingLeftBehind
    WeightPositive
    NoRankRaises
PROPERTIES
    ImplementsPushSum
