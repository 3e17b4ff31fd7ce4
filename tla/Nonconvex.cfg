\* Two ranks run the program for every command line, with three iterations
\* of each loop and a barrier every second iteration of Push-DIGing.
CONSTANTS
    Size = 2
    maxite = 3
    BarrierPeriod = 2
    One <- MCOne
    InitialGraph <- MCInitialGraph
    Free = Free
    Args <- MCArgs
SPECIFICATION FairSpec
INVARIANTS
    TypeOK
    NoRankRaises
    WeightConserved
    DriftBounded
PROPERTIES
    RunsToTheEnd
