CONSTANTS
    Size = 3
    maxite = 2
    InitialGraph <- MCInitialGraph
SPECIFICATION Spec
INVARIANTS
    NoRankRaises
