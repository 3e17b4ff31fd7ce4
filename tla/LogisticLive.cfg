\* Two ranks run the whole program with three iterations of each loop, under
\* fair scheduling of the ranks and of the background service.
CONSTANTS
    Size = 2
    maxite = 3
    BarrierPeriod = 2
    One <- MCOne
    InitialGraph <- MCInitialGraph
    Free = Free
SPECIFICATION FairSpec
PROPERTIES
    EndsTogether
