\* Three ranks run the whole program with one iteration of each loop: the
\* ring of the diffusion sections is replaced by the power-two ring while
\* the ranks are in different sections.
CONSTANTS
    Size = 3
    maxite = 1
    BarrierPeriod = 1
    One <- MCOne
    InitialGraph <- MCInitialGraph
    Free = Free
SPECIFICATION Spec
INVARIANTS
    TypeOK
PROPERTIES
    SwapBetweenRounds
