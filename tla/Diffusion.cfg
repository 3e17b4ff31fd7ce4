CONSTANTS
    Size = 4
    maxite = 5
    InitialGraph <- MCInitialGraph
SPECIFICATION Spec
INVARIANTS
    TypeOK
    CollectivesMatch
    LeadBounded
