\* Every world of 1 to 16 ranks, every case of the test, and for each dtype
\* some elements, among them ones whose sums round.
CONSTANTS
    MaxSize = 16
    Unit <- MCUnit
    Precision <- MCPrecision
    Elements <- MCElements
SPECIFICATION Spec
INVARIANTS
    TypeOK
    ZeroThresholdIsMet
    IntegersAlwaysChecked
