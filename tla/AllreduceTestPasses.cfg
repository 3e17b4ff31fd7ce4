\* The same worlds and elements: does the test pass on a sum that is
\* accumulated as the contract of allreduce says?
CONSTANTS
    MaxSize = 16
    Unit <- MCUnit
    Precision <- MCPrecision
    Elements <- MCElements
SPECIFICATION Spec
INVARIANTS
    PassesOnCorrectSum
