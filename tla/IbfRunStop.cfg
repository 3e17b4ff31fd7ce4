\* A stop after, or beside, a start.
CONSTANTS
    i1 = i1
    i2 = i2
    Invocation <- MCInvocation
    Args <- MCArgs
    None = None
SPECIFICATION Spec
CHECK_DEADLOCK FALSE
INVARIANTS
    StopLeavesNoController
