\* Two invocations with any arguments, in any environment.  An invocation
\* ends, and the processes it leaves behind may stay for ever: the model
\* may stop.
CONSTANTS
    i1 = i1
    i2 = i2
    Invocation <- MCInvocation
    Args <- MCArgs
    None = None
SPECIFICATION Spec
CHECK_DEADLOCK FALSE
INVARIANTS
    TypeOK
    StatusFollowsArguments
    NothingStartedUnchecked
