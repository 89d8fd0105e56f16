SPECIFICATION FairSpec
CONSTANTS
    sweep = sweep
    request = request
    Workers = {sweep, request}
    Last = 2
    After <- ChainAfter
    SideEffects = {1}
    MaxAttempts = 2
    MaxSlots = 1
    MaxTurns = 3
INVARIANTS ActedOnce StartedOnce StopIsKept SucceededIsDone
PROPERTIES RunsEnd
CHECK_DEADLOCK FALSE
