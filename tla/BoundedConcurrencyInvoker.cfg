SPECIFICATION FairSpec
CONSTANTS
    t1 = t1
    t2 = t2
    a = a
    b = b
    c = c
    d = d
    Threads <- MCThreads
    Callbacks <- MCCallbacks
    InitialMax = 2
    Limits = {0, 1, 3}
    MaxSetCalls = 2
    MayTerminate = TRUE
INVARIANTS
    PermitsExact
    WithinLimit
PROPERTIES
    EveryCallbackRuns
    DecreaseTakesEffect
CHECK_DEADLOCK FALSE
