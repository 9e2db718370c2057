SPECIFICATION Spec
CONSTANTS
    t1 = t1
    t2 = t2
    a = a
    b = b
    c = c
    d = d
    Threads <- MCThreads
    Callbacks <- MCCallbacks
    InitialMax = 2
    Limits = {1, 2}
    MaxSetCalls = 2
    MayTerminate = FALSE
INVARIANTS
    LastRequestWins
CHECK_DEADLOCK FALSE
