SPECIFICATION Spec
CONSTANTS
    t1 = t1
    t2 = t2
    a = a
    b = b
    c = c
    d = d
    Threads <- MCThreads
    Callbacks <- MCCallbacks
    InitialMax = 1
    Limits = {1}
    MaxSetCalls = 0
    MayTerminate = TRUE
INVARIANTS
    InvokePassesVerify
CHECK_DEADLOCK FALSE
