SPECIFICATION FairSpec
CONSTANTS
    t1 = t1
    t2 = t2
    t3 = t3
    a = a
    b = b
    c = c
    d = d
    MayTerminate = TRUE
    Threads <- MCThreads
    Callbacks <- MCCallbacks
INVARIANTS
    OneTicket
    NothingStranded
PROPERTIES
    ImplementsSerialExecutor
    EveryCallbackEnds
CHECK_DEADLOCK FALSE
