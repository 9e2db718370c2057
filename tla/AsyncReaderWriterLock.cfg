SPECIFICATION FairSpec
CONSTANTS
    t1 = t1
    t2 = t2
    r1 = r1
    r2 = r2
    r3 = r3
    w1 = w1
    w2 = w2
    Threads <- MCThreads
    Readers <- MCReaders
    Writers <- MCWriters
INVARIANTS
    MutualExclusion
    CountsExact
    NobodyStranded
PROPERTIES
    WritersFirst
    EveryoneServed
CHECK_DEADLOCK FALSE
