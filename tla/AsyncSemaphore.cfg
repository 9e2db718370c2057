SPECIFICATION FairSpec
CONSTANTS
    t1 = t1
    t2 = t2
    a = a
    b = b
    c = c
    d = d
    Threads <- MCThreads
    Requests <- MCRequests
    Slots <- MCSlots
    Forced = {a}
    InitialTotal = 2
    Totals = {1, 3}
    MaxSetTotals = 1
    EnableOverdraft = TRUE
INVARIANTS
    TypeOK
    SlotsConserved
    OneReleaser
    NoLostWakeup
PROPERTIES
    EveryWaiterServed
CHECK_DEADLOCK FALSE
