SPECIFICATION FairBarrierSpec
CONSTANTS
    t1 = t1
    t2 = t2
    a = a
    b = b
    c = c
    f = f
    g = g
    Removers <- MCRemovers
    Items <- MCItems
    Calls <- MCCalls
INVARIANTS
    BarrierNotEarly
    BarrierNotLate
PROPERTIES
    BarrierReached
CHECK_DEADLOCK FALSE
