SPECIFICATION FairSpec
CONSTANTS
    w1 = w1
    w2 = w2
    a = a
    b = b
    Controller = Controller
    Workers <- MCWorkers
    Callbacks <- MCCallbacks
    MaxSuspends = 2
INVARIANTS
    ActiveCountExact
    NothingForgotten
PROPERTIES
    SuspensionReported
CHECK_DEADLOCK FALSE
