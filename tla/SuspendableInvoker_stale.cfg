SPECIFICATION Spec
CONSTANTS
    w1 = w1
    w2 = w2
    a = a
    b = b
    Controller = Controller
    Workers <- MCWorkers
    Callbacks <- MCCallbacks
    MaxSuspends = 1
INVARIANTS
    QuietWhenSuspended
CHECK_DEADLOCK FALSE
