SPECIFICATION FairSpec
CONSTANTS
    t1 = t1
    t2 = t2
    Threads = {t1, t2}
    Periods = {0, 1, 2}
    MaxStarts = 2
    MaxEvents = 2
    MaxPosted = 2
    MaxCancels = 1
INVARIANTS
    OneAtATime
    QuietAfterStop
    NeverStalls
PROPERTIES
    ExecutedFromTheStart
    OutOfBandBegins
    FuturesSet
CHECK_DEADLOCK FALSE
