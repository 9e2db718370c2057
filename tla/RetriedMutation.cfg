SPECIFICATION FairSpec
CONSTANTS
    m1 = m1
    Mutations = {m1}
    Ids = {m1}
    RetryAttempts = 3
    Contexts <- MCContexts
    MaxFaults = 1
INVARIANTS
    AtMostOnce
    AnswersAreTrue
    PendingHasExecutor
PROPERTIES
    WaitersReplied
    CallersAnswered
CHECK_DEADLOCK FALSE
