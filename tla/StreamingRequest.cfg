SPECIFICATION FairSpec
CONSTANTS
    N = 2
    Size <- MCSize
    WindowSize = 2
    MaxWindowSizes = {1, 2}
    Configs <- MCConfigs
INVARIANTS
    WithinWindow
    PullNotForgotten
    PromisesSetOnce
PROPERTIES
    ImplementsBlockStream
    Answered
CHECK_DEADLOCK FALSE
