CONSTANTS
    N = 3
    PoolQuits = TRUE
    SelfQuit = {"stop"}
SPECIFICATION FairSpec
INVARIANTS StoppedQuiet QuitOnLive StartedForGood
PROPERTY StartReturns
CHECK_DEADLOCK FALSE
