CONSTANTS
    ThreadNums = {0, 1, 2}
    Starters = {t1, t2}
    MaxConns = 2
    MaxForced = 1
SPECIFICATION FairSpec
INVARIANTS NoDangling RemovedInTime 
PROPERTY Reclaimed
CHECK_DEADLOCK FALSE
