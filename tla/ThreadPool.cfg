CONSTANTS
    Workers = {w1, w2}
    Callers = {c1, c2}
    MaxTasks = 3
    MaxQueueSize = 2
    MaxStarts = 1
    Nobody = Nobody
SPECIFICATION FairSpec
INVARIANTS TasksSpread StoppedIsQuiet
PROPERTY RunReturns
CHECK_DEADLOCK FALSE
