SPECIFICATION FairSpec
CONSTANTS
  Callers = {c1, c2}
  Tasks = {t1, t2}
  None = None
INVARIANTS NoSleepOnFunctors QuitReturnsStopped
PROPERTIES ImplementsExecutor FunctorsRun
CHECK_DEADLOCK FALSE
