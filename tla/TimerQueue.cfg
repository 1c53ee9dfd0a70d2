SPECIFICATION FairSpec
CONSTANTS
  Ids = {i1, i2}
  None = None
  MaxTime = 4
  Whens = {2, 3}
  Intervals = {0, 2}
  MaxQueue = 1
  PerSecond = 3
  PerMicro = 2
  ShortDelay = 1
INVARIANTS FdArmed CancelledStaysOut
PROPERTIES TimersRun
