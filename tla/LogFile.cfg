SPECIFICATION Spec
CONSTANTS
  RollSize = 5
  CheckEveryN = 2
  FlushInterval = 2
  RollInterval = 3
  MaxLen = 2
  MaxMessages = 6
  MaxTime = 5
  MaxRestarts = 1
  SetBackTimes = {4, 6}
  SetBackBy = 2
INVARIANTS LogComplete FlushedInTime
