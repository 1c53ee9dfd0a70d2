CONSTANTS
  Sizes <- LineSizes
  LargeSize = 9
  MaxBuffers = 2
  MaxMessages = 3
  MaxFlushes = 1
  SmallSize = 6
  SizeRange = 64
  MaxNumeric = 2
  MaxHex = 2
  NullLen = 2
  Radix = 3
  HexRadix = 4
  PerSecond = 2
  PerMicro = 1
  ShortDelay = 1
  Writers = {w1, w2}
  Processes <- MCProcesses
  HeaderLen = 1
  TailLen = 1
  TraceLen = 1
  Texts <- MCTexts
  LineDigits = 2
CHECK_DEADLOCK FALSE
SPECIFICATION LogFairSpec
PROPERTY StopReturns
INVARIANTS InOrder FlushedAtStop FatalShown LineFits
