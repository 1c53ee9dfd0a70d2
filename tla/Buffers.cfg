SPECIFICATION BothSpec
CONSTANTS
  BufferSize = 2
  MaxVecSize = 2
  ExtraSpace = 3
  MaxByte = 3
  MaxLen = 3
  MaxReadable = 4
  AtBoundary = FALSE
  BlockSize = 2
  CheapPrepend = 1
  ExtraSize = 3
  LongSize = 2
  IntTypes <- ExactTypes
  Strings <- SoughtStrings
INVARIANT BuffersAgree
PROPERTY ImplementsByteQueue
