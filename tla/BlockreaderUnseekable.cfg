SPECIFICATION FairSpec
CONSTANTS
  StartOffset = 3
  Blocksize = 2
  Count = 4
  BufferCount = 3
  FileLength = 20
  SeekMayFail = TRUE
  ReadMayFail = TRUE
  NULL = NULL
  Torn = Torn
PROPERTY GetReturns
CHECK_DEADLOCK FALSE
