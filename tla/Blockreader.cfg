SPECIFICATION FairSpec
CONSTANTS
  StartOffset = 3
  Blocksize = 2
  Count = 7
  BufferCount = 4
  FileLength = 20
  SeekMayFail = FALSE
  ReadMayFail = TRUE
  NULL = NULL
  Torn = Torn
INVARIANTS TypeOK HeldBlockIntact InOrder NoLostWakeup
PROPERTIES ImplementsStream DestroyReturns
