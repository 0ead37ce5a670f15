SPECIFICATION TwoThreads
CONSTANTS
  BufferSize = 3
  Byte = {0, 1}
  MaxWrite = 3
  MaxDrop = 3
  DebugBuild = FALSE
  Sizes = {3}
  MaxBlock = 0
INVARIANTS
  IInv
  WriterStaysInFreeSpace
  ReaderSeesPublishedBytes
PROPERTIES
  ReadIsComplete
  FifoSpec
CHECK_DEADLOCK FALSE
