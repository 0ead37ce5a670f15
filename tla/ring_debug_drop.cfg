SPECIFICATION TwoThreads
CONSTANTS
  BufferSize = 3
  Byte = {0, 1}
  MaxWrite = 3
  MaxDrop = 1
  DebugBuild = TRUE
  Sizes = {3}
  MaxBlock = 0
INVARIANTS
  WriterStaysInFreeSpace
CHECK_DEADLOCK FALSE
