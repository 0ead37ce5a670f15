SPECIFICATION OneThread
CONSTANTS
  Byte = {0, 1}
  Sizes = {1, 3}
  MaxBlock = 3
  BufferSize = 3
  MaxWrite = 0
  MaxDrop = 0
  DebugBuild = FALSE
INVARIANTS
  LookupsAreSound
PROPERTIES
  QueueStep
