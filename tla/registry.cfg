SPECIFICATION FairSpec
CONSTANTS
  Thread = {1, 2, 3}
  MaxLines <- SecondLogsMore
INVARIANTS
  SavedAndLocked
  OneWriterPerRing
  OrphansAreFew
PROPERTIES
  EveryBufferIsRead
CHECK_DEADLOCK FALSE
