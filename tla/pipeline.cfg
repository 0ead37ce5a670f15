SPECIFICATION FairSpec
CONSTANTS
  Thread = {1, 2}
  Main = 0
  LineLen <- LongAndShort
  HeadLen = 1
  TailLen = 1
  RingSize = 7
  MaxExpected = 5
  AbandonMax = 2
  LargeBacklog = 3
  MaxLines <- ThreeAndOne
  MaxOpens = 2
  OpenMayFail = TRUE
  MayPrint = TRUE
INVARIANTS
  Consistent
  AllAccounted
  LossHasCause
  NoticesAreApart
PROPERTIES
  LogsSpec
  EveryMessageIsTaken
  ExitTerminates
CHECK_DEADLOCK FALSE
