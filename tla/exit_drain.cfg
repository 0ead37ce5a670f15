SPECIFICATION Spec
CONSTANTS
  Thread = {1}
  Main = 1
  LineLen <- TwoLong
  HeadLen = 1
  TailLen = 1
  RingSize = 7
  MaxExpected = 5
  AbandonMax = 2
  LargeBacklog = 3
  MaxLines <- Three
  MaxOpens = 1
  OpenMayFail = FALSE
  MayPrint = FALSE
INVARIANT
  LoggedBeforeReturnIsSaved
CHECK_DEADLOCK FALSE
