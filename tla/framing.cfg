SPECIFICATION FairSpec
CONSTANTS
  Flag = 9
  FlagLen = 2
  Text <- SomeTexts
  FirstText <- PlainTexts
  RingSize = 10
  MaxExpected = 7
  AbandonMax = 2
  MaxMessages = 3
INVARIANTS
  FramesAreSound
PROPERTIES
  ChannelSpec
  EveryMessageIsReached
CHECK_DEADLOCK FALSE
