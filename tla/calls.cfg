SPECIFICATION Spec
CONSTANTS
  IntBits = 11
  Unprintable <- SomeUnprintable
INVARIANTS
  IntegersReadBack
  StringsFit
  TimesAreRight
  PrintfAgrees
  FloatsAreRight
CHECK_DEADLOCK FALSE
