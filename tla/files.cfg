SPECIFICATION Spec
CONSTANT
  Setups <- SomeSetups
INVARIANTS
  LiveFileIsKept
  OnlyOldestDestroyed
  KeepsNewestFiles
  SizeBound
  DiskBound
CHECK_DEADLOCK FALSE
