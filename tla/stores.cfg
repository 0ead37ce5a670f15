SPECIFICATION Spec
CONSTANTS
  CppTypes = {"char*", "string_view", "class"}
  ArgNames = {"a", "b"}
  MaxArgs = 4
  MaxClears = 1
  packed_arg_bits = 4
  max_packed_args = 2
  Kinds = {"memory", "container", "iterator", "limited", "array", "pointer", "counting"}
  BufferSize = 3
  Limits = {0, 1, 3, 4, 7}
  MaxChars = 9
  MaxAtOnce = 5
  NotLimited = 100
  AllocMax = 6
INVARIANTS
  StoreIsSound
  CallFindsArguments
  StoreFindsArguments
  NothingIsLost
PROPERTY
  AppendEnds
CHECK_DEADLOCK FALSE
