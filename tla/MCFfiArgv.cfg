CONSTANTS
  Companions = {}
  Leaders = {}
SPECIFICATION FfiSpec
INVARIANT ArgvUnderstood
CHECK_DEADLOCK FALSE
