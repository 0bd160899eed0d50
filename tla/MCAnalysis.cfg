SPECIFICATION PartSpec
CONSTANTS
  g = g
  h = h
  Functions = {1, 2, 3}
  Slots = {1, 2}
  Globals = {g, h}
  MaxRounds = 2
  Horizon = 9
  None = None
  Param = Param
  Programs <- MCPrograms
  MaxNesting = 8
  MaxDepth = 4
  MaxTypedefs = 4
  ByteBits = 1
  Unknown = 999
INVARIANTS TargetsReachable NothingMissed HeadersAreUnderstood
PROPERTY NothingForgotten
CHECK_DEADLOCK FALSE
