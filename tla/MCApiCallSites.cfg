SPECIFICATION Spec
CONSTANTS
  g = g
  h = h
  Functions = {1, 2, 3}
  Slots = {1, 2}
  Globals = {g, h}
  MaxRounds = 6
  Horizon = 9
  None = None
  Param = Param
  Programs <- MCPrograms
INVARIANT CallsThroughGlobals
CHECK_DEADLOCK FALSE
