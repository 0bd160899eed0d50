CONSTANTS
  Funcs = {1, 2, 3, 4}
  Root = 1
  Repeated <- RepeatedCallers
  Graphs <- NoCallers
  Options <- SomeOptions
  End = 4
  Codes <- NoCode
  BlockLimit = 2
  MaxBytes = 3
  MaxTotal = 3
  Programs <- DeepPrograms
  Requests <- DeepRequests
  StepLimit = 200
  WorkLimit = 6
  VisitLimit = 6
  DepthLimit = 2
  HalfBits = 6
  CodeEnd = 64
  RootSteps = 48
  PendingLimit = 8
  StatesPerPc = 8
  TableLimit = 8
  ProbeSteps = 6
  SizeFailures = {13, 14}
SPECIFICATION SearchSpec
INVARIANT MatchesKept
CHECK_DEADLOCK FALSE
