CONSTANTS
  Funcs = {1, 2, 3}
  Root = 1
  Repeated <- RepeatedCallers
  Graphs <- NoCallers
  Options <- SomeOptions
  End = 4
  Codes <- NoCode
  BlockLimit = 2
  MaxBytes = 3
  MaxTotal = 3
  Programs <- SomePrograms
  Requests <- SomeRequests
  StepLimit = 200
  WorkLimit = 6
  VisitLimit = 6
  DepthLimit = 2
  HalfBits = 6
  CodeEnd = 64
  RootSteps = 48
  PendingLimit = 8
  StatesPerPc = 8
  TableLimit = 8
  ProbeSteps = 6
  SizeFailures = {13, 14}
SPECIFICATION SearchSpec
INVARIANT LocalsStayUnreachable
CHECK_DEADLOCK FALSE
