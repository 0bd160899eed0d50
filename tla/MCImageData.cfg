CONSTANTS
  c1 = c1
  c2 = c2
  img = img
  exported = exported
  private = private
  NotCached = NotCached
  Nobody = Nobody
  Callers <- TheCallers
  Images <- TheImages
  Names <- TheNames
  Exports <- TheExports
  Symbols <- TheSymbols
  Requests <- TheRequests
  MaxCalls = 2
  Binaries <- TheBinaries
  Means = {40, 70}
  Thresholds <- TheThresholds
  MaxFunctions = 3
  MaxCandidates = 1
  MaxPairs = 4
  MaxFile = 8
  MaxSections = 2
  MaxAddress = 9
  MaxEntries = 1
  Files <- TheFiles
  CheckEntries = 9
  CheckStrings = 6
  UnwindBudget = 6
  ReadEntries = 4
  ReadStrings = 6
  MaxDepth = 1
  MaxNodes = 3
  MaxChain = 3
  MaxCallbacks = 2
SPECIFICATION PartSpec
INVARIANTS SessionOwned CachesComplete ComparisonIsFair LayoutIsSound AcceptedIsRead
CHECK_DEADLOCK FALSE
