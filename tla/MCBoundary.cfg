CONSTANTS
  Limit = 3
  Capacity = 1
  Volume = 2
  fn1 = fn1
  fn2 = fn2
  Targets = {fn1, fn2}
  Calls <- OneCall
  Depths = {1, 2}
  MaxClicks = 4
  None = None
  Commands = {c1, c2}
  MaxTraces = 3
  MaxCloses = 1
  Cap = 2
  MaxReloads = 3
  MaxAnalyses = 2
  p1 = p1
  p2 = p2
  t1 = t1
  t2 = t2
  MaxVersion = 1
  MaxStamp = 2
  Runs = {r1, r2, r3}
  Reload = {r3}
  Hostile = {}
  Absent = Absent
  Torn = Torn
  Missing = 0
SPECIFICATION BoundarySpec
INVARIANTS BudgetKept NothingLost NoOrphan AwaitedPageMatches LogMirrored NavigatedOnce IndexIsCurrent ServedWasCurrent CacheNeverBackdated
PROPERTIES CaptureReturns NoPipeDeadlock LoadingEnds NavigationArrives OlderReloadsSilent PanelsFill ImplementsOnDemand
CHECK_DEADLOCK FALSE
