CONSTANTS
  Companions = {"quiet", "bytes", "calls", "diagnostic", "QUERY", "debug-report", "device-security"}
  Leaders = {"json"}
  Procs = {p, q}
  Jobs <- AllJobs
  Disks <- SomeDisks
  Settings = {"style", "headers"}
  None = None
  Folders <- TheFolders
  Stored <- TheFiles
  Questions <- SomeQuestions
  WdfNames = {"WdfDeviceCreate"}
  Undecorate <- TheCores
  Library <- TheImages
  DumpRequests <- SomeRequests
  KmdfNames = {"WdfDeviceCreate"}
  MaxChain = 3
  MaxHops = 4
SPECIFICATION ScanSpec
INVARIANT ScanTellsCuts
CHECK_DEADLOCK FALSE
