CONSTANTS
  Runs = {r1, r2}
  Reload = {}
  Hostile = {r2}
  MaxVersion = 0
  Absent = Absent
  Torn = Torn
SPECIFICATION IndexSpec
INVARIANT HostileHonoured
CHECK_DEADLOCK FALSE
