CONSTANTS
  a = a
  b = b
  c = c
  Launches = {a, b, c}
  Strict = FALSE
  MaxPids = 3
  MaxRuns = 2
  MaxFaults = 0
SPECIFICATION Spec
PROPERTIES IdleEndMeetsNoLaunch
CHECK_DEADLOCK FALSE
