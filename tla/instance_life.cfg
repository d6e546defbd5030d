CONSTANTS
  a = a
  b = b
  c = c
  Launches = {a, b}
  Strict = TRUE
  MaxPids = 3
  MaxRuns = 2
  MaxFaults = 1
SPECIFICATION FairSpec
INVARIANTS TypeOK
PROPERTIES IdleEndsNobody VacantEnds LaunchSettles
CHECK_DEADLOCK FALSE
