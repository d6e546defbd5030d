CONSTANTS
  nl = nl
  de = de
  f1 = f1
  f2 = f2
  a = a
  b = b
  Zones = {nl, de}
  Offline = offline
  Fingerprints = {f1}
  NoFp = nofp
  Launches = {a}
  Barred <- MCBarred
  Strict = FALSE
  MaxStarts = 1
  MaxAsks = 0
  MaxFaults = 0
SPECIFICATION FairSpec
PROPERTIES ReturnIsAlwaysAttached
CHECK_DEADLOCK FALSE
