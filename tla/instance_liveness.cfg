CONSTANTS
  nl = nl
  de = de
  f1 = f1
  f2 = f2
  a = a
  b = b
  Zones = {nl, de}
  Offline = offline
  Fingerprints = {f1}
  NoFp = nofp
  Launches = {a}
  Barred <- MCBarred
  Strict = TRUE
  MaxStarts = 1
  MaxAsks = 1
  MaxFaults = 1
SPECIFICATION FairSpec
PROPERTIES KeeperReturns LaunchEnds ReturnIsAttached
CHECK_DEADLOCK FALSE
