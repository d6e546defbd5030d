CONSTANTS
  nl = nl
  de = de
  f1 = f1
  f2 = f2
  a = a
  b = b
  Zones = {nl, de}
  Offline = offline
  Fingerprints = {f1, f2}
  NoFp = nofp
  Launches = {a}
  Barred = {}
  Strict = FALSE
  MaxStarts = 1
  MaxAsks = 2
  MaxFaults = 1
SPECIFICATION Spec
INVARIANTS TypeOK NoCarryOver WayOutIsBound
PROPERTIES ReturnIsTheSameZone SwitchEndsAsTable ImplementsExit
SYMMETRY MCSymmetry
CHECK_DEADLOCK FALSE
