CONSTANTS
  l1 = l1
  l2 = l2
  i1 = i1
  i2 = i2
  Launches = {l1, l2}
  Instances = {i1, i2}
  InstanceOf <- MCInstanceOf
  NoInstance = none
  NoCopy = nocopy
  Kinds = {"user", "secret", "restored", "empty", "clear"}
  MaxSelections = 2
  MaxPastes = 1
  MaxFaults = 1
SPECIFICATION Spec
SYMMETRY MCExchanges
INVARIANTS TypeOK PastesTheLatest ImportStays SnapshotIsCurrent
PROPERTIES ReadsWhatWasAnswered OnlyConfirmed NoReorder
CHECK_DEADLOCK FALSE
