CONSTANTS
  text = text
  Contents = {text}
  SealAt = 2
  Fanout = 2
  MaxId = 2
  MaxCalls = 3
  MaxMs = 1
  MaxFaults = 1
  MaxCrashes = 2
SPECIFICATION Spec
INVARIANTS TypeOK AlwaysOpens MemoryIsDisk
PROPERTIES NothingLost CompactErases KeepsPromise
CHECK_DEADLOCK FALSE
