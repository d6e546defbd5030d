CONSTANTS
  launchA = launchA
  launchB = launchB
  progA = progA
  Launches = {launchA, launchB}
  Programs = {progA}
  Program <- OneProgram
  FirstPolicy <- AskAll
  Capacity = 2
  MaxPending = 2
  MaxPerLaunch = 1
  MaxLaunches = 3
  MaxAcks = 16
  MaxWorkers = 1
  Round = 1
  FlushTime = 8
  Faults = {"ack", "nft", "archive", "rule", "seal", "file"}
  MaxPackets = 2
  MaxEvents = 2
SPECIFICATION Spec
SYMMETRY Symmetry
INVARIANTS TypeOK NoStaleAccept PassesOnlyWithConsent NothingStranded HealthyKeepsWay
PROPERTIES ObsoleteAnswerWritesNothing DenialStands
CHECK_DEADLOCK FALSE
