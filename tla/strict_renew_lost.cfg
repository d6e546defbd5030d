CONSTANTS
  launchA = launchA
  launchB = launchB
  progA = progA
  Launches = {launchA, launchB}
  Programs = {progA}
  Program <- OneProgram
  FirstPolicy <- AskAll
  Capacity = 2
  MaxPending = 2
  MaxPerLaunch = 1
  MaxLaunches = 3
  MaxAcks = 16
  MaxWorkers = 1
  Round = 1
  FlushTime = 8
  Faults = {"seal"}
  MaxPackets = 0
  MaxEvents = 3
SPECIFICATION Spec
INVARIANTS LiveLaunchesKeepWay
CHECK_DEADLOCK FALSE
