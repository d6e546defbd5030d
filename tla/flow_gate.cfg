CONSTANTS
  flowA = flowA
  flowB = flowB
  flowC = flowC
  progP = progP
  None = None
  Keys = {flowA, flowB, flowC}
  Programs = {progP}
  Forwarder = {flowC}
  Blocked = {}
  FlowSlots = 1
  Slots = 1
  MaxHeld = 2
  MaxFrames = 3
  MaxTime = 1
  MaxEvents = 1
SPECIFICATION Spec
SYMMETRY Symmetry
INVARIANTS TypeOK Consented NothingStranded QuestionsShown
PROPERTIES Refusals
CHECK_DEADLOCK FALSE
