SPECIFICATION Spec
CONSTANTS
  Files = {f1, f2}
  Protected = {}
  OtherVolume = {}
  Faults <- HandledFaults
  MaxFaults = 1
  MaxVersion = 2
  MaxClock = 1
  MaxSeq = 2
  MayCrash = FALSE
  ClockRepeats = FALSE
  OwnerConcurrent = FALSE
  None = None
  Partial = Partial
INVARIANTS Undoable
PROPERTIES ImplementsContract
CHECK_DEADLOCK FALSE
