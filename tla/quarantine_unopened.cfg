SPECIFICATION Spec
CONSTANTS
  Files = {f1, f2}
  Protected = {}
  OtherVolume = {}
  Faults <- RecordUnreadable
  MaxFaults = 1
  MaxVersion = 2
  MaxClock = 1
  MaxSeq = 2
  MayCrash = FALSE
  ClockRepeats = FALSE
  OwnerConcurrent = FALSE
  None = None
  Partial = Partial
INVARIANTS Undoable
CHECK_DEADLOCK FALSE
