SPECIFICATION Spec
CONSTANTS
  Files = {f1, f2}
  Protected = {}
  OtherVolume = {f2}
  Faults <- AllFaults
  MaxFaults = 2
  MaxVersion = 2
  MaxClock = 2
  MaxSeq = 1
  MayCrash = TRUE
  ClockRepeats = FALSE
  OwnerConcurrent = FALSE
  None = None
  Partial = Partial
INVARIANTS NoLoss RestoredToOrigin
CHECK_DEADLOCK FALSE
