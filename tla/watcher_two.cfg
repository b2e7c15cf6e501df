SPECIFICATION Spec
CONSTANTS
  Folders = {d1, d2}
  MaxWrites = 3
  BufferMax = 1
  MayRefuse = TRUE
  MayTimeOut = TRUE
  None = None
INVARIANTS EveryWriteNoted CallbackFindsEvent StopLeavesNothing
SYMMETRY Symmetry
CHECK_DEADLOCK FALSE
