SPECIFICATION FairSpec
CONSTANTS
  Folders = {d1}
  MaxWrites = 5
  BufferMax = 2
  MayRefuse = TRUE
  MayTimeOut = TRUE
  None = None
INVARIANTS EveryWriteNoted CallbackFindsEvent StopLeavesNothing
PROPERTIES NotedInTheEnd StopEndsAtNextWrite
CHECK_DEADLOCK FALSE
