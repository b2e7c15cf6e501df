SPECIFICATION FairSpec
CONSTANTS
  Folders = {d1}
  MaxWrites = 1
  BufferMax = 1
  MayRefuse = FALSE
  MayTimeOut = FALSE
  None = None
PROPERTIES StopReturns
CHECK_DEADLOCK FALSE
