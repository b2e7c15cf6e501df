SPECIFICATION Spec
CONSTANTS
  Folders = {d1}
  MaxWrites = 1
  BufferMax = 1
  MayRefuse = TRUE
  MayTimeOut = FALSE
  None = None
INVARIANTS AnsweredIsWatched
CHECK_DEADLOCK FALSE
