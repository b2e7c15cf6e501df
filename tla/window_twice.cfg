SPECIFICATION Spec
CONSTANTS
  MaxDepth = 3
  MayClose = FALSE
INVARIANTS NotInsideItself
CHECK_DEADLOCK FALSE
