SPECIFICATION FairSpec
CONSTANTS
  MaxDepth = 3
  MayClose = TRUE
INVARIANTS OneTask ButtonsComeBack ConsentUndisturbed
PROPERTIES BusyEnds CleanedThenAnalysed
CHECK_DEADLOCK FALSE
