SPECIFICATION Spec
CONSTANTS
  root1 = root1
  root2 = root2
  cache = cache
  kept = kept
  system = system
  other = other
  file = file
  more = more
  keep = keep
  Roots = {root1, root2}
  Elsewhere = {other}
  Sub <- SubfoldersOfRoots
  Names = {file, more, keep}
  AtFirst <- FilesAtFirst
  Preserved = {kept, keep}
  Denied = {system}
  LinkTargets = {root2, other, kept, system}
  MaxChanges = 2
  MaxRuns = 1
  None = None
INVARIANTS NothingForgotten OneFilePerSwap
PROPERTIES KeepsWhatStays
CHECK_DEADLOCK FALSE
