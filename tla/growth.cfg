SPECIFICATION GrowthSpec
CONSTANTS
  Root = Root
  a = a
  b = b
  c = c
  Renamed = a
  Trees <- ChainAndFork
  Exclusions <- NoneOrTheLastTwo
  Sizes <- TwoSizes
  Capacity = 8
  KeepDepth = 1
  DeepThreshold = 3
  NoiseFloor = 2
  FolderJump = 4
  MaxEdits = 1
  Absent = Absent
INVARIANTS ExclusiveIsOwn GrowthAddsUp EveryJumpAlerted
