SPECIFICATION SurveySpec
CONSTANTS
  c = c
  windows = windows
  temp = temp
  users = users
  junction = junction
  dump = dump
  copy = copy
  photo = photo
  alias = alias
  Root = c
  In <- TreeOf
  FileNames <- Names
  ContentOf <- Content
  SizeOf <- Sizes
  Cluster = 2
  Links <- Reparse
  LeadsTo <- Junction
  Online <- InCloud
  Threshold = 2
  OptionSets <- TwoCallers
  MaxChanges = 2
  MaxFaults = 2
  None = None
  PathOf <- Paths
  Alphabet <- Keys
  TreeDepth = 1
  MinimumNode = 1
INVARIANTS NothingSilent ContentOnce LargestKept SurveyAddsUp
CHECK_DEADLOCK FALSE
