SPECIFICATION FairSpec
CONSTANTS
  System <- Machine
  Lower <- Folding
  Chains <- Readings
  Starts <- Beginnings
  Ids = {1, 2, 3}
  Keep = 2
  MaxFaults = 1
  MaxKills = 1
  MaxAnalyses = 2
CHECK_DEADLOCK FALSE
PROPERTY AnalysisEnds
