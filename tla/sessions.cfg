SPECIFICATION Spec
CONSTANTS
  System <- Machine
  Lower <- Folding
  Chains <- Readings
  Starts <- Beginnings
  Ids = {1, 2, 3}
  Keep = 2
  MaxFaults = 2
  MaxKills = 1
  MaxAnalyses = 2
INVARIANTS ScoreFollowsHealth FaultsNeverAccuse ButtonSparesWhatIsYours KillNeverTears AdoptedUnlessRefused
PROPERTIES NewestKept
CHECK_DEADLOCK FALSE
