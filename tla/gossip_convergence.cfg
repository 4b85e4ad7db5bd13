SPECIFICATION FairSpec
CONSTANTS
  n1 = n1
  n2 = n2
  n3 = n3
  Node = {n1, n2}
  Configs <- FixedConfigs
  Views <- FullView
  Leavers = {}
  MaxBoots <- RestartOne
  MaxSends <- OneThenTwo
INVARIANTS StampIdentifiesContribution ContributionIsConfigured CompleteIsConverged
PROPERTIES EstimatesConverge
CHECK_DEADLOCK FALSE
