SPECIFICATION Spec
CONSTANTS
  n1 = n1
  n2 = n2
  n3 = n3
  Node = {n1, n2}
  Configs <- DefaultConfigs
  Views <- FullView
  Leavers = {}
  MaxBoots <- RestartOne
  MaxSends <- OneThenTwo
INVARIANTS ContributionIsConfigured
CHECK_DEADLOCK FALSE
