SPECIFICATION Spec
CONSTANTS
  n1 = n1
  n2 = n2
  n3 = n3
  Node = {n1, n2, n3}
  Configs <- SumConfigs
  Views <- ViewsWithoutFirst
  Leavers = {n1}
  MaxBoots <- RestartOne
  MaxSends <- ObservedPair
INVARIANTS TypeOK OwnVersionDominates SumStaleDropLossless EstimateIsCurrent
PROPERTIES VersionsMonotone
CHECK_DEADLOCK FALSE
