SPECIFICATION Spec
CONSTANTS
  n1 = n1
  n2 = n2
  n3 = n3
  Node = {n1, n2, n3}
  Configs <- SumConfigs
  Views <- FullView
  Leavers = {}
  MaxBoots <- RestartOne
  MaxSends <- ObservedPair
INVARIANTS StaleDatagramAddsNothing
CHECK_DEADLOCK FALSE
