SPECIFICATION ClusterSpec
CONSTANTS
  n1 = n1
  n2 = n2
  Node = {n1, n2}
  Seeds <- OneSeed
  Leavers = {n2}
  MaxBoots <- BootOnce
  MaxInFlight <- OneWay
  SuspectTimeout = 0
  DeadTimeout = 1
  PruneRetention = 2
INVARIANTS ClusterTypeOK
PROPERTIES DeadForgotten AliveCounted
CHECK_DEADLOCK FALSE
