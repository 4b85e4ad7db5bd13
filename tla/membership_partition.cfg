SPECIFICATION FairSpec
CONSTANTS
  n1 = n1
  n2 = n2
  n3 = n3
  Node = {n1, n2}
  Seeds <- AllSeeds
  MaxBoots <- BootOnce
  MaxInFlight <- OneInFlight
  SuspectTimeout = 0
  DeadTimeout = 1
  PruneRetention = 2
PROPERTIES ViewsReconverge
CHECK_DEADLOCK FALSE
