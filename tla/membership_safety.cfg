SPECIFICATION Spec
CONSTANTS
  n1 = n1
  n2 = n2
  n3 = n3
  Node = {n1, n2}
  Seeds <- AllSeeds
  MaxBoots <- RestartOne
  MaxInFlight <- OneInFlight
  SuspectTimeout = 0
  DeadTimeout = 1
  PruneRetention = 3
INVARIANTS TypeOK GenerationDominates SingleRecord
PROPERTIES NoResurrection MemorySpec
CHECK_DEADLOCK FALSE
