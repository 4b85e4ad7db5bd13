SPECIFICATION LocalSpec
CONSTANTS
  Peer <- FivePeers
  Configs <- ConfigChoices
  Node <- ThreeNodes
  MaxFloat64 = 4
  InitialValues <- SmallValues
  NodeID <- TwoIDs
  Logs <- LogChoices
  OldCsv <- OldCsvChoices
  ConfigLists <- ConfigListChoices
  Tolerance = 1
  MaxSeriesMarkers = 5
  NoFile = NoFile
  Broken = Broken
  BadConfig = BadConfig
  p1 = p1
  p2 = p2
  p3 = p3
SYMMETRY NodeSymmetry
INVARIANTS SumTypeOK ReportTypeOK Coverage HeartbeatsBeatTimeout UnflaggedIsExact OverflowJustified ReportIsTrue MarkersSpread
 
CHECK_DEADLOCK FALSE
