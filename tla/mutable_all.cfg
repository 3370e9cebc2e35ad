SPECIFICATION Spec
CONSTANTS
  Ids <- MCIds
  InitNodes <- MCInitNodes
  Rows <- MCOneRow
  InitLocalIds <- MCInitLocalIds
  FlushThreshold = 1
  Calls <- AllButUpdateEdge
  ReuseIds = TRUE
  MaxSerial = 3
  MaxLocalIdx = 3
INVARIANTS
  TypeOK
  LookupIsLiveRows
  LocalIndexIsNewest
  PendingUsesCurrentIndex
  OneHomePerEdge
  RowsDieWithTheirNodes
  ReadersSeeWhatFreezeKeeps
CHECK_DEADLOCK FALSE
PROPERTIES
  OnlyReAddedNodesReviveEdges
