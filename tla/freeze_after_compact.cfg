SPECIFICATION Spec
CONSTANTS
  Ids <- MCIds
  InitNodes <- MCInitNodes
  Rows <- MCTwoRows
  InitLocalIds <- MCInitLocalIds
  FlushThreshold = 1
  Calls <- AllCalls
  ReuseIds = FALSE
  MaxSerial = 4
  MaxLocalIdx = 4
INVARIANT FreezeKeepsDeltaEdges
CHECK_DEADLOCK FALSE
