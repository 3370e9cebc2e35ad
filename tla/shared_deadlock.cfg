SPECIFICATION FairSpec
CONSTANTS
  Ids <- MCIds
  InitNodes <- MCIds
  Rows <- MCTwoRows
  InitLocalIds <- MCInitLocalIds
  FlushThreshold = 1
  Calls <- OwnerCalls
  ReuseIds = FALSE
  MaxSerial = 3
  MaxLocalIdx = 2
  Readers = {r1}
  Compactors = {c1}
  NoThread = NoThread
PROPERTY EveryCallReturns
CHECK_DEADLOCK FALSE
