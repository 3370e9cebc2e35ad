SPECIFICATION Spec
CONSTANTS
  NodeCount = 6
  Types <- MCTypes
  NumThreads = 2
  Queries <- MCQueries
INVARIANT HintKeepsLimit
CHECK_DEADLOCK FALSE
