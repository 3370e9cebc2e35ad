SPECIFICATION Spec
CONSTANTS
  NodeCount = 6
  Types <- MCTypes
  NumThreads = 2
  Queries <- MCQueries
INVARIANTS
  TypeOK
  ExpandsByHops
  LimitFindsEnough
  OnlyTheFilterFails
CHECK_DEADLOCK FALSE
