SPECIFICATION Spec
CONSTANTS
  Null = Null
  Works <- MCWorks
  GraphsOf <- MCGraphsOf
  Inputs <- MCInputs
  MaxSteps = 2
  Hash <- MCHash
  NotIdent = {9}
  Unreadable = {}
  NameOrder <- MCNameOrder
  BatchRows = 2
  Begins <- MCBegins
  Formats = {"gf", "gfb", "parquet"}
  SaveGraphs <- MCSaved
  Projections <- MCProjections
  MaxSaves = 2
  PageRows = {1, 2, 3}
  BatchSizes = {0, 1, 2}
  MaxChanges = 2
  GraphNames = {"g"}
  Clients = {"c1", "c2", "c3"}
  Token <- MCToken
  Secret = "key"
  NoToken = "none"
  Graphs <- MCWritten
  MessageRows = 2
  MaxWrites = 2
INVARIANTS
  SubgraphsAreInduced PathsAreCheapest SearchesReachTheSame RankingsAreExact CommunitiesStayConnected
  SamplesFollowEdges ShardsCoverOnce PatternsAreHomomorphisms DeclaredSchemasHold SourcesAgree
  LoadsReturnWhatWasSaved EachChangeCostsAtMostARow UploadsArriveWhole
PROPERTIES LoadEnds
CHECK_DEADLOCK FALSE
