SPECIFICATION Spec
CONSTANTS
    NodeCount = 4
    Types = {"a", "b"}
    Edges <- MCEdges
    Columns <- MCColumns
    Rank <- MCRank
    Calls <- MCCalls
    Switches <- MCSwitches
    MaxOps = 3
INVARIANTS
    TypeOK
    CarefulPlansKeepTheirResult
    AnswersAgree
    PruningAddsOnlyTheFrontier
\* A query is over when it is collected.
CHECK_DEADLOCK FALSE
