SPECIFICATION Spec
CONSTANTS
    NodeCount = 4
    Types = {"a", "b"}
    Edges <- MCEdges
    Columns <- MCColumns
    Rank <- MCRank
    Calls <- MCPruningCalls
    Switches <- MCDefault
    MaxOps = 3
INVARIANTS
    PassesPreserveSemantics
\* A query is over when it is collected.
CHECK_DEADLOCK FALSE
