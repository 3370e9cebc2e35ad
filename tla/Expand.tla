------------------------------- MODULE Expand -------------------------------
(***************************************************************************)
(* The Expand operator of the query executor (lynxes-lazy,                 *)
(* executor/traversal.rs): from a frontier of nodes, everything within so  *)
(* many hops over the edges that fit a direction, a set of types and a     *)
(* filter on the node they lead to.  It runs as one breadth-first search;  *)
(* under a LimitAware hint, as one that stops at so many nodes; under a    *)
(* PartitionParallel hint, as one search per chunk of the frontier, whose  *)
(* finds are put together at the end.                                      *)
(*                                                                         *)
(* A search is a worker.  It takes the nodes of a level in the order of a  *)
(* hash set, that is in any order, and the edges of a node in CSR order.   *)
(* One step scans one node: nobody sees a worker's sets before it returns. *)
(***************************************************************************)
EXTENDS Hops

CONSTANTS
    NumThreads,  \* rayon::current_num_threads()
    Queries      \* the Expand plans, each with the source graph's edges

ASSUME SizesAssumption == NodeCount \in Nat /\ NumThreads \in Nat \ {0}
ASSUME QueriesAssumption ==
    /\ Queries \subseteq Query
    /\ \A q \in Queries :
          /\ q.passes \cap q.fails = {}
          /\ \A i, j \in DOMAIN q.frontier : q.frontier[i] = q.frontier[j] => i = j

VARIABLES
    query,    \* the plan that runs
    at,       \* whether each worker scans, is done, or has failed
    hop,      \* the levels it has completed
    visited,  \* the nodes it has found
    todo,     \* the nodes of the current level it has not scanned
    next,     \* the nodes of the next level
    rows,     \* the edge rows it has retained
    result    \* the graph that the plan returns

vars == <<query, at, hop, visited, todo, next, rows, result>>

NoResult == [status |-> "none", nodes |-> {}, rows |-> {}]

-----------------------------------------------------------------------------
(* The workers. *)

\* With fewer than two ids per thread, or another plan, one worker takes the
\* whole frontier; otherwise each takes a contiguous chunk.
ChunkSize(q) ==
    IF q.plan = "parallel" /\ Len(q.frontier) >= 2 * NumThreads
    THEN (Len(q.frontier) + NumThreads - 1) \div NumThreads
    ELSE Len(q.frontier)
WorkerOf(q, i) == (i - 1) \div ChunkSize(q) + 1
Workers(q)  == {1} \cup {WorkerOf(q, i) : i \in DOMAIN q.frontier}
Chunk(q, w) == {q.frontier[i] : i \in {i \in DOMAIN q.frontier : WorkerOf(q, i) = w}}

-----------------------------------------------------------------------------
(* The order of a node's entries. *)

\* Edge-local indices number the nodes by first appearance in the rows, and a
\* CSR lists the entries of a node by neighbour index, then by row.
Appears(q, n) == {2 * r - 1 : r \in {r \in DOMAIN q.edges : q.edges[r].src = n}}
                    \cup {2 * r : r \in {r \in DOMAIN q.edges : q.edges[r].dst = n}}
IndexBefore(q, m, n) == \E i \in Appears(q, m) : \A j \in Appears(q, n) : i < j
Before(q, e, f) ==
    \/ e.side = "out" /\ f.side = "in"
    \/ /\ e.side = f.side
       /\ IndexBefore(q, e.to, f.to) \/ (e.to = f.to /\ e.row < f.row)

-----------------------------------------------------------------------------
Init ==
    /\ query \in Queries
    /\ at = [w \in Workers(query) |-> IF query.hops = 0 THEN "done" ELSE "scan"]
    /\ hop = [w \in Workers(query) |-> 0]
    /\ visited = [w \in Workers(query) |-> Chunk(query, w)]
    /\ todo = [w \in Workers(query) |-> Chunk(query, w)]
    /\ next = [w \in Workers(query) |-> {}]
    /\ rows = [w \in Workers(query) |-> {}]
    /\ result = NoResult

\* Mutant of Enough: the search goes on until it has more nodes than asked for.
EnoughLate(w, n, e) ==
    /\ query.plan = "limit"
    /\ Cardinality(visited[w] \cup {f.to : f \in {f \in Entries(query, n) :
            f.to \in query.passes /\ (f = e \/ Before(query, f, e))}}) > query.stop

\* The search has as many nodes as it may once it has taken entry e of node n.
\* It looks only after taking one: a frontier that is large enough from the
\* start still costs an edge.
Enough(w, n, e) ==
    /\ query.plan = "limit"
    /\ Cardinality(visited[w] \cup {f.to : f \in {f \in Entries(query, n) :
            f.to \in query.passes /\ (f = e \/ Before(query, f, e))}}) >= query.stop

\* The scan of a node ends early at an entry whose node fails the filter with an
\* error, or that fills the limit.
Ends(w, n, e) == e.to \in query.fails \/ (e.to \in query.passes /\ Enough(w, n, e))

LookedAt(w, n) ==
    {e \in Entries(query, n) :
        \A f \in Entries(query, n) : Before(query, f, e) => ~Ends(w, n, f)}

Taken(w, n) == {e \in LookedAt(w, n) : e.to \in query.passes}

\* Mutant of ScanNode: a row is retained before its node is filtered.
ScanNodeRowsFirst(w, n) ==
    /\ at[w] = "scan"
    /\ n \in todo[w]
    /\ visited' = [visited EXCEPT ![w] = @ \cup {e.to : e \in Taken(w, n)}]
    /\ next' = [next EXCEPT ![w] = @ \cup ({e.to : e \in Taken(w, n)} \ visited[w])]
    /\ rows' = [rows EXCEPT ![w] = @ \cup {e.row : e \in LookedAt(w, n)}]
    /\ todo' = [todo EXCEPT ![w] = @ \ {n}]
    /\ at' = [at EXCEPT ![w] =
                IF \E e \in LookedAt(w, n) : e.to \in query.fails THEN "failed"
                ELSE IF \E e \in LookedAt(w, n) : Ends(w, n, e) THEN "done"
                ELSE "scan"]
    /\ UNCHANGED <<query, hop, result>>

\* One node of the current level.  A node found before keeps the row but is not
\* scanned again.
ScanNode(w, n) ==
    /\ at[w] = "scan"
    /\ n \in todo[w]
    /\ visited' = [visited EXCEPT ![w] = @ \cup {e.to : e \in Taken(w, n)}]
    /\ next' = [next EXCEPT ![w] = @ \cup ({e.to : e \in Taken(w, n)} \ visited[w])]
    /\ rows' = [rows EXCEPT ![w] = @ \cup {e.row : e \in Taken(w, n)}]
    /\ todo' = [todo EXCEPT ![w] = @ \ {n}]
    /\ at' = [at EXCEPT ![w] =
                IF \E e \in LookedAt(w, n) : e.to \in query.fails THEN "failed"
                ELSE IF \E e \in LookedAt(w, n) : Ends(w, n, e) THEN "done"
                ELSE "scan"]
    /\ UNCHANGED <<query, hop, result>>

\* Mutant of EndLevel: the levels are counted from one.
EndLevelEarly(w) ==
    /\ at[w] = "scan"
    /\ todo[w] = {}
    /\ hop' = [hop EXCEPT ![w] = @ + 1]
    /\ todo' = [todo EXCEPT ![w] = next[w]]
    /\ next' = [next EXCEPT ![w] = {}]
    /\ at' = [at EXCEPT ![w] = IF next[w] = {} \/ hop[w] + 2 >= query.hops THEN "done" ELSE "scan"]
    /\ UNCHANGED <<query, visited, rows, result>>

\* Mutant of EndLevel: the level just found is never scanned.
EndLevelAlways(w) ==
    /\ at[w] = "scan"
    /\ todo[w] = {}
    /\ hop' = [hop EXCEPT ![w] = @ + 1]
    /\ todo' = [todo EXCEPT ![w] = next[w]]
    /\ next' = [next EXCEPT ![w] = {}]
    /\ at' = [at EXCEPT ![w] = IF next[w] = {} THEN "done" ELSE "scan"]
    /\ UNCHANGED <<query, visited, rows, result>>

\* The end of a level: the last hop, or one that found nothing, ends the search.
EndLevel(w) ==
    /\ at[w] = "scan"
    /\ todo[w] = {}
    /\ hop' = [hop EXCEPT ![w] = @ + 1]
    /\ todo' = [todo EXCEPT ![w] = next[w]]
    /\ next' = [next EXCEPT ![w] = {}]
    /\ at' = [at EXCEPT ![w] = IF next[w] = {} \/ hop[w] + 1 = query.hops THEN "done" ELSE "scan"]
    /\ UNCHANGED <<query, visited, rows, result>>

\* When every search has returned, the first error is returned, or the finds are
\* put together; GraphFrame::new refuses a row without its two nodes.
Merge ==
    /\ result = NoResult
    /\ \A w \in Workers(query) : at[w] # "scan"
    /\ LET found    == UNION {visited[w] : w \in Workers(query)}
           retained == UNION {rows[w] : w \in Workers(query)}
       IN result' =
            IF \/ \E w \in Workers(query) : at[w] = "failed"
               \/ \E r \in retained : ~({query.edges[r].src, query.edges[r].dst} \subseteq found)
            THEN Failure
            ELSE [status |-> "ok", nodes |-> found, rows |-> retained]
    /\ UNCHANGED <<query, at, hop, visited, todo, next, rows>>

Next ==
    \/ \E w \in Workers(query) : EndLevel(w) \/ \E n \in Nodes : ScanNode(w, n)
    \/ Merge

Spec == Init /\ [][Next]_vars

-----------------------------------------------------------------------------
TypeOK ==
    /\ query \in Queries
    /\ at \in [Workers(query) -> {"scan", "done", "failed"}]
    /\ hop \in [Workers(query) -> 0..query.hops]
    /\ visited \in [Workers(query) -> SUBSET Nodes]
    /\ todo \in [Workers(query) -> SUBSET Nodes]
    /\ next \in [Workers(query) -> SUBSET Nodes]
    /\ rows \in [Workers(query) -> SUBSET DOMAIN query.edges]
    /\ result \in [status : {"none", "ok", "err"}, nodes : SUBSET Nodes,
                   rows : SUBSET DOMAIN query.edges]

\* One search or many, in whatever order the hash sets are walked: the result is
\* the nodes within the hops and every row between them that was met, each edge
\* scanned at its node's first level, and an error exactly if some scanned edge
\* leads to a node the filter fails on.
ExpandsByHops == result # NoResult /\ query.plan # "limit" => result = Expanded(query)

\* A limit costs no node: the search returns as many as the limit asks for, or
\* all there are with all their edges; and a frontier that fills the limit by
\* itself grows by one node at most.
LimitFindsEnough ==
    result.status = "ok" /\ query.plan = "limit" =>
        LET full == Expanded([query EXCEPT !.fails = {}])
        IN /\ Frontier(query) \subseteq result.nodes
           /\ result.nodes \subseteq full.nodes /\ result.rows \subseteq full.rows
           /\ IF Len(query.frontier) < query.stop
              THEN \/ result = full
                   \/ Cardinality(result.nodes) = query.stop
              ELSE Cardinality(result.nodes) <= Len(query.frontier) + 1

\* No graph is put together that GraphFrame::new refuses, wherever the search
\* stopped: an error is the filter's.
OnlyTheFilterFails ==
    result.status = "err" => FailsWithin(query, Frontier(query), query.hops)

-----------------------------------------------------------------------------
(* What the documentation says of hints and the code does not keep. *)

\* ExecutionHint: "hints that do not change logical semantics".  A limit over a
\* hinted expansion is the limit over the expansion.
HintKeepsLimit ==
    result.status = "ok" /\ query.plan = "limit" =>
        Limited(query, result) = Limited(query, Expanded([query EXCEPT !.fails = {}]))
=============================================================================
