-------------------------------- MODULE Hops --------------------------------
(***************************************************************************)
(* What an expansion is, without a search: the nodes at the ends of paths  *)
(* of so many hops over the edges that fit a direction, a set of types and *)
(* a filter on the node they lead to.  Expand shows that the executor's    *)
(* searches return it; Optimizer takes it for the meaning of an Expand.    *)
(* Nodes and edge rows are numbered from 1 in the order of their frames.   *)
(***************************************************************************)
EXTENDS Naturals, Sequences, FiniteSets

CONSTANTS
    NodeCount,   \* number of nodes of the source graph
    Types        \* the edge types

Nodes      == 1..NodeCount
Directions == {"out", "in", "both", "none"}
Row        == [src : Nodes, dst : Nodes, dir : Directions, type : Types]

\* `passes` and `fails` are the nodes for which the pre_filter is true and those
\* for which it is an error.  Without a filter every node passes.
Query == [edges : Seq(Row), frontier : Seq(Nodes), types : SUBSET Types, hops : Nat,
          dir : Directions, passes : SUBSET Nodes, fails : SUBSET Nodes,
          plan : {"plain", "limit", "parallel"}, stop : Nat]

-----------------------------------------------------------------------------
(* The edges of a node. *)

\* The semantic direction of a row: an out traversal follows Out and Both, an in
\* traversal everything but None, and the other two ignore it.
Fits(q, side, r) ==
    /\ q.edges[r].type \in q.types
    /\ \/ q.dir \in {"both", "none"}
       \/ side = "out" /\ q.dir = "out" /\ q.edges[r].dir \in {"out", "both"}
       \/ side = "in" /\ q.dir = "in" /\ q.edges[r].dir \in {"out", "in", "both"}

\* What the scan of a node meets: the rows that leave it and lead to their
\* destination, and the rows that enter it and lead to their source.
Entries(q, n) ==
    {[side |-> "out", to |-> q.edges[r].dst, row |-> r] :
        r \in {r \in DOMAIN q.edges : q.edges[r].src = n /\ Fits(q, "out", r)}}
    \cup
    {[side |-> "in", to |-> q.edges[r].src, row |-> r] :
        r \in {r \in DOMAIN q.edges : q.edges[r].dst = n /\ Fits(q, "in", r)}}

-----------------------------------------------------------------------------
(* The nodes at the ends of paths. *)

Hop(q, m, n) == n \in q.passes /\ \E e \in Entries(q, m) : e.to = n

\* The nodes that at most k hops lead to from a node of S.
Reach(q, S, k) ==
    {n \in Nodes : \E j \in 0..k : \E p \in [0..j -> Nodes] :
        /\ p[0] \in S /\ p[j] = n
        /\ \A i \in 0..(j - 1) : Hop(q, p[i], p[i + 1])}

\* What is scanned within k hops from S, and the rows that its hops are over.
Scanned(q, S, k)    == IF k = 0 THEN {} ELSE Reach(q, S, k - 1)
RowsWithin(q, S, k) ==
    {e.row : e \in {e \in UNION {Entries(q, n) : n \in Scanned(q, S, k)} : e.to \in q.passes}}
FailsWithin(q, S, k) ==
    \E n \in Scanned(q, S, k) : \E e \in Entries(q, n) : e.to \in q.fails

Failure     == [status |-> "err", nodes |-> {}, rows |-> {}]
Frontier(q) == {q.frontier[i] : i \in DOMAIN q.frontier}
Expanded(q) ==
    IF FailsWithin(q, Frontier(q), q.hops) THEN Failure
    ELSE [status |-> "ok", nodes |-> Reach(q, Frontier(q), q.hops),
          rows |-> RowsWithin(q, Frontier(q), q.hops)]

\* A Limit above the plan: the first n nodes and what joins them.
FirstNodes(n, S) == {x \in S : Cardinality({y \in S : y <= x}) <= n}
Limited(q, g) ==
    LET kept == FirstNodes(q.stop, g.nodes)
    IN [status |-> g.status, nodes |-> kept,
        rows |-> {r \in g.rows : {q.edges[r].src, q.edges[r].dst} \subseteq kept}]
=============================================================================
