---------------------------- MODULE ShortestPaths ----------------------------
(***************************************************************************)
(* Shortest paths over a GraphFrame: Dijkstra and A*, all shortest paths,  *)
(* and the k shortest simple paths by Yen's algorithm.  The searches work  *)
(* on the local numbers of the edge frame, and a heap is the set of what   *)
(* is in it, since no search pushes an entry twice.  Weights are numbers;  *)
(* a null one is an error where it is met, and so is a negative one.       *)
(*                                                                         *)
(* cfg is [weight, types, dir]: the weight column or Null, the types of    *)
(* edges that count, and the direction.                                    *)
(***************************************************************************)
EXTENDS Frames

Infinite == 1000    \* more than the cost of any path of an instance

-----------------------------------------------------------------------------
(* Neighbours and weights. *)

Fitting(g, s, cfg) == SelectSeq(s, LAMBDA p : EdgeRows(g)[p.row]["_type"] \in cfg.types)
NeighborPairs(g, u, cfg) ==
    LET outgoing == Fitting(g, Slice(g.edges.out, u), cfg)
        incoming == Fitting(g, Slice(g.edges.in, u), cfg)
    IN CASE cfg.dir = "out" -> outgoing
         [] cfg.dir = "in"  -> incoming
         [] OTHER           -> outgoing \o incoming

Weight(g, cfg, row) == IF cfg.weight = Null THEN 1 ELSE EdgeRows(g)[row][cfg.weight]
WeightError(g, cfg, row) ==
    IF Weight(g, cfg, row) = Null THEN "TypeMismatch"
    ELSE IF Weight(g, cfg, row) < 0 THEN "NegativeWeight" ELSE "ok"

Numeric == {"Int64", "Float64"}
CallError(g, src, dst, cfg) ==
    IF ~HasNode(g.nodes, src) \/ ~HasNode(g.nodes, dst) THEN "NodeNotFound"
    ELSE IF cfg.weight = Null THEN "ok"
    ELSE IF cfg.weight \notin Names(g.edges.data) THEN "ColumnNotFound"
    ELSE IF TypeOf(g.edges.data, cfg.weight) \notin Numeric THEN "TypeMismatch" ELSE "ok"

-----------------------------------------------------------------------------
(* Dijkstra and A*. *)

Pop(heap) == CHOOSE e \in heap : \A f \in heap : e[1] < f[1] \/ (e[1] = f[1] /\ e[2] <= f[2])

\* The edges of u are relaxed in turn; an equal cost only changes the predecessor,
\* for the one with the lower number.  h estimates what remains from a node.
Relaxed(g, cfg, h, s, u) ==
    LET relax(acc, p) ==
          LET cost == acc.dist[u] + Weight(g, cfg, p.row)
          IN IF acc.status # "ok" THEN acc
             ELSE IF WeightError(g, cfg, p.row) # "ok"
             THEN [acc EXCEPT !.status = WeightError(g, cfg, p.row)]
             ELSE IF cost < acc.dist[p.to]
             THEN IF h[p.to] < 0 THEN [acc EXCEPT !.status = "InvalidConfig"]
                  ELSE [acc EXCEPT !.dist[p.to] = cost, !.prev[p.to] = u,
                                   !.heap = @ \cup {<<cost + h[p.to], p.to>>}]
             ELSE IF cost = acc.dist[p.to] /\ u < acc.prev[p.to]
             THEN [acc EXCEPT !.prev[p.to] = u]
             ELSE acc
    IN FoldLeft(relax, s, NeighborPairs(g, u, cfg))

\* What a search keeps.
Searches(g) ==
    LET numbers == DOMAIN g.edges.ids
    IN [status : STRING, found : BOOLEAN, heap : SUBSET (Int \X numbers),
        dist : [numbers -> Int], prev : [numbers -> Nat]]
\* Runs until the heap is empty or dst is popped; dst 0 is never.
Explore(g, cfg, h, start, dst) ==
    LET explored[s \in Searches(g)] ==
          LET top == Pop(s.heap)
              u   == top[2]
              t   == [s EXCEPT !.heap = @ \ {top}]
          IN IF s.status # "ok" \/ s.heap = {} THEN s
             ELSE IF top[1] > s.dist[u] + h[u] THEN explored[t]
             ELSE IF u = dst THEN [s EXCEPT !.found = TRUE]
             ELSE explored[Relaxed(g, cfg, h, t, u)]
    IN explored[start]

Start(g, h, src) ==
    [status |-> IF h[src] < 0 THEN "InvalidConfig" ELSE "ok", found |-> FALSE,
     heap |-> {<<h[src], src>>},
     dist |-> [u \in DOMAIN g.edges.ids |-> IF u = src THEN 0 ELSE Infinite],
     prev |-> [u \in DOMAIN g.edges.ids |-> 0]]
NoEstimate(g) == [u \in DOMAIN g.edges.ids |-> 0]

\* From dst back to src; the chain of predecessors has no end when it comes to a
\* node again, and the answer is then the empty path.
Chain(prev, src, dst) ==
    LET back[path \in Seq(DOMAIN prev)] ==
          LET u == Head(path)
          IN IF u = src \/ prev[u] = 0 THEN path
             ELSE IF u \in ToSet(Tail(path)) THEN <<>>
             ELSE back[<<prev[u]>> \o path]
    IN back[<<dst>>]

PathIds(g, path) == [i \in DOMAIN path |-> g.edges.ids[path[i]]]
Spelled(g, path) == IF path = <<>> THEN Err("diverges") ELSE Ok(PathIds(g, path))
Local(g, x)      == LocalOf(g.edges.ids, x)

Reconstructed(g, s, src, dst) ==
    Unless(s.status, IF s.found THEN Spelled(g, Chain(s.prev, src, dst)) ELSE Ok(<<>>))
DijkstraSingle(g, src, dst, cfg) ==
    Reconstructed(g, Explore(g, cfg, NoEstimate(g), Start(g, NoEstimate(g), src), dst), src, dst)

\* The trivial answers that the entry points share.
Answered(g, src, dst, cfg, none, trivial, searched) ==
    Unless(CallError(g, src, dst, cfg),
           IF src = dst THEN Ok(trivial)
           ELSE IF ~InEdges(g, src) \/ ~InEdges(g, dst) THEN Ok(none)
           ELSE searched)

\* shortest_path; no path is <<>>.
ShortestPath(g, src, dst, cfg) ==
    Answered(g, src, dst, cfg, <<>>, <<src>>,
             DijkstraSingle(g, Local(g, src), Local(g, dst), cfg))

\* astar_shortest_path, with an estimate by id.
AStar(g, src, dst, cfg, estimate) ==
    LET h    == [u \in DOMAIN g.edges.ids |-> estimate[g.edges.ids[u]]]
    IN Answered(g, src, dst, cfg, <<>>, <<src>>,
         Reconstructed(g, Explore(g, cfg, h, Start(g, h, Local(g, src)), Local(g, dst)),
                       Local(g, src), Local(g, dst)))

-----------------------------------------------------------------------------
(* All shortest paths. *)

Distances(g, src, cfg) == Explore(g, cfg, NoEstimate(g), Start(g, NoEstimate(g), src), 0)

\* Every node from which an edge of v's is on a shortest way to v, in order.
Predecessors(g, cfg, dist, v) ==
    Ascending({u \in DOMAIN g.edges.ids :
        /\ dist[u] # Infinite
        /\ \E p \in ToSet(NeighborPairs(g, u, cfg)) :
              p.to = v /\ dist[u] + Weight(g, cfg, p.row) = dist[v]})

PathsBack(preds, src, dst) ==
    LET back[path \in Seq(DOMAIN preds)] ==
          LET u == Head(path)
          IN IF u = src THEN <<path>>
             ELSE IF u \in ToSet(Tail(path)) THEN <<<<>>>>
             ELSE FlattenSeq([i \in DOMAIN preds[u] |-> back[<<preds[u][i]>> \o path]])
    IN back[<<dst>>]

Enumerated(g, cfg, s, src, dst) ==
    LET preds == [v \in DOMAIN g.edges.ids |-> Predecessors(g, cfg, s.dist, v)]
        paths == PathsBack(preds, src, dst)
    IN Unless(s.status,
         IF s.dist[dst] = Infinite THEN Ok(<<>>)
         ELSE Collected([i \in DOMAIN paths |-> Spelled(g, paths[i])]))
DijkstraAll(g, src, dst, cfg) == Enumerated(g, cfg, Distances(g, src, cfg), src, dst)

AllShortestPaths(g, src, dst, cfg) ==
    Answered(g, src, dst, cfg, <<>>, <<<<src>>>>,
             DijkstraAll(g, Local(g, src), Local(g, dst), cfg))

-----------------------------------------------------------------------------
(* The k shortest simple paths. *)

\* A search by cost and then hops, with an entry for each node and number of hops.
PopHops(heap) ==
    CHOOSE e \in heap : \A f \in heap :
        \/ e[1] < f[1]
        \/ e[1] = f[1] /\ (e[2] < f[2] \/ (e[2] = f[2] /\ e[3] <= f[3]))

RelaxedWithin(g, cfg, ban, s, cost, hops, u) ==
    LET relax(acc, p) ==
          LET at == <<hops + 1, p.to>>
              c  == cost + Weight(g, cfg, p.row)
          IN IF acc.status # "ok" \/ p.row \in ban.rows \/ p.to \in ban.nodes THEN acc
             ELSE IF WeightError(g, cfg, p.row) # "ok"
             THEN [acc EXCEPT !.status = WeightError(g, cfg, p.row)]
             ELSE IF c < acc.dist[at]
             THEN [acc EXCEPT !.dist[at] = c, !.prev[at] = <<u, p.row>>,
                              !.heap = @ \cup {<<c, hops + 1, p.to>>}]
             ELSE IF c = acc.dist[at] /\ u < acc.prev[at][1]
             THEN [acc EXCEPT !.prev[at] = <<u, p.row>>]
             ELSE acc
    IN FoldLeft(relax, s, NeighborPairs(g, u, cfg))

NoCandidate == [nodes |-> <<>>, rows |-> <<>>, cost |-> 0]

\* Back through the layers of hops.
Traced(prev, hops, end) ==
    LET back[k \in 0..hops] ==
          IF k = 0 THEN end
          ELSE LET c    == back[k - 1]
                   from == prev[<<hops - (k - 1), Head(c.nodes)>>]
               IN [c EXCEPT !.nodes = <<from[1]>> \o @, !.rows = <<from[2]>> \o @]
    IN back[hops]

ExploreWithin(g, cfg, ban, start, dst, limit) ==
    LET numbers  == DOMAIN g.edges.ids
        slots    == (0..limit) \X numbers
        searches == [status : STRING, heap : SUBSET (Int \X (0..limit) \X numbers),
                     dist : [slots -> Int], prev : [slots -> Nat \X Nat]]
        explored[s \in searches] ==
          LET top  == PopHops(s.heap)
              hops == top[2]
              u    == top[3]
              t    == [s EXCEPT !.heap = @ \ {top}]
          IN IF s.status # "ok" THEN Err(s.status)
             ELSE IF s.heap = {} THEN Ok(NoCandidate)
             ELSE IF top[1] > s.dist[<<hops, u>>] THEN explored[t]
             ELSE IF u = dst
             THEN Ok(Traced(s.prev, hops, [nodes |-> <<dst>>, rows |-> <<>>, cost |-> top[1]]))
             ELSE explored[IF hops >= limit THEN t ELSE RelaxedWithin(g, cfg, ban, t, top[1], hops, u)]
    IN explored[start]

\* shortest_path_candidate; maxHops Null is no limit but that of a simple path.
Candidate(g, src, dst, cfg, ban, maxHops) ==
    LET limit == IF maxHops = Null THEN Len(g.edges.ids) - 1 ELSE maxHops
        slots == (0..limit) \X DOMAIN g.edges.ids
    IN IF {src, dst} \cap ban.nodes # {} THEN Ok(NoCandidate)
       ELSE ExploreWithin(g, cfg, ban,
              [status |-> "ok", heap |-> {<<0, 0, src>>},
               dist |-> [at \in slots |-> IF at = <<0, src>> THEN 0 ELSE Infinite],
               prev |-> [at \in slots |-> <<0, 0>>]], dst, limit)

LexLess(a, b) ==
    \/ \E i \in DOMAIN a \cap DOMAIN b : a[i] < b[i] /\ \A j \in 1..(i - 1) : a[j] = b[j]
    \/ Len(a) < Len(b) /\ SubSeq(b, 1, Len(a)) = a
Best(candidates) ==
    CHOOSE c \in candidates : \A d \in candidates :
        c = d \/ c.cost < d.cost \/ (c.cost = d.cost /\ LexLess(c.nodes, d.nodes))

\* Mutant of RootCost: a path costs what its last part does.
RootCostLeftOut(g, cfg, rows) == 0
RootCost(g, cfg, rows) == FoldLeft(LAMBDA sum, r : sum + Weight(g, cfg, r), 0, rows)

\* What the search from the spur-th node of the last path adds to the candidates.
\* The rows that accepted paths take on from the same root are banned.
Spurred(g, cfg, dst, maxHops, accepted, spur, paths) ==
    LET last  == Last(accepted)
        root  == SubSeq(last.nodes, 1, spur)
        rows  == SubSeq(last.rows, 1, spur - 1)
        ban   == [nodes |-> ToSet(Front(root)),
                  rows  |-> {p.rows[spur] : p \in {p \in ToSet(accepted) :
                                Len(p.nodes) >= spur /\ SubSeq(p.nodes, 1, spur) = root}}]
        left  == IF maxHops = Null THEN Null
                 ELSE IF maxHops < spur - 1 THEN 0 ELSE maxHops - (spur - 1)
        whole(found) == [nodes |-> Front(root) \o found.nodes, rows |-> rows \o found.rows,
                         cost  |-> RootCost(g, cfg, rows) + found.cost]
        new(p) == \A q \in ToSet(accepted) \cup paths : q.nodes # p.nodes
    IN Then(Candidate(g, last.nodes[spur], dst, cfg, ban, left), LAMBDA found :
            Ok(paths \cup {p \in {whole(found)} : found # NoCandidate /\ new(p)}))

Spurs(g, cfg, dst, maxHops, accepted, candidates) ==
    FoldLeft(LAMBDA s, i : Then(s, LAMBDA paths : Spurred(g, cfg, dst, maxHops, accepted, i, paths)),
             Ok(candidates), [i \in 1..(Len(Last(accepted).nodes) - 1) |-> i])

Yen(g, cfg, dst, k, maxHops, first) ==
    LET round[n \in 1..k] ==
          IF n = 1 THEN Ok([accepted |-> <<first>>, candidates |-> {}, done |-> FALSE])
          ELSE Then(round[n - 1], LAMBDA s :
               IF s.done THEN Ok(s)
               ELSE Then(Spurs(g, cfg, dst, maxHops, s.accepted, s.candidates), LAMBDA paths :
                    IF paths = {} THEN Ok([s EXCEPT !.done = TRUE])
                    ELSE Ok([s EXCEPT !.accepted = Append(@, Best(paths)), !.candidates = paths \ {Best(paths)}])))
    IN Then(round[k], LAMBDA s : Ok(s.accepted))

KShortestPaths(g, src, dst, k, maxHops, cfg) ==
    LET nothing == [nodes |-> {}, rows |-> {}]
        spelled(paths) == Ok([i \in DOMAIN paths |-> PathIds(g, paths[i].nodes)])
    IN IF k = 0 THEN Ok(<<>>)
       ELSE Answered(g, src, dst, cfg, <<>>, <<<<src>>>>,
              Then(Candidate(g, Local(g, src), Local(g, dst), cfg, nothing, maxHops), LAMBDA first :
                   IF first = NoCandidate THEN Ok(<<>>)
                   ELSE Then(Yen(g, cfg, Local(g, dst), k, maxHops, first), spelled)))

-----------------------------------------------------------------------------
(* What the answers are compared with: the simple paths, by what they cost. *)

Joins(g, cfg, x, y) ==
    {r \in DOMAIN EdgeRows(g) :
        /\ EdgeRows(g)[r]["_type"] \in cfg.types
        /\ \/ cfg.dir # "in" /\ EdgeRows(g)[r]["_src"] = x /\ EdgeRows(g)[r]["_dst"] = y
           \/ cfg.dir # "out" /\ EdgeRows(g)[r]["_src"] = y /\ EdgeRows(g)[r]["_dst"] = x}
StepCost(g, cfg, x, y) == Min({Weight(g, cfg, r) : r \in Joins(g, cfg, x, y)})

SimplePaths(g, cfg, src, dst) ==
    LET ids == ToSet(g.edges.ids)
        from[path \in Seq(ids)] ==
          IF Last(path) = dst THEN {path}
          ELSE UNION {from[Append(path, y)] : y \in {y \in ids \ ToSet(path) : Joins(g, cfg, Last(path), y) # {}}}
    IN from[<<src>>]
Cost(g, cfg, path) ==
    FoldLeft(LAMBDA sum, i : sum + StepCost(g, cfg, path[i], path[i + 1]), 0,
             [i \in 1..(Len(path) - 1) |-> i])

Parallel(g, cfg) ==
    \E x, y \in ToSet(g.edges.ids) : Cardinality(Joins(g, cfg, x, y)) > 1
\* A cycle that costs nothing: no order of the nodes goes up along its edges.
FreeSteps(g, cfg) ==
    {e \in ToSet(g.edges.ids) \X ToSet(g.edges.ids) :
        \E r \in Joins(g, cfg, e[1], e[2]) : Weight(g, cfg, r) = 0}
HasFreeCycle(g, cfg) ==
    \E p \in UNION {SimplePaths(g, cfg, e[2], e[1]) : e \in FreeSteps(g, cfg)} :
        \A i \in 1..(Len(p) - 1) : <<p[i], p[i + 1]>> \in FreeSteps(g, cfg)
=============================================================================
