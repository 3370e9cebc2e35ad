------------------------------ MODULE Rankings ------------------------------
(***************************************************************************)
(* Degree and betweenness centrality, and PageRank.  Scores are exact:     *)
(* a betweenness is kept in twelfths and before the division by the common *)
(* norm, a rank as a share of a common scale, and a degree centrality as a *)
(* degree with what it is divided by.                                      *)
(***************************************************************************)
EXTENDS Traversal

Unbounded == 1000   \* more than the cost of any path of an instance
Twelfths  == 12     \* a multiple of every number of shortest paths between two nodes

DegreeCentrality(g, dir) ==
    LET n == Len(IdsOf(g))
        degree(x) == CASE dir = "out" -> Len(OutOf(g, x))
                       [] dir = "in"  -> Len(InTo(g, x))
                       [] OTHER       -> Len(OutOf(g, x)) + Len(InTo(g, x))
        over == IF dir \in {"out", "in"} THEN n - 1 ELSE 2 * (n - 1)
    IN WithColumn(g, "degree_centrality", "Float64",
                  [x \in ToSet(IdsOf(g)) |-> IF n <= 1 THEN <<0, 1>> ELSE <<degree(x), over>>])

-----------------------------------------------------------------------------
(* Brandes' betweenness: one search per node that has edges, whose scores   *)
(* are added up.                                                            *)

ColumnError(g, w) ==
    IF w = Null THEN "ok"
    ELSE IF w \notin Names(g.edges.data) THEN "ColumnNotFound"
    ELSE IF TypeOf(g.edges.data, w) \notin {"Int64", "Float64"} THEN "TypeMismatch" ELSE "ok"
EdgeWeight(g, w, row) == IF w = Null THEN 1 ELSE EdgeRows(g)[row][w]
EdgeWeightError(g, w, row) ==
    IF EdgeWeight(g, w, row) = Null THEN "TypeMismatch"
    ELSE IF EdgeWeight(g, w, row) < 0 THEN "NegativeWeight" ELSE "ok"

\* A row that makes a way shorter starts the count of ways over, one that makes
\* another of the same cost adds to it.
Counted(g, w, s, v) ==
    FoldLeft(LAMBDA acc, p :
        LET cost == acc.dist[v] + EdgeWeight(g, w, p.row)
        IN IF acc.status # "ok" THEN acc
           ELSE IF EdgeWeightError(g, w, p.row) # "ok"
           THEN [acc EXCEPT !.status = EdgeWeightError(g, w, p.row)]
           ELSE IF cost < acc.dist[p.to]
           THEN [acc EXCEPT !.dist[p.to] = cost, !.sigma[p.to] = acc.sigma[v],
                            !.pred[p.to] = <<v>>, !.heap = @ \cup {<<cost, p.to>>}]
           ELSE IF cost = acc.dist[p.to]
           THEN [acc EXCEPT !.sigma[p.to] = @ + acc.sigma[v], !.pred[p.to] = Append(@, v)]
           ELSE acc,
        s, Slice(g.edges.out, v))

CountWays(g, w, start) ==
    LET numbers  == DOMAIN g.edges.ids
        searches == [status : STRING, heap : SUBSET (Int \X numbers), stack : Seq(numbers),
                     dist : [numbers -> Int], sigma : [numbers -> Nat], pred : [numbers -> Seq(numbers)]]
        counted[s \in searches] ==
          LET top  == CHOOSE e \in s.heap : \A f \in s.heap : e[1] < f[1] \/ (e[1] = f[1] /\ e[2] <= f[2])
              rest == [s EXCEPT !.heap = @ \ {top}]
          IN IF s.status # "ok" \/ s.heap = {} THEN s
             ELSE IF top[1] > s.dist[top[2]] THEN counted[rest]
             ELSE counted[Counted(g, w, [rest EXCEPT !.stack = Append(@, top[2])], top[2])]
    IN counted[start]

\* Mutant of Dependencies: from the nearest node on.
DependenciesFromNearest(s) ==
    LET shares(delta, x) ==
          FoldLeft(LAMBDA d, v : [d EXCEPT ![v] = @ + (s.sigma[v] * (Twelfths + d[x])) \div s.sigma[x]],
                   delta, s.pred[x])
    IN FoldLeft(shares, [v \in DOMAIN s.dist |-> 0], s.stack)
\* From the farthest node back, each passes its share on to its predecessors.
Dependencies(s) ==
    LET shares(delta, x) ==
          FoldLeft(LAMBDA d, v : [d EXCEPT ![v] = @ + (s.sigma[v] * (Twelfths + d[x])) \div s.sigma[x]],
                   delta, s.pred[x])
    IN FoldLeft(shares, [v \in DOMAIN s.dist |-> 0], Reverse(s.stack))

FromSource(g, w, source) ==
    LET numbers == DOMAIN g.edges.ids
    IN CountWays(g, w,
         [status |-> "ok", heap |-> {<<0, source>>}, stack |-> <<>>,
          dist |-> [v \in numbers |-> IF v = source THEN 0 ELSE Unbounded],
          sigma |-> [v \in numbers |-> IF v = source THEN 1 ELSE 0],
          pred |-> [v \in numbers |-> <<>>]])

Betweenness(g, w) ==
    LET numbers  == DOMAIN g.edges.ids
        s        == [i \in numbers |-> FromSource(g, w, i)]
        delta    == [i \in numbers |-> Dependencies(s[i])]
        bad      == {i \in numbers : s[i].status # "ok"}
        score(v) == FoldLeft(LAMBDA sum, i : IF i = v THEN sum ELSE sum + delta[i][v], 0,
                             [i \in numbers |-> i])
        scores   == [x \in ToSet(IdsOf(g)) |->
                        IF InEdges(g, x) THEN score(LocalOf(g.edges.ids, x)) ELSE 0]
        zeros    == [x \in ToSet(IdsOf(g)) |-> 0]
    IN IF Len(IdsOf(g)) < 2 \/ numbers = {} THEN WithColumn(g, "betweenness", "Float64", zeros)
       ELSE IF ColumnError(g, w) # "ok" THEN Err(ColumnError(g, w))
       ELSE IF bad # {} THEN Err(s[Min(bad)].status)
       ELSE WithColumn(g, "betweenness", "Float64", scores)

-----------------------------------------------------------------------------
(* PageRank with a damping of one half.  A rank r of a scale s is r/s; each *)
(* iteration multiplies the scale by 24n, so that every share is whole      *)
(* where the weight out of a node divides 12.                               *)

Total(f, S) == FoldLeft(LAMBDA sum, x : sum + f[x], 0, Ascending(S))

InAdjacency(g, x)  == SelectSeq([r \in DOMAIN EdgeRows(g) |-> r], LAMBDA r : EdgeRows(g)[r]["_dst"] = x)
OutWeight(g, w, x) ==
    FoldLeft(LAMBDA sum, r : IF EdgeRows(g)[r]["_src"] = x THEN sum + EdgeWeight(g, w, r) ELSE sum,
             0, [r \in DOMAIN EdgeRows(g) |-> r])

Iterated(g, w, s) ==
    LET ids      == ToSet(IdsOf(g))
        n        == Cardinality(ids)
        out      == [x \in ids |-> OutWeight(g, w, x)]
        dangling == Total(s.ranks, {x \in ids : out[x] = 0})
        share(r) == LET u == EdgeRows(g)[r]["_src"]
                    IN IF out[u] = 0 THEN 0
                       ELSE (12 * n * s.ranks[u] * EdgeWeight(g, w, r)) \div out[u]
    IN [scale |-> 24 * n * s.scale,
        ranks |-> [x \in ids |-> 12 * s.scale + 12 * dangling
                     + FoldLeft(LAMBDA sum, r : sum + share(r), 0, InAdjacency(g, x))]]

Distance(n, old, new) ==
    LET change(x) == new.ranks[x] - 24 * n * old.ranks[x]
    IN Total([x \in DOMAIN old.ranks |-> IF change(x) < 0 THEN -change(x) ELSE change(x)],
             DOMAIN old.ranks)

\* The iteration ends when the ranks move by less than 1/closeness.
Ranked(g, w, start, most, closeness) ==
    LET ranked[s \in [scale : Nat, ranks : [ToSet(IdsOf(g)) -> Nat]], left \in 0..most] ==
          LET next == Iterated(g, w, s)
          IN IF left = 0 THEN s
             ELSE IF Distance(Len(IdsOf(g)), s, next) * closeness < next.scale THEN next
             ELSE ranked[next, left - 1]
    IN ranked[start, most]

\* The answer keeps the scale beside the frame.
PageRank(g, w, maxIter, closeness) ==
    LET ids   == IdsOf(g)
        bad   == {r \in DOMAIN EdgeRows(g) : EdgeWeightError(g, w, r) # "ok"}
        s     == Ranked(g, w, [scale |-> Len(ids), ranks |-> [x \in ToSet(ids) |-> 1]], maxIter, closeness)
    IN IF maxIter = 0 THEN Err("InvalidConfig")
       ELSE IF ColumnError(g, w) # "ok" THEN Err(ColumnError(g, w))
       ELSE IF ids = <<>> THEN Ok([scale |-> 1, nodes |-> WithColumn(g, "pagerank", "Float64", <<>>).value])
       ELSE IF bad # {} THEN Err(EdgeWeightError(g, w, Min(bad)))
       ELSE Ok([scale |-> s.scale, nodes |-> WithColumn(g, "pagerank", "Float64", s.ranks).value])

-----------------------------------------------------------------------------
(* What a betweenness is compared with: the cheapest ways, row by row, and  *)
(* the share of them that pass a node.                                      *)

Ways(g, w, src, dst) ==
    LET from[way \in [nodes : Seq(ToSet(g.edges.ids)), cost : Int]] ==
          LET steps    == OutOf(g, Last(way.nodes))
              found(p) == IF p.to \in ToSet(way.nodes) THEN <<>>
                          ELSE from[[nodes |-> Append(way.nodes, p.to), cost |-> way.cost + EdgeWeight(g, w, p.row)]]
          IN IF Last(way.nodes) = dst THEN <<way>>
             ELSE FlattenSeq([i \in DOMAIN steps |-> found(steps[i])])
    IN from[[nodes |-> <<src>>, cost |-> 0]]
CheapestWays(g, w, src, dst) ==
    LET all == Ways(g, w, src, dst)
    IN SelectSeq(all, LAMBDA p : \A i \in DOMAIN all : p.cost <= all[i].cost)
Passing(g, w, x) ==
    LET pairs    == {e \in ToSet(g.edges.ids) \X ToSet(g.edges.ids) : e[1] # e[2] /\ x \notin ToSet(e)}
        share(e) == LET ways == CheapestWays(g, w, e[1], e[2])
                    IN IF ways = <<>> THEN 0
                       ELSE (Twelfths * Len(SelectSeq(ways, LAMBDA p : x \in ToSet(p.nodes)))) \div Len(ways)
    IN FoldFunction(LAMBDA s, sum : s + sum, 0, [e \in pairs |-> share(e)])
=============================================================================
