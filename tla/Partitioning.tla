---------------------------- MODULE Partitioning ----------------------------
(***************************************************************************)
(* A graph cut into shards, graphs of their own, and the edges between     *)
(* them.  Shards are counted from 1.  The hash of an id is a constant      *)
(* function, one number per id.                                            *)
(***************************************************************************)
EXTENDS Frames

CONSTANT Hash   \* what the hasher makes of each id
ASSUME HashAssumption == \A x \in DOMAIN Hash : Hash[x] \in Nat

HashShard(x, n) == (Hash[x] % n) + 1

-----------------------------------------------------------------------------
(* assign_nodes. *)

\* Bands of the sorted ids, the last one taking what is left.
RangeShard(ids, x, n) ==
    LET rank == Cardinality({y \in ToSet(ids) : y < x})
        band == Max({1, (Len(ids) + n - 1) \div n})
    IN Min({rank \div band, n - 1}) + 1

\* Nodes of one first label go together, the labels numbered as they appear: as many
\* come before the row that opens a label as are first of an earlier row.
LabelShard(g, x, n) ==
    LET first(y) == Head(Label(g, y))
        labelled == {i \in DOMAIN IdsOf(g) : Label(g, IdsOf(g)[i]) # <<>>}
        opening  == Min({i \in labelled : first(IdsOf(g)[i]) = first(x)})
        before   == {first(IdsOf(g)[i]) : i \in {i \in labelled : i < opening}}
    IN IF Label(g, x) = <<>> THEN HashShard(x, n) ELSE (Cardinality(before) % n) + 1

Assigned(g, n, method) ==
    [x \in ToSet(IdsOf(g)) |->
        CASE method = "hash"  -> HashShard(x, n)
          [] method = "range" -> RangeShard(IdsOf(g), x, n)
          [] method = "label" -> LabelShard(g, x, n)]

-----------------------------------------------------------------------------
(* partition, stats and merge. *)

Partition(g, n, method) ==
    LET shard == Assigned(g, n, method)
        rows  == DOMAIN EdgeRows(g)
        sides(r) == <<shard[EdgeRows(g)[r]["_src"]], shard[EdgeRows(g)[r]["_dst"]]>>
        shards == [k \in 1..n |-> NewGraph(NodesIn(g.nodes, {x \in DOMAIN shard : shard[x] = k}),
                                           EdgesAt(g.edges, {r \in rows : sides(r) = <<k, k>>}))]
    IN IF n = 0 THEN Err("InvalidConfig")
       ELSE Then(Collected(shards), LAMBDA graphs :
                 Ok([shards   |-> graphs,
                     boundary |-> EdgesAt(g.edges, {r \in rows : sides(r)[1] # sides(r)[2]}),
                     shardOf  |-> shard]))

\* The imbalance is the largest shard over the average, kept as two numbers.
Stats(p) ==
    LET n     == Len(p.shards)
        nodes == [k \in 1..n |-> Len(IdsOf(p.shards[k]))]
        total == FoldLeft(+, 0, nodes)
    IN [nodes     |-> nodes,
        edges     |-> [k \in 1..n |-> Len(EdgeRows(p.shards[k]))],
        boundary  |-> Len(p.boundary.data.rows),
        imbalance |-> IF total = 0 THEN <<1, 1>> ELSE <<Max(ToSet(nodes)) * n, total>>]

Joined(graphs, boundary) ==
    Then(ConcatNodes([k \in DOMAIN graphs |-> graphs[k].nodes]), LAMBDA nodes :
    Then(ConcatEdges(Append([k \in DOMAIN graphs |-> graphs[k].edges], boundary)), LAMBDA edges :
         Ok([nodes |-> nodes, edges |-> edges])))
Merge(p) ==
    Then(Joined(p.shards, p.boundary), LAMBDA all : NewGraph(all.nodes, all.edges))

-----------------------------------------------------------------------------
(* distributed_expand.  A round goes from the frontier inside the shards,   *)
(* which is new to visited at once, and then over the boundary, from the    *)
(* same frontier to what is not visited by now.                             *)

Across(rows, from, types, dir) ==
    {[row |-> r, to |-> rows[r]["_dst"]] :
        r \in {r \in DOMAIN rows : dir # "in" /\ rows[r]["_type"] \in types /\ rows[r]["_src"] \in from}}
    \cup
    {[row |-> r, to |-> rows[r]["_src"]] :
        r \in {r \in DOMAIN rows : dir # "out" /\ rows[r]["_type"] \in types /\ rows[r]["_dst"] \in from}}

DirectExpand(p, k, frontier, types, dir) ==
    LET seeds == {x \in frontier : x \in DOMAIN p.shardOf /\ p.shardOf[x] = k}
    IN {e.to : e \in Across(EdgeRows(p.shards[k]), seeds, types, dir)}

\* Mutant of Round: what is found over the boundary is not gone on from.
RoundStopsAtBoundary(p, types, dir, s) ==
    LET inside   == UNION {DirectExpand(p, k, s.frontier, types, dir) : k \in DOMAIN p.shards}
        visited  == s.visited \cup inside
        crossing == {e \in Across(p.boundary.data.rows, s.frontier, types, dir) : e.to \notin visited}
    IN [frontier |-> inside \ s.visited, visited |-> visited \cup {e.to : e \in crossing},
        boundary |-> s.boundary \cup {e.row : e \in crossing}]
Round(p, types, dir, s) ==
    LET inside   == UNION {DirectExpand(p, k, s.frontier, types, dir) : k \in DOMAIN p.shards}
        visited  == s.visited \cup inside
        crossing == {e \in Across(p.boundary.data.rows, s.frontier, types, dir) : e.to \notin visited}
        all      == visited \cup {e.to : e \in crossing}
    IN [frontier |-> all \ s.visited, visited |-> all,
        boundary |-> s.boundary \cup {e.row : e \in crossing}]

\* The loop breaks at an empty frontier, from which a round finds nothing.
Rounds(p, types, dir, s, hops) ==
    LET after[k \in 0..hops] == IF k = 0 THEN s ELSE Round(p, types, dir, after[k - 1])
    IN after[hops]

\* Of a shard all edges between visited nodes are put out, of any type; of the
\* boundary those that found a node.
Expansion(p, s) ==
    Joined([k \in DOMAIN p.shards |-> Subgraph(p.shards[k], s.visited).value], EdgesAt(p.boundary, s.boundary))
DistributedExpand(p, seeds, types, hops, dir) ==
    Expansion(p, Rounds(p, types, dir, [frontier |-> seeds, visited |-> seeds, boundary |-> {}], hops))
=============================================================================
