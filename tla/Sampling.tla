------------------------------ MODULE Sampling ------------------------------
(***************************************************************************)
(* Neighborhood sampling and random walks.  A sample is built frontier     *)
(* node by frontier node, each drawing some of its rows; the draws of one  *)
(* node are one step.  Nodes are the local numbers of the edge frame.      *)
(***************************************************************************)
EXTENDS Frames

\* A configuration is [hops, fanOut, dir, types, replace].
ConfigError(cfg) ==
    IF Len(cfg.fanOut) < cfg.hops \/ \E h \in 1..cfg.hops : cfg.fanOut[h] = 0
    THEN "InvalidConfig" ELSE "ok"

\* For the properties: a row leads from x to y, in the direction and with a type of cfg.
Leading(cfg, row, x, y) ==
    /\ row["_type"] \in cfg.types
    /\ \/ cfg.dir \in {"out", "both"} /\ row["_src"] = x /\ row["_dst"] = y
       \/ cfg.dir \in {"in", "both"} /\ row["_dst"] = x /\ row["_src"] = y

\* A row that leads out is not taken again on the way in.  An undirected
\* configuration has no candidates.
Drawable(g, i, dir, types) ==
    LET fits(p)  == EdgeRows(g)[p.row]["_type"] \in types
        ahead    == IF dir \in {"out", "both"} THEN Slice(g.edges.out, i) ELSE <<>>
        back     == IF dir \in {"in", "both"} THEN Slice(g.edges.in, i) ELSE <<>>
        fresh(p) == \A k \in DOMAIN ahead : ahead[k].row # p.row
    IN Those(ahead, fits) \o Those(back, LAMBDA p : fresh(p) /\ fits(p))

\* sampled_neighbor_positions: every draw the generator can make.
Draws(degree, fanOut, replace) ==
    IF degree = 0 THEN {<<>>}
    ELSE IF replace THEN [1..fanOut -> 1..degree]
    ELSE IF fanOut >= degree THEN {[i \in 1..degree |-> i]}
    ELSE {s \in [1..fanOut -> 1..degree] : IsInjective(s)}

-----------------------------------------------------------------------------
(* sample_neighbors. *)

\* Mutant of Met: the local number of a node is taken for its row.
MetByNumber(g, s, i) ==
    IF i \in ToSet(s.nodes) THEN s
    ELSE [s EXCEPT !.nodes = Append(@, i), !.nodeRows = Append(@, i)]
Met(g, s, i) ==
    IF i \in ToSet(s.nodes) THEN s
    ELSE [s EXCEPT !.nodes = Append(@, i), !.nodeRows = Append(@, g.nodes.index[g.edges.ids[i]])]

\* A seed without edges has no local number, and is left out.
Seeded(g, s, x) == IF InEdges(g, x) THEN Met(g, s, LocalOf(g.edges.ids, x)) ELSE s
SampleStart(g, seeds, cfg) ==
    LET empty == [nodes |-> <<>>, nodeRows |-> <<>>, src |-> <<>>, dst |-> <<>>, rows |-> <<>>,
                  hop |-> 1, frontier |-> <<>>, next |-> <<>>]
        s     == FoldLeft(LAMBDA acc, x : Seeded(g, acc, x), empty, seeds)
    IN IF ConfigError(cfg) # "ok" THEN Err(ConfigError(cfg))
       ELSE IF \E x \in ToSet(seeds) : ~HasNode(g.nodes, x) THEN Err("NodeNotFound")
       ELSE Ok([s EXCEPT !.frontier = s.nodes])

SampleDone(s, cfg) == s.hop > cfg.hops \/ (s.frontier = <<>> /\ s.next = <<>>)

\* Every draw goes to the next frontier, also one that has been met before.
Drawn(g, s, i, p) ==
    [Met(g, s, p.to) EXCEPT !.src = Append(@, i), !.dst = Append(@, p.to), !.rows = Append(@, p.row),
                            !.next = Append(@, p.to)]
DrawFrom(g, cfg, s) ==
    LET i     == Head(s.frontier)
        found == Drawable(g, i, cfg.dir, cfg.types)
        drawn(positions) ==
            FoldLeft(LAMBDA acc, k : Drawn(g, acc, i, found[k]),
                     [s EXCEPT !.frontier = Tail(@)], positions)
    IN {drawn(d) : d \in Draws(Len(found), cfg.fanOut[s.hop], cfg.replace)}
\* The next sample: a node draws, or the hop is over.
SampleSteps(g, cfg, s) ==
    IF s.frontier = <<>> THEN {[s EXCEPT !.frontier = s.next, !.next = <<>>, !.hop = @ + 1]}
    ELSE DrawFrom(g, cfg, s)

-----------------------------------------------------------------------------
(* random_walk: what one job can return.  A walk ends early where nothing   *)
(* leads on, and is empty when its start has no edges.                      *)

Further(g, walk, dir, types) ==
    LET found == {p.to : p \in ToSet(Drawable(g, Last(walk), dir, types))}
    IN IF found = {} THEN {walk} ELSE {Append(walk, i) : i \in found}
WalksFrom(g, start, length, dir, types) ==
    LET walks[k \in 0..length] ==
          IF k = 0 THEN {<<start>>} ELSE UNION {Further(g, walk, dir, types) : walk \in walks[k - 1]}
    IN walks[length]

Walks(g, start, length, dir, types) ==
    IF InEdges(g, start) THEN WalksFrom(g, LocalOf(g.edges.ids, start), length, dir, types)
    ELSE {<<>>}

\* The walks of one start, jobs of which there are walksPerNode.
RandomWalk(g, start, length, walksPerNode, dir, types) ==
    IF ~HasNode(g.nodes, start) THEN {Err("NodeNotFound")}
    ELSE {Ok(w) : w \in [1..walksPerNode -> Walks(g, start, length, dir, types)]}
=============================================================================
