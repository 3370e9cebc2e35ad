------------------------------ MODULE Traversal ------------------------------
(***************************************************************************)
(* Searches over the whole graph: bfs with a filter on the nodes it may    *)
(* enter, has_path, and connected components.                              *)
(***************************************************************************)
EXTENDS Expressions

Limited(n, max) == IF max = Null THEN n ELSE Min({n, max})

-----------------------------------------------------------------------------
(* bfs.  cfg is [hops, dir, types, filter]; a filter is an expression or    *)
(* Null.                                                                    *)

CollectPairs(g, i, cfg) ==
    LET fits(s) == SelectSeq(s, LAMBDA p : EdgeRows(g)[p.row]["_type"] \in cfg.types)
        ahead == fits(Slice(g.edges.out, i))
        back  == fits(Slice(g.edges.in, i))
    IN CASE cfg.dir = "out" -> ahead
         [] cfg.dir = "in"  -> back
         [] OTHER           -> ahead \o back

Admits(g, cfg, i) ==
    cfg.filter = Null \/ EvalBool(cfg.filter, g.nodes.data, g.nodes.index[g.edges.ids[i]])

\* Mutant of ExpandNode: a row to a node that is turned away is kept.
ExpandNodeKeepsRows(g, cfg, s, i) ==
    FoldLeft(LAMBDA acc, p :
                IF p.to \in acc.visited \/ ~Admits(g, cfg, p.to) THEN [acc EXCEPT !.rows = @ \cup {p.row}]
                ELSE [visited  |-> acc.visited \cup {p.to}, rows |-> acc.rows \cup {p.row},
                      frontier |-> Append(acc.frontier, p.to)],
             s, CollectPairs(g, i, cfg))
\* A row to a node already admitted is kept; one to a node that the filter
\* turns away is not.
ExpandNode(g, cfg, s, i) ==
    FoldLeft(LAMBDA acc, p :
                IF p.to \in acc.visited THEN [acc EXCEPT !.rows = @ \cup {p.row}]
                ELSE IF ~Admits(g, cfg, p.to) THEN acc
                ELSE [visited  |-> acc.visited \cup {p.to}, rows |-> acc.rows \cup {p.row},
                      frontier |-> Append(acc.frontier, p.to)],
             s, CollectPairs(g, i, cfg))

Levels(g, cfg, s, hops) ==
    LET expanded(t) == FoldLeft(LAMBDA acc, i : ExpandNode(g, cfg, acc, i), [t EXCEPT !.frontier = <<>>], t.frontier)
        level[k \in 0..hops] == IF k = 0 THEN s ELSE expanded(level[k - 1])
    IN level[hops]

Bfs(g, roots, cfg) ==
    LET seeds == WithNew(<<>>, SelectSeq(roots, LAMBDA x : InEdges(g, x)))
        start == [i \in DOMAIN seeds |-> LocalOf(g.edges.ids, seeds[i])]
        s     == Levels(g, cfg, [visited |-> ToSet(start), rows |-> {}, frontier |-> start], cfg.hops)
    IN IF \E x \in ToSet(roots) : ~HasNode(g.nodes, x) THEN Err("NodeNotFound")
       ELSE Ok([nodes |-> NodesIn(g.nodes, ToSet(roots) \cup {g.edges.ids[i] : i \in s.visited}),
                edges |-> EdgesAt(g.edges, s.rows)])

-----------------------------------------------------------------------------
(* has_path, over outgoing rows of any type.                                *)

Meets(g, src, dst, hops) ==
    LET further(s) ==
          LET met == UNION {ToSet(To(Slice(g.edges.out, i))) : i \in s.frontier}
          IN IF s.found THEN s
             ELSE [visited |-> s.visited \cup met, frontier |-> met \ s.visited, found |-> dst \in met]
        level[k \in 0..hops] ==
          IF k = 0 THEN [visited |-> {src}, frontier |-> {src}, found |-> FALSE] ELSE further(level[k - 1])
    IN level[hops].found

HasPath(g, src, dst, maxHops) ==
    LET from == LocalOf(g.edges.ids, src)
    IN IF ~HasNode(g.nodes, src) \/ ~HasNode(g.nodes, dst) THEN Err("NodeNotFound")
       ELSE Ok(\/ src = dst
               \/ /\ InEdges(g, src) /\ InEdges(g, dst)
                  /\ Meets(g, from, LocalOf(g.edges.ids, dst), Limited(Len(g.edges.ids), maxHops)))

-----------------------------------------------------------------------------
(* Connected components, numbered from 0 in the order of the node rows.     *)

\* Nothing is left to look at when as many rounds are over as there are nodes.
Flood(g, start) ==
    LET further(s) ==
          LET near == UNION {ToSet(To(OutOf(g, x)) \o To(InTo(g, x))) : x \in s.frontier}
          IN [found |-> s.found \cup near, frontier |-> near \ s.found]
        round[k \in 0..Len(IdsOf(g))] ==
          IF k = 0 THEN [found |-> {start}, frontier |-> {start}] ELSE further(round[k - 1])
    IN round[Len(IdsOf(g))].found

ComponentIds(g) ==
    LET ids == IdsOf(g)
        number(acc, row) ==
            IF acc.of[ids[row]] # Null THEN acc
            ELSE LET here == Flood(g, ids[row])
                 IN [next |-> acc.next + 1,
                     of   |-> [x \in DOMAIN acc.of |-> IF x \in here THEN acc.next ELSE acc.of[x]]]
    IN FoldLeft(number, [next |-> 0, of |-> [x \in ToSet(ids) |-> Null]], [row \in DOMAIN ids |-> row])

WithColumn(g, name, type, of) ==
    LET d == g.nodes.data
    IN NodesFrom([fields |-> <<FieldOf(d, "_id"), FieldOf(d, "_label"),
                               [name |-> name, type |-> type, nullable |-> FALSE]>>,
                  rows |-> [r \in DOMAIN d.rows |->
                      [c \in {"_id", "_label", name} |->
                          IF c = name THEN of[d.rows[r]["_id"]] ELSE d.rows[r][c]]]])
ConnectedComponents(g) == WithColumn(g, "component_id", "UInt32", ComponentIds(g).of)

LargestConnectedComponent(g) ==
    LET c == ComponentIds(g)
        members(k) == {x \in DOMAIN c.of : c.of[x] = k}
        size(k)    == Cardinality(members(k))
        largest    == CHOOSE k \in 0..(c.next - 1) : \A j \in 0..(c.next - 1) :
                          size(j) < size(k) \/ (size(j) = size(k) /\ k <= j)
    IN IF c.next = 0 THEN Subgraph(g, {}) ELSE Subgraph(g, members(largest))

-----------------------------------------------------------------------------
(* What the searches are compared with: the nodes so many rows away, of     *)
(* those that may be entered.                                               *)

AllIds(g) == ToSet(IdsOf(g))
AdjacentIds(g, x, cfg) ==
    {r["_dst"] : r \in {r \in ToSet(EdgeRows(g)) :
                          r["_type"] \in cfg.types /\ cfg.dir # "in" /\ r["_src"] = x}}
    \cup {r["_src"] : r \in {r \in ToSet(EdgeRows(g)) :
                          r["_type"] \in cfg.types /\ cfg.dir # "out" /\ r["_dst"] = x}}
WithinHops(g, roots, cfg, enter) ==
    LET within[k \in 0..cfg.hops] ==
          IF k = 0 THEN roots
          ELSE within[k - 1] \cup ((UNION {AdjacentIds(g, x, cfg) : x \in within[k - 1]}) \cap enter)
    IN within[cfg.hops]
AnyEdge(hops, dir, g) == [hops |-> hops, dir |-> dir, types |-> DOMAIN g.edges.types, filter |-> Null]
Connected(g, x) == WithinHops(g, {x}, AnyEdge(Cardinality(AllIds(g)), "both", g), AllIds(g))
=============================================================================
