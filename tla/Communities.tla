----------------------------- MODULE Communities -----------------------------
(***************************************************************************)
(* Louvain communities: nodes move to the neighboring community of the     *)
(* largest gain until no move is left, each community becomes a node, and  *)
(* so on.  A seed shuffles the nodes of every pass: every order is taken,  *)
(* and an operator below returns the set of what can come out.  Gains are  *)
(* multiplied by twice the number of edges, the resolution is one.         *)
(*                                                                         *)
(* A weighted graph is [n, adj, loops, degree, edges]: adj gives pairs of  *)
(* different nodes their weight, zero for those not joined.                *)
(***************************************************************************)
EXTENDS Traversal

Sum(f, S) == FoldFunctionOnSet(+, 0, f, S)
Pairs(n)  == {e \in (1..n) \X (1..n) : e[1] # e[2]}

FromGraphFrame(g) ==
    LET n == Len(IdsOf(g))
        ends(r) == <<g.nodes.index[EdgeRows(g)[r]["_src"]], g.nodes.index[EdgeRows(g)[r]["_dst"]]>>
        rows(P(_)) == Cardinality({r \in DOMAIN EdgeRows(g) : P(ends(r))})
    IN [n      |-> n,
        adj    |-> [e \in Pairs(n) |-> rows(LAMBDA d : d = e \/ d = <<e[2], e[1]>>)],
        loops  |-> [i \in 1..n |-> rows(LAMBDA d : d = <<i, i>>)],
        degree |-> [i \in 1..n |-> rows(LAMBDA d : d[1] = i) + rows(LAMBDA d : d[2] = i)],
        edges  |-> Len(EdgeRows(g))]

\* The weight between two nodes of one community counts for its degree as an edge
\* and, once more, as a loop.
Compress(w, assignment, count) ==
    LET members(c)  == {i \in 1..w.n : assignment[i] = c}
        within(c)   == Sum(w.adj, {e \in Pairs(w.n) : e[1] < e[2] /\ ToSet(e) \subseteq members(c)})
        across(c, d) == Sum(w.adj, members(c) \X members(d))
        loops       == [c \in 1..count |-> Sum(w.loops, members(c)) + within(c)]
    IN [n      |-> count,
        adj    |-> [e \in Pairs(count) |-> across(e[1], e[2])],
        loops  |-> loops,
        degree |-> [c \in 1..count |->
                      2 * within(c) + Sum([d \in 1..count |-> IF d = c THEN 0 ELSE across(c, d)], 1..count)
                      + 2 * loops[c]],
        edges  |-> w.edges]

\* One node looks at the communities of its neighbors and at its own, whose weight
\* is that of its loops when no neighbor is in it.
MoveNode(w, community, i) ==
    LET near    == {j \in 1..w.n : j # i /\ w.adj[<<i, j>>] > 0}
        current == community[i]
        options == {community[j] : j \in near} \cup {current}
        weight(c) ==
            IF c = current /\ \A j \in near : community[j] # c THEN w.loops[i]
            ELSE Sum([j \in near |-> w.adj[<<i, j>>]], {j \in near : community[j] = c})
        total(c) == Sum(w.degree, {j \in 1..w.n : community[j] = c /\ j # i})
        gain(c)  == 2 * w.edges * weight(c) - total(c) * w.degree[i]
        better   == {c \in options : gain(c) > 0 \/ (gain(c) = 0 /\ c < current)}
        best     == CHOOSE c \in better : \A d \in better :
                        gain(d) < gain(c) \/ (gain(d) = gain(c) /\ c <= d)
    IN IF w.degree[i] = 0 \/ better = {} THEN community ELSE [community EXCEPT ![i] = best]

Orders(n, seeded) ==
    IF seeded THEN {s \in [1..n -> 1..n] : IsInjective(s)} ELSE {[i \in 1..n |-> i]}
Pass(w, community, order) == FoldLeft(LAMBDA c, i : MoveNode(w, c, i), community, order)

\* A pass that moves nobody ends the phase.
Phase1(w, community, seeded) ==
    LET ends[from \in [1..w.n -> 1..w.n]] ==
          LET after == {Pass(w, from, o) : o \in Orders(w.n, seeded)}
          IN (after \cap {from}) \cup UNION {ends[c] : c \in after \ {from}}
    IN ends[community]

\* Mutant of Normalized: the communities are numbered as their old numbers sort.
NormalizedByNumber(raw) == [i \in DOMAIN raw |-> Cardinality({c \in ToSet(raw) : c <= raw[i]})]
\* normalize_communities and canonicalize_assignments: numbers from 1 as they appear.
Normalized(raw) == LET seen == WithNew(<<>>, raw) IN [i \in DOMAIN raw |-> LocalOf(seen, raw[i])]

\* What there may be after so many levels, each with the graph that the next one is
\* about; a level that is not the last leaves fewer nodes.
Refine(w, current, seeded) ==
    LET next(s, community) ==
            LET assignment == Normalized(community)
                count      == Cardinality(ToSet(assignment))
                last       == community = [i \in 1..s.w.n |-> i] \/ count = s.w.n
            IN [w       |-> IF last THEN s.w ELSE Compress(s.w, assignment, count),
                current |-> [i \in DOMAIN s.current |-> assignment[s.current[i]]],
                done    |-> last]
        after(s) == {next(s, c) : c \in Phase1(s.w, [i \in 1..s.w.n |-> i], seeded)}
        level[k \in 0..w.n] ==
            IF k = 0 THEN {[w |-> w, current |-> current, done |-> FALSE]}
            ELSE UNION {IF s.done THEN {s} ELSE after(s) : s \in level[k - 1]}
    IN {s.current : s \in level[w.n]}

\* The assignments of the node rows that a call can return.
CommunityDetection(g, seeded) ==
    LET rows == [r \in DOMAIN IdsOf(g) |-> r]
    IN IF rows = <<>> \/ EdgeRows(g) = <<>> THEN {rows}
       ELSE {Normalized(a) : a \in Refine(FromGraphFrame(g), rows, seeded)}

-----------------------------------------------------------------------------
(* Modularity, multiplied by the square of twice the number of edges.       *)

Modularity(w, community) ==
    LET together == {e \in (1..w.n) \X (1..w.n) : community[e[1]] = community[e[2]]}
        weight(e) == IF e[1] = e[2] THEN 2 * w.loops[e[1]] ELSE w.adj[e]
    IN Sum([e \in together |-> 2 * w.edges * weight(e) - w.degree[e[1]] * w.degree[e[2]]], together)
=============================================================================
