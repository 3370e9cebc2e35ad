------------------------------ MODULE MCExpand ------------------------------
(* Small instances of Expand for TLC. *)
EXTENDS Expand

MCTypes == {"t", "u"}
MCRow(s, d, way, kind) == [src |-> s, dst |-> d, dir |-> way, type |-> kind]

\* Six nodes.  A chain 1 -> 5 -> 6, a row between frontier and chain, and a way
\* on, back or in a circle, with the directions of two of the rows left open.
MCEdges == {<<MCRow(5, 2, a, "t"), MCRow(1, 5, "out", "u"), MCRow(5, 6, b, "t"),
              MCRow(3, c, "both", "t")>> :
               a \in {"out", "in"}, b \in {"both", "none"}, c \in {3, 6}}

MCPlans == {[plan |-> "parallel", frontier |-> <<1, 2, 3, 4, 5>>, stop |-> 0],
            [plan |-> "parallel", frontier |-> <<1, 3>>, stop |-> 0],
            [plan |-> "plain", frontier |-> <<>>, stop |-> 0],
            [plan |-> "plain", frontier |-> <<6>>, stop |-> 0],
            [plan |-> "limit", frontier |-> <<1, 3>>, stop |-> 3],
            [plan |-> "limit", frontier |-> <<1, 2>>, stop |-> 4],
            [plan |-> "limit", frontier |-> <<3, 1>>, stop |-> 1]}

\* A filter that all pass, with and without the chain's first row, one that cuts
\* the chain, and one that is an error at its end.
MCFilters == {[passes |-> 1..6, fails |-> {}, types |-> {"t", "u"}],
              [passes |-> 1..6, fails |-> {}, types |-> {"t"}],
              [passes |-> {1, 2, 4, 5}, fails |-> {}, types |-> {"t", "u"}],
              [passes |-> {2, 3, 4, 5}, fails |-> {6}, types |-> {"t", "u"}]}

MCQueries ==
    {[edges |-> e, frontier |-> p.frontier, types |-> f.types, hops |-> h, dir |-> d,
      passes |-> f.passes, fails |-> f.fails, plan |-> p.plan, stop |-> p.stop] :
        e \in MCEdges, p \in MCPlans, f \in MCFilters, h \in 0..3, d \in {"out", "in", "both"}}
=============================================================================
