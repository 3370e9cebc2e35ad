----------------------------- MODULE MCOptimizer -----------------------------
(* A graph of four nodes and five edges, and calls that meet in every way: on *)
(* columns that a projection drops, with predicates that are an error for a   *)
(* node, and with the sorts, limits and expansions that the passes rewrite.   *)
EXTENDS Optimizer

Edge(s, d, t) == [src |-> s, dst |-> d, dir |-> "out", type |-> t]
Atom(holds, fails, cols) == [holds |-> holds, fails |-> fails, cols |-> cols]

MCEdges   == <<Edge(1, 2, "a"), Edge(2, 3, "a"), Edge(3, 4, "b"), Edge(4, 2, "a"), Edge(1, 3, "b")>>
MCColumns == [nodes |-> {"age", "name"}, edges |-> {"weight"}]
MCRank    == [age |-> <<4, 2, 2, 1>>, name |-> <<1, 3, 2, 4>>,
              weight |-> <<2, 1, 2, 3, 1>>, count |-> <<1, 1, 0, 1>>]

Old   == Atom({1, 3, 4}, {}, {"age"})
Known == Atom({2, 3, 4}, {}, {"name"})
Odd   == Atom({1, 3}, {2}, {"age"})
Heavy == Atom({1, 3, 4}, {}, {"weight"})
Many  == Atom({1, 3}, {}, {"count"})

Project(side, cols) == [op |-> "project", of |-> side, cols |-> cols]
ExpandBy(hops)      == [op |-> "expand", types |-> Types, hops |-> hops, dir |-> "out", pre |-> {}]
Match(where)        == [op |-> "match", where |-> where]
SortBy(col)         == [op |-> "sort", by |-> col]
On(alias, atom)     == [alias |-> alias, atom |-> atom]

MCCalls ==
    {Filter("nodes", {Old}), Filter("nodes", {Known}), Filter("nodes", {Odd}),
     Filter("edges", {Heavy}), Project("nodes", {"age"}), Project("nodes", {"name"}),
     Project("edges", {"weight"}), ExpandBy(2),
     Match({On("a", Known), On("b", Old)}), Match({On("a", Old), On("b", Odd)}),
     Match({On("a", Many)}), [op |-> "aggregate"], SortBy("age"), SortBy("weight"), Limit(0), Limit(1), Limit(2)}

\* What is enough to see a filter move into an expansion, under the default passes.
MCPruningCalls == {Filter("nodes", {Old}), ExpandBy(2), SortBy("age")}

MCSwitches == {Default, Passes}
MCDefault  == {Default}
=============================================================================
