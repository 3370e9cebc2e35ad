------------------------------ MODULE MCLibrary ------------------------------
(***************************************************************************)
(* Small graphs, files, databases and clients for Library.  An id is a     *)
(* number; as text 2 begins with 1.                                        *)
(***************************************************************************)
EXTENDS Library

MCWorks == {"frames", "paths", "search", "rankings", "communities", "sampling", "shards", "patterns",
            "schemas", "sources", "storage", "paging", "flight"}

-----------------------------------------------------------------------------
(* Graphs: nodes are <<id, labels, n>>, edges <<src, dst, type, direction, w>>. *)

MCField(name, type, nullable) == [name |-> name, type |-> type, nullable |-> nullable]
MCNodes(rows) ==
    NodesOf([fields |-> NodeFields \o <<MCField("n", "Int64", TRUE)>>,
             rows |-> [i \in DOMAIN rows |->
                          "_id" :> rows[i][1] @@ "_label" :> rows[i][2] @@ "n" :> rows[i][3]]])
MCEdges(rows) ==
    EdgesOf([fields |-> EdgeFields \o <<MCField("w", "Int64", TRUE)>>,
             rows |-> [i \in DOMAIN rows |->
                          "_src" :> rows[i][1] @@ "_dst" :> rows[i][2] @@ "_type" :> rows[i][3]
                          @@ "_direction" :> rows[i][4] @@ "w" :> rows[i][5]]])
MCGraph(nodes, edges) == NewGraph(MCNodes(nodes), MCEdges(edges)).value

MCFour == <<<<1, <<"A">>, 3>>, <<2, <<"A", "B">>, 1>>, <<3, <<"B">>, 2>>, <<4, <<>>, 0>>>>
\* A cycle with a chord and a node apart, rows of two types and all directions.
MCMixed  == MCGraph(MCFour, <<<<2, 1, "t", 0, 1>>, <<1, 3, "u", 1, 2>>, <<3, 2, "t", 2, 1>>, <<2, 3, "u", 3, 2>>>>)
\* Rows side by side, a loop, and ids out of order.
MCDouble == MCGraph(<<<<3, <<"B">>, 1>>, <<1, <<"A">>, 1>>, <<2, <<"A">>, 2>>>>,
                    <<<<1, 2, "t", 0, 1>>, <<1, 2, "t", 0, 2>>, <<2, 2, "t", 0, 1>>, <<3, 1, "u", 0, 3>>>>)
\* Two ways around from 1 to 4.
MCDiamond == MCGraph(MCFour, <<<<1, 2, "t", 0, 1>>, <<1, 3, "t", 0, 2>>, <<2, 4, "t", 0, 1>>, <<3, 4, "u", 0, 1>>>>)
MCNull    == MCGraph(<<<<1, <<"A">>, Null>>, <<2, <<"B">>, 2>>, <<3, <<"B">>, Null>>>>,
                     <<<<1, 2, "t", 0, Null>>, <<2, 3, "u", 0, 1>>, <<3, 1, "t", 0, 2>>>>)
MCLonely  == MCGraph(<<<<1, <<"A">>, 1>>, <<2, <<"A", "B">>, 2>>>>, <<>>)
\* All directions, missing values and a node without edges.
MCArrows  == MCGraph(<<<<1, <<"A">>, Null>>, <<2, <<>>, 2>>, <<3, <<"B">>, 3>>>>,
                     <<<<1, 2, "t", 0, Null>>, <<1, 2, "u", 1, 1>>, <<2, 1, "t", 2, 2>>, <<2, 2, "t", 3, 1>>>>)
\* What the text format keeps: one label at most, no edge that leads in or both ways.
MCPlain   == MCGraph(<<<<2, <<"B">>, 1>>, <<1, <<>>, Null>>>>, <<<<1, 2, "t", 0, 1>>, <<2, 1, "u", 3, Null>>>>)
MCNone    == MCGraph(<<>>, <<>>)
\* A triangle with a tail.
MCTail == MCGraph([i \in 1..5 |-> <<i, <<"A">>, 1>>],
                  <<<<1, 2, "t", 0, 1>>, <<2, 3, "t", 0, 1>>, <<3, 1, "t", 0, 1>>, <<3, 4, "t", 0, 1>>, <<4, 5, "t", 0, 1>>>>)

\* Between the pairs of slots no edge, free ones and ones that cost.
MCSlots   == <<<<1, 2>>, <<1, 3>>, <<2, 3>>, <<3, 2>>, <<2, 4>>, <<3, 4>>>>
MCWeights == <<{1}, {2}, {9, 0, 1}, {9, 0}, {9, 3}, {1}>>
MCWeighted ==
    {LET at == Ascending({i \in DOMAIN MCSlots : weight[i] # 9})
     IN MCGraph(MCFour, [k \in DOMAIN at |-> <<MCSlots[at[k]][1], MCSlots[at[k]][2], "t", 0, weight[at[k]]>>]) :
        weight \in {w \in [DOMAIN MCSlots -> {9, 0, 1, 2, 3}] : \A i \in DOMAIN w : w[i] \in MCWeights[i]}}

\* All graphs over some pairs, one of them twice and one a loop.
MCPairs == <<<<1, 2>>, <<2, 3>>, <<3, 1>>, <<3, 4>>, <<4, 4>>, <<1, 2>>>>
MCSmall ==
    {LET at == Ascending(used)
     IN MCGraph(MCFour, [k \in DOMAIN at |-> <<MCPairs[at[k]][1], MCPairs[at[k]][2], "t", 0, 1>>]) :
        used \in SUBSET DOMAIN MCPairs}

MCGraphsOf ==
    [frames      |-> {MCMixed, MCDouble, MCNull, MCLonely},
     paths       |-> MCWeighted \cup {MCDouble, MCMixed},
     search      |-> {MCMixed, MCDouble, MCDiamond, MCNull, MCLonely},
     rankings    |-> {MCMixed, MCDouble, MCDiamond, MCNull, MCLonely, MCNone, MCTail},
     communities |-> {MCLonely, MCDiamond, MCTail} \cup MCSmall,
     sampling    |-> {MCMixed, MCDouble},
     shards      |-> {MCMixed, MCDouble, MCDiamond, MCLonely},
     patterns    |-> {MCMixed, MCDouble, MCDiamond, MCNull},
     schemas     |-> {MCNone},
     sources     |-> {MCMixed, MCDouble, MCDiamond}]

-----------------------------------------------------------------------------
(* Arguments. *)

MCPaths(weight, dir) == [weight |-> weight, types |-> {"t", "u"}, dir |-> dir]
MCHops(hops, dir, types, filter) == [hops |-> hops, dir |-> dir, types |-> types, filter |-> filter]
MCFilters == {Null, Cmp(Col("n"), "GtEq", Lit("Int", 2)), Not(Has(Col("_label"), Lit("String", "B"))),
              Either(Cmp(Col("_id"), "Eq", Lit("String", 4)), Cmp(Lit("Int", 1), "Lt", Col("n"))),
              Matching(Col("_id"), "StartsWith", Lit("String", 1))}
MCStep(from, edge, to, dir, min, max) ==
    [from |-> from, edge |-> edge, types |-> {"t", "u"}, dir |-> dir, to |-> to,
     optional |-> FALSE, min |-> min, max |-> max]
MCMaybe(step) == [step EXCEPT !.optional = TRUE]
MCPattern(steps, labels, where) == [pattern |-> [steps |-> steps, labels |-> labels], where |-> where]
MCPatterns ==
    {MCPattern(<<MCStep("a", "e", "b", "out", 1, 1), MCMaybe(MCStep("b", "f", "c", "out", 1, 1))>>, "c" :> "B", Null),
     MCPattern(<<MCStep("a", Null, "b", "both", 1, 1), MCMaybe(MCStep("b", Null, "c", "in", 1, 2))>>, <<>>,
               Either(Cmp(PatternCol("c", "n"), "Eq", Lit("Null", 0)), Cmp(PatternCol("c", "n"), "Gt", Lit("Int", 1)))),
     MCPattern(<<MCStep("a", "e", "b", "out", 1, 1)>>, "b" :> "B", Null),
     MCPattern(<<MCStep("a", "e", "b", "out", 1, 1), MCStep("b", "f", "a", "both", 1, 1)>>, <<>>, Null),
     MCPattern(<<MCStep("a", Null, "b", "out", 1, 2), MCStep("b", "e", "c", "in", 1, 1)>>, <<>>,
               Cmp(PatternCol("a", "n"), "LtEq", PatternCol("c", "n"))),
     MCPattern(<<MCStep("a", Null, "b", "both", 2, 2)>>, "a" :> "A", Null),
     MCPattern(<<MCStep("a", "e", "b", "out", 1, 1), MCStep("a", "f", "c", "out", 1, 1)>>, <<>>,
               Both(Cmp(PatternCol("e", "w"), "Lt", PatternCol("f", "w")), Lit("Bool", TRUE)))}
MCAggregates ==
    {[agg |-> agg, expr |-> e, name |-> "got"] :
        agg \in {"count", "sum", "mean", "list", "first"}, e \in {Col("w"), Cmp(Col("n"), "Add", Col("w")), Neg(Cast(Col("w"), "Float64"))}}
MCRequest(among, columns, predicate, n) ==
    [among |-> among, columns |-> columns, predicate |-> predicate, batchSize |-> n]

MCDatabase(dialect, linked, template, expandTemplate) ==
    [dialect |-> dialect, linked |-> linked, template |-> template, expandTemplate |-> expandTemplate]
MCTemplate == {"projection", "filters"}

\* Texts: two labels, one that extends the other, a type, and what says so of some.
MCDirective(kind, value) == [kind |-> kind, value |-> value]
MCDeclared(name, type, directives) == [name |-> name, type |-> type, directives |-> directives]
MCLabel(label, extends, fields) ==
    [item |-> "node_schema", label |-> label, extends |-> extends, fields |-> fields]
MCType(type, fields) == [item |-> "edge_schema", type |-> type, fields |-> fields]
MCNodeItem(id, labels, pairs) ==
    [item |-> "node", id |-> id, labels |-> labels, between |-> "|", pairs |-> pairs]
MCEdgeItem(left, arrow, right, pairs) ==
    [item |-> "edge", left |-> left, right |-> right, type |-> "t", arrow |-> arrow, pairs |-> pairs]
MCInt(v) == Val("Int", v)
MCUnique == MCDirective("unique", Null)
MCFieldSets ==
    {<<>>, <<MCDeclared("n", <<"Int">>, <<>>)>>, <<MCDeclared("n", <<"Optional", "Int">>, <<MCUnique>>)>>,
     <<MCDeclared("n", <<"Int">>, <<MCUnique, MCDirective("default", MCInt(0))>>)>>,
     <<MCDeclared("n", <<"List">>, <<>>)>>}
MCProps == {<<>>, <<<<"n", MCInt(1)>>>>, <<<<"n", MCInt(1)>>, <<"n", NullVal>>>>}
MCTexts ==
    {<<MCLabel("A", Null, fs), MCLabel("B", "A", gs), MCNodeItem(1, l1, ps), MCNodeItem(2, <<"B">>, qs)>> :
        fs \in MCFieldSets, gs \in MCFieldSets, l1 \in {<<"A">>, <<"B">>, <<"A", "B">>},
        ps \in MCProps, qs \in MCProps}
    \cup
    {<<MCNodeItem(1, <<>>, <<>>), MCNodeItem(2, <<>>, <<>>), MCType("t", fs),
       MCEdgeItem(1, arrow, 2, ps), MCEdgeItem(2, "out", 1, qs)>> :
        fs \in MCFieldSets, arrow \in {"out", "in", "both", "none"}, ps \in MCProps, qs \in MCProps}
    \cup
    {<<MCLabel("A", "B", <<>>), MCLabel("B", "A", <<>>), MCNodeItem(1, <<"A">>, <<>>)>>,
     <<MCLabel("A", "C", <<>>), MCNodeItem(1, <<"A">>, <<>>)>>,
     <<MCLabel("A", Null, <<>>), MCNodeItem(1, <<"C">>, <<>>)>>,
     <<MCNodeItem(1, <<>>, <<<<"n", Val("List", <<MCInt(1), Val("Float", 2)>>)>>>>)>>,
     <<MCNodeItem(1, <<>>, <<<<"n", Val("Date", <<2024, 2, 29>>)>>>>),
       MCNodeItem(2, <<>>, <<<<"n", Val("Date", <<1969, 12, 31>>)>>>>)>>,
     <<MCNodeItem(1, <<>>, <<<<"n", Val("DateTime", <<2023, 2, 29, 0, 0, 0>>)>>>>)>>,
     <<MCNodeItem(1, <<>>, <<<<"n", Val("DateTime", <<2000, 12, 31, 23, 59, 59>>)>>>>)>>,
     <<[item |-> "meta", pairs |-> <<<<"n", MCInt(1)>>>>], [item |-> "import", path |-> "other"],
       [item |-> "namespace", pairs |-> <<<<"n", Val("String", 1)>>>>], MCNodeItem(1, <<>>, <<>>)>>}

\* Tables as a csv reader infers them.
MCTable(columns, rows) ==
    [fields |-> [i \in DOMAIN columns |-> MCField(columns[i], "Int64", TRUE)],
     rows |-> [r \in DOMAIN rows |-> [c \in ToSet(columns) |-> rows[r][LocalOf(columns, c)]]]]
MCTables ==
    {MCTable(<<"_id", "_label", "n">>, <<<<1, 7, 3>>, <<2, 7, Null>>>>),
     MCTable(<<"s", "n">>, <<<<1, 3>>, <<1, 4>>>>),
     MCTable(<<"n", "s", "_label">>, <<<<1, 3, 7>>, <<2, Null, 8>>>>),
     MCTable(<<"n", "_src">>, <<<<1, 3>>>>)}
MCTableOptions ==
    {[label |-> label, idCol |-> idCol, prefix |-> 1, columns |-> columns, overrides |-> overrides] :
        label \in {Null, "A"}, idCol \in {Null, "n", "q"}, columns \in {Null, <<"n">>, <<"s", "n", "s">>, <<"q">>},
        overrides \in {<<>>, [n |-> "Utf8"]}}

MCInputs ==
    [ids |-> {1, 2, 3, 4}, subsets |-> {{}, {1, 2}, {2, 3, 4}, {1, 3}}, labels |-> {"A", "B"},
     types |-> {"t", "u"}, rows |-> {{}, {1, 3}, {2, 3, 4}}, orders |-> {<<2, 1>>, <<1, 2, 3>>, <<9>>, <<1, 1>>},
     columns |-> {<<>>, <<"n">>, <<"w">>},
     ends |-> {<<1, 4>>, <<3, 2>>, <<1, 9>>},
     pathConfigs |-> {MCPaths("w", "out"), MCPaths(Null, "both"), MCPaths("w", "in")},
     estimates |-> {<<2, 2, 1, 0>>, <<1, 0, 1, 0>>}, counts |-> {0, 3}, limits |-> {Null, 2},
     roots |-> {<<1>>, <<2, 3>>, <<1, 4>>, <<1, 9>>},
     searches |-> {MCHops(hops, dir, types, filter) : hops \in {0, 1, 2}, dir \in {"out", "both"},
                      types \in {{"t"}, {"t", "u"}}, filter \in MCFilters},
     weights |-> {Null, "w", "missing"}, iterations |-> {0, 1, 2, 3},
     seeds |-> {<<1>>, <<4, 1>>, <<2, 2>>, <<1, 9>>},
     samples |-> {[hops |-> 2, fanOut |-> <<2, 1>>, dir |-> dir, types |-> {"t", "u"}, replace |-> dir = "in"] :
                     dir \in {"in", "both"}}
                 \cup {[hops |-> 1, fanOut |-> <<0>>, dir |-> "out", types |-> {"t"}, replace |-> FALSE]},
     shardCounts |-> {0, 1, 2, 3}, patterns |-> MCPatterns, aggregates |-> MCAggregates,
     routes |-> {<<MCStep("", Null, "", "out", 1, 1), MCStep("", Null, "", "in", 1, 1)>>,
                 <<MCStep("", Null, "", "none", 1, 1)>>},
     texts |-> MCTexts,
     nodeRequests |-> {MCRequest(among, columns, predicate, n) :
                         among \in {Null, <<"A">>, <<>>}, columns \in {Null, <<"n">>},
                         predicate \in MCFilters \cup {Cmp(Col("_src"), "Eq", Lit("String", 1))}, n \in {0, 1, 3}},
     edgeRequests |-> {MCRequest(among, columns, predicate, n) :
                         among \in {Null, <<"t", "u">>}, columns \in {Null, <<"w", "q">>, <<"w">>},
                         predicate \in {Null, Not(Cmp(Col("w"), "Lt", Lit("Int", 2))),
                                        Cmp(Col("_direction"), "Eq", Lit("Int", 0))}, n \in {2, 3}},
     tables |-> MCTables, tableOptions |-> MCTableOptions,
     databases |-> {MCDatabase(dialect, TRUE, MCTemplate, MCTemplate) : dialect \in {"neo4j", "arangodb", "sparql"}}
                   \cup {MCDatabase("neo4j", FALSE, {}, {}), MCDatabase("sparql", TRUE, {"filters"}, Null)},
     expansions |-> {[ids |-> ids, types |-> types, hops |-> hops, dir |-> dir, predicate |-> predicate] :
                        ids \in {<<>>, <<1>>, <<3, 2, 9>>}, types \in {Null, {"t"}, {"t", "u"}}, hops \in 0..2,
                        dir \in {"out", "both"}, predicate \in {Null, Cmp(Col("n"), "GtEq", Lit("Int", 2))}}]

MCHash == [x \in {1, 2, 3, 4} |-> (5 * x) % 7]
MCBegins == [x \in {1, 2, 3, 4} |-> IF x = 2 THEN {1} ELSE {}]
MCNameOrder == <<"n", "s", "w">>
MCToken == [c \in {"c1", "c2"} |-> "key"] @@ ("c3" :> "other")
MCWritten == {[nodes |-> <<1>>, edges |-> <<<<1, 1>>>>], [nodes |-> <<1, 2, 3>>, edges |-> <<<<1, 3>>>>],
              [nodes |-> <<2>>, edges |-> <<>>]}
MCEverything == [nodes |-> Null, edges |-> Null]
MCProjections == {MCEverything, [nodes |-> <<"n">>, edges |-> <<>>]}
MCSaved == {MCArrows, MCPlain, MCLonely}
MCDirected == {MCArrows}
=============================================================================
