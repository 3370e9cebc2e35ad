-------------------------------- MODULE Library --------------------------------
(***************************************************************************)
(* The library as its callers see it: the operations on a graph, a sample  *)
(* that is drawn, and the graphs of disks, databases and services.  A      *)
(* behavior is about one of these, work, so that what does not interact is *)
(* not multiplied.  An operation on a graph is one step, which leaves its  *)
(* answer beside its arguments; one that makes a graph goes on from there. *)
(***************************************************************************)
EXTENDS Connectors, ShortestPaths, Patterns, Rankings, Communities, Sampling, Partitioning

CONSTANTS
    Works,       \* what behaviors are about: a subset of the topics below
    GraphsOf,    \* the graphs of each topic that has graphs
    Inputs,      \* the arguments of the calls, sets named for them
    MaxSteps,    \* bound: graphs made one from the other
    Formats, SaveGraphs, Projections, MaxSaves,                       \* of Storage
    PageRows, BatchSizes, MaxChanges,                                 \* of Paging
    GraphNames, Clients, Token, Secret, NoToken, Graphs, MessageRows, MaxWrites   \* of Flight

VARIABLES
    work, graph, answer, made,
    sample,                                          \* a sample: its configuration, seeds and state
    disk, saving, saves, saved, read,                \* of Storage
    remote, load, changed,                           \* of Paging
    graphs, staged, clients, writes, disturbed       \* of Flight

S == INSTANCE Storage
P == INSTANCE Paging WITH Rows <- PageRows
F == INSTANCE Flight

NoAnswer == [call |-> "none", args |-> Null, result |-> Null]
calls   == <<work, graph, answer, made>>
storage == <<disk, saving, saves, saved, read>>
paging  == <<remote, load, changed>>
flight  == <<graphs, staged, clients, writes, disturbed>>
vars    == <<calls, sample, storage, paging, flight>>

-----------------------------------------------------------------------------
(* Graphs made from a graph. *)

Make(call, args, result) ==
    /\ made < MaxSteps
    /\ made' = made + 1
    /\ graph' = IF result.status = "ok" THEN result.value ELSE graph
    /\ answer' = [call |-> call, args |-> args, from |-> graph, result |-> result.status]
    /\ UNCHANGED <<work, sample, storage, paging, flight>>

\* Frames are put into a graph again with what they came from.
WithNodes(nodes) == Then(nodes, LAMBDA n : NewGraph(n, graph.edges))
WithEdges(edges) == Then(edges, LAMBDA e : NewGraph(graph.nodes, e))
MaskOf(rows, b)  == [r \in DOMAIN b.rows |-> r \in rows]
Gathered(rows)   == Then(GatherRows(graph.nodes, rows), NodesFrom)

MakeSubgraph == \E ids \in Inputs.subsets : Make("subgraph", ids, Subgraph(graph, ids))
MakeByLabel  == \E l \in Inputs.labels : Make("subgraph_by_label", l, SubgraphByLabel(graph, l))
MakeByType   == \E t \in Inputs.types : Make("subgraph_by_edge_type", t, SubgraphByEdgeType(graph, t))
MakeKHop     == \E x \in Inputs.ids, k \in 0..2 :
                    Make("k_hop_subgraph", [root |-> x, hops |-> k], KHopSubgraph(graph, x, k))
MakeLargest  == Make("largest_connected_component", Null, LargestConnectedComponent(graph))
MakeFiltered == \E rows \in Inputs.rows :
    \/ Make("filter", rows, WithNodes(FilterNodes(graph.nodes, MaskOf(rows, graph.nodes.data))))
    \/ Make("filter", rows, WithEdges(FilterEdges(graph.edges, MaskOf(rows, graph.edges.data))))
MakeSelected == \E columns \in Inputs.columns :
    \/ Make("select", columns, WithNodes(SelectNodes(graph.nodes, columns)))
    \/ Make("select", columns, WithEdges(SelectEdges(graph.edges, columns)))
MakeTyped    == Make("filter_by_types", Inputs.types, WithEdges(Ok(FilterByTypes(graph.edges, Inputs.types))))
MakeSliced   == \E offset \in 0..1 : Make("slice", offset, WithNodes(SliceNodes(graph.nodes, offset, 2)))
MakeGathered == \E rows \in Inputs.orders : Make("gather_rows", rows, WithNodes(Gathered(rows)))
\* A frame with all or part of itself.
MakeConcat   == \E rows \in Inputs.rows :
    \/ Make("concat", rows,
             WithNodes(ConcatNodes(<<graph.nodes, FilterNodes(graph.nodes, MaskOf(rows, graph.nodes.data)).value>>)))
    \/ Make("concat", rows,
             WithEdges(ConcatEdges(<<graph.edges, FilterEdges(graph.edges, MaskOf(rows, graph.edges.data)).value>>)))
MakeCombined == \E ids \in Inputs.subsets, common \in BOOLEAN :
    Make("intersect", ids, WithNodes(CombineNodes(graph.nodes, NodesIn(graph.nodes, ids), common)))
MakeFeatures == \E t \in Inputs.types \cup {Null} :
    Make("structural_features", t, WithNodes(StructuralFeatures(graph, t)))

MakeGraph ==
    /\ work = "frames"
    /\ \/ MakeSubgraph \/ MakeByLabel \/ MakeByType \/ MakeKHop \/ MakeLargest
       \/ MakeFiltered \/ MakeSelected \/ MakeTyped \/ MakeSliced \/ MakeGathered
       \/ MakeConcat \/ MakeCombined \/ MakeFeatures

-----------------------------------------------------------------------------
(* Questions to a graph. *)

Ask(call, args, result) ==
    /\ answer = NoAnswer
    /\ answer' = [call |-> call, args |-> args, result |-> result]
    /\ UNCHANGED <<work, graph, made, sample, storage, paging, flight>>

AskShortest == \E e \in Inputs.ends, cfg \in Inputs.pathConfigs :
    Ask("shortest_path", [ends |-> e, cfg |-> cfg], ShortestPath(graph, e[1], e[2], cfg))
AskAStar == \E e \in Inputs.ends, cfg \in Inputs.pathConfigs, estimate \in Inputs.estimates :
    Ask("astar_shortest_path", [ends |-> e, cfg |-> cfg, estimate |-> estimate],
        AStar(graph, e[1], e[2], cfg, estimate))
AskAllShortest == \E e \in Inputs.ends, cfg \in Inputs.pathConfigs :
    Ask("all_shortest_paths", [ends |-> e, cfg |-> cfg], AllShortestPaths(graph, e[1], e[2], cfg))
AskKShortest == \E e \in Inputs.ends, cfg \in Inputs.pathConfigs, k \in Inputs.counts, most \in Inputs.limits :
    Ask("k_shortest_paths", [ends |-> e, cfg |-> cfg, k |-> k, most |-> most],
        KShortestPaths(graph, e[1], e[2], k, most, cfg))

AskBfs == \E roots \in Inputs.roots, cfg \in Inputs.searches :
    Ask("bfs", [roots |-> roots, cfg |-> cfg], Bfs(graph, roots, cfg))
AskHasPath == \E x, y \in Inputs.ids, most \in Inputs.limits :
    Ask("has_path", [ends |-> <<x, y>>, most |-> most], HasPath(graph, x, y, most))
AskNeighbors == \E x \in Inputs.ids, dir \in {"out", "in", "both"} :
    Ask("neighbors", [of |-> x, dir |-> dir],
        [met |-> Neighbors(graph, x, dir), degree |-> Degree(graph, x, dir)])
AskComponents == Ask("connected_components", Null, ConnectedComponents(graph))

AskDegrees == \E dir \in {"out", "in", "both"} :
    Ask("degree_centrality", dir, DegreeCentrality(graph, dir))
AskBetweenness == \E w \in Inputs.weights : Ask("betweenness", w, Betweenness(graph, w))
AskPageRank == \E w \in Inputs.weights, most \in Inputs.iterations :
    Ask("pagerank", [weight |-> w, most |-> most], PageRank(graph, w, most, 4))
AskCommunities == \E seeded \in BOOLEAN : \E found \in CommunityDetection(graph, seeded) :
    Ask("community_detection", seeded, found)

AskPartition == \E n \in Inputs.shardCounts, method \in {"hash", "range", "label"} :
    Ask("partition", [n |-> n, method |-> method], Partition(graph, n, method))
AskDistributed == \E n \in Inputs.shardCounts \ {0}, method \in {"hash", "range", "label"},
                     roots \in Inputs.roots, hops \in 0..2, dir \in {"out", "in", "both"} :
    Ask("distributed_expand", [roots |-> roots, types |-> Inputs.types, hops |-> hops, dir |-> dir],
        DistributedExpand(Partition(graph, n, method).value, ToSet(roots), Inputs.types, hops, dir))

AskMatch == \E q \in Inputs.patterns :
    Ask("pattern_match", q, PatternMatch(graph, IdsOf(graph), q.pattern, q.where))
AskAggregate == \E t \in Inputs.types, agg \in Inputs.aggregates :
    Ask("aggregate_neighbors", [type |-> t, agg |-> agg],
        AggregateNeighbors(graph, graph.nodes, t, agg))
AskTraverse == \E roots \in Inputs.roots, route \in Inputs.routes, most \in Inputs.limits :
    Ask("traverse", [roots |-> roots, route |-> route, most |-> most], Traverse(graph, ToSet(roots), route, most))

AskParse == \E text \in Inputs.texts : Ask("parse_gf", text, ReadGf(text))

\* One request to a file of the graph and to databases that hold it.
NoFiles == [gf |-> Null, gfb |-> Null, nodes |-> Null, edges |-> Null]
Written(compression) ==
    [NoFiles EXCEPT !.gfb = WriteGfb(graph, [compression |-> compression, schema |-> Null])]
AskNodes == \E request \in Inputs.nodeRequests, config \in Inputs.databases :
    Ask("load_nodes", [request |-> request, config |-> config],
        [file |-> GfLoadNodes("gfb", Written("zstd"), request),
         database |-> LoadFromDatabase(config, graph.nodes.data, LabelsToPredicate(request.among),
                                       request, NodeReserved, EdgeReserved, NodesFrom, ConcatNodes)])
AskEdges == \E request \in Inputs.edgeRequests, config \in Inputs.databases :
    Ask("load_edges", [request |-> request, config |-> config],
        [file |-> GfLoadEdges("gfb", Written("lz4"), request),
         database |-> LoadFromDatabase(config, graph.edges.data, TypesToPredicate(request.among),
                                       request, EdgeReserved, NodeReserved, EdgesFrom, ConcatEdges)])
AskExpand == \E x \in Inputs.expansions, config \in Inputs.databases :
    Ask("expand", [x |-> x, config |-> config],
        [file |-> GfExpand("gfb", Written("zstd"), x), database |-> ExpandAnswer(config, graph, x)])
AskWrite == \E extension \in {"gf", "gfb", "txt"} :
    Ask("write", extension, [file |-> GfWrite(extension, graph), database |-> DatabaseWrite(graph)])
\* Nodes from a table, with columns asked for and without.
AskCsv == \E table \in Inputs.tables, options \in Inputs.tableOptions :
    Ask("from_csv", [table |-> table, options |-> options],
        [all  |-> ReadCsvNodes(table, [options EXCEPT !.columns = Null]),
         some |-> ReadCsvNodes(table, options)])

AskGraph ==
    \/ work = "paths" /\ (AskShortest \/ AskAStar \/ AskAllShortest \/ AskKShortest)
    \/ work = "search" /\ (AskBfs \/ AskHasPath \/ AskNeighbors \/ AskComponents)
    \/ work = "rankings" /\ (AskDegrees \/ AskBetweenness \/ AskPageRank)
    \/ work = "communities" /\ AskCommunities
    \/ work = "shards" /\ (AskPartition \/ AskDistributed)
    \/ work = "patterns" /\ (AskMatch \/ AskAggregate \/ AskTraverse)
    \/ work = "schemas" /\ AskParse
    \/ work = "sources" /\ (AskNodes \/ AskEdges \/ AskExpand \/ AskWrite \/ AskCsv)

-----------------------------------------------------------------------------
(* Samples. *)

Begin == \E seeds \in Inputs.seeds, cfg \in Inputs.samples :
    LET s == SampleStart(graph, seeds, cfg)
    IN /\ sample = Null
       /\ sample' = [cfg |-> cfg, seeds |-> seeds, state |-> s.value, status |-> s.status]
       /\ UNCHANGED <<calls, storage, paging, flight>>
Draw ==
    /\ sample # Null /\ sample.status = "ok"
    /\ ~SampleDone(sample.state, sample.cfg)
    /\ \E s \in SampleSteps(graph, sample.cfg, sample.state) : sample' = [sample EXCEPT !.state = s]
    /\ UNCHANGED <<calls, storage, paging, flight>>
Walk == \E x \in Inputs.ids, dir \in {"out", "in", "both", "none"} :
    /\ sample = Null
    /\ \E walks \in RandomWalk(graph, x, 3, 1, dir, Inputs.types) :
          Ask("random_walk", [start |-> x, dir |-> dir], walks)

-----------------------------------------------------------------------------
(* The specification. *)

Init ==
    /\ work \in Works
    /\ graph \in (IF work \in DOMAIN GraphsOf THEN GraphsOf[work] ELSE {Null})
    /\ answer = NoAnswer /\ made = 0 /\ sample = Null
    /\ S!Init /\ F!Init
    /\ IF work = "paging" THEN P!Init
       ELSE remote = <<>> /\ changed = <<>> /\ load = [P!Begun("nodes", 0) EXCEPT !.status = "ok"]

Sampled == work = "sampling" /\ (Begin \/ Draw \/ Walk)
Store   == work = "storage" /\ S!Next /\ UNCHANGED <<calls, sample, paging, flight>>
LoadPages == work = "paging" /\ P!Next /\ UNCHANGED <<calls, sample, storage, flight>>
Serve   == work = "flight" /\ F!Next /\ UNCHANGED <<calls, sample, storage, paging>>

Next == MakeGraph \/ AskGraph \/ Sampled \/ Store \/ LoadPages \/ Serve
Fetching == work = "paging" /\ (P!Refuse \/ P!FetchPage) /\ UNCHANGED <<calls, sample, storage, flight>>
Spec == Init /\ [][Next]_vars /\ WF_vars(Fetching)

-----------------------------------------------------------------------------
(* Properties. *)

\* What save and load of the formats do to a graph, with crashes between the writes
\* of a save: of a save that went through the rows come back as they were, the
\* text of a graph that text does not keep excepted, half of a gfb file is never a graph, each
\* parquet file is of one save, and no graph has dangling edges (Storage).
LoadsReturnWhatWasSaved == S!LoadsReturnWhatWasSaved
\* What gf_writer.rs:3 says of write_gf and read_gf: a graph that was saved as text
\* comes back with each row's ends, type and direction (Storage).
GfRoundTrips == S!GfRoundTrips
\* What load_nodes and load_edges of a database connector put together from pages
\* without an order, while the database changes: exactly its rows if it does not, at
\* most one row too few or too many for each change, and never a node twice (Paging).
EachChangeCostsAtMostARow == P!EachChangeCostsAtMostARow
\* What do_put of the Flight service makes of the two halves of uploads: a stored
\* graph is of one upload unless uploads of its name have met, and its halves always
\* fit together (Flight).
UploadsArriveWhole == F!UploadsArriveWhole

Made(names)   == work = "frames" /\ answer.call \in names /\ answer.result = "ok"
Asked(name)   == answer.call = name
Succeeded     == answer.result.status = "ok"

\* The indexes of frames, which the operations of NodeFrame, EdgeFrame and GraphFrame
\* build again or take over, say what the rows say: who a row is, which rows have a
\* type, which rows lead from a node and to it, and what to_coo puts out of them.
IndexesAgree(g) ==
    /\ \A x \in DOMAIN g.nodes.index : IdsOf(g)[g.nodes.index[x]] = x
    /\ Len(ToCoo(g)) = Len(EdgeRows(g))
    /\ {<<g.edges.ids[e[1]], g.edges.ids[e[2]]>> : e \in ToSet(ToCoo(g))} =
          {<<r["_src"], r["_dst"]>> : r \in ToSet(EdgeRows(g))}
    /\ DOMAIN g.nodes.index = AllIds(g) /\ Cardinality(AllIds(g)) = Len(IdsOf(g))
    /\ \A r \in DOMAIN EdgeRows(g) : r \in ToSet(g.edges.types[EdgeRows(g)[r]["_type"]])
    /\ \A x \in AllIds(g) :
          /\ {<<p.to, p.row>> : p \in ToSet(OutOf(g, x))} =
                {<<EdgeRows(g)[r]["_dst"], r>> : r \in {r \in DOMAIN EdgeRows(g) : EdgeRows(g)[r]["_src"] = x}}
          /\ {<<p.to, p.row>> : p \in ToSet(InTo(g, x))} =
                {<<EdgeRows(g)[r]["_src"], r>> : r \in {r \in DOMAIN EdgeRows(g) : EdgeRows(g)[r]["_dst"] = x}}
\* The nodes that a subgraph of an operation is for.
Kept(g) ==
    CASE answer.call = "subgraph"          -> answer.args \cap AllIds(g)
      [] answer.call = "subgraph_by_label" -> {x \in AllIds(g) : answer.args \in ToSet(Label(g, x))}
      [] answer.call = "k_hop_subgraph"    ->
            WithinHops(g, {answer.args.root}, AnyEdge(answer.args.hops, "both", g), AllIds(g))
      [] answer.call = "largest_connected_component" -> AllIds(graph)
\* GraphFrame::subgraph and the operations that end in it keep the rows of the nodes
\* asked for and all edges between them, in their order; the largest component has
\* all that its nodes are connected with, and no other is larger.  After any chain of
\* operations the indexes of the frames agree with their rows and no edge dangles.
SubgraphsAreInduced ==
    work = "frames" =>
        /\ IndexesAgree(graph) /\ ~Dangles(graph.nodes, graph.edges)
        /\ Made({"subgraph", "subgraph_by_label", "k_hop_subgraph", "largest_connected_component"}) =>
              LET kept == Kept(answer.from)
              IN /\ IdsOf(graph) = Those(IdsOf(answer.from), LAMBDA x : x \in kept)
                 /\ EdgeRows(graph) = Those(EdgeRows(answer.from), LAMBDA r : {r["_src"], r["_dst"]} \subseteq kept)
        /\ Made({"largest_connected_component"}) =>
              /\ \A x \in AllIds(graph) : Connected(answer.from, x) = AllIds(graph)
              /\ \A x \in AllIds(answer.from) :
                    Cardinality(Connected(answer.from, x)) <= Cardinality(AllIds(graph))

\* What is asked of one of the searches for paths, and the paths it is about.
Src == answer.args.ends[1]
Dst == answer.args.ends[2]
Cfg == answer.args.cfg
PathsAsked ==
    IF Src = Dst THEN {<<Src>>}
    ELSE IF InEdges(graph, Src) /\ InEdges(graph, Dst) THEN SimplePaths(graph, Cfg, Src, Dst) ELSE {}
CheapestAsked == {p \in PathsAsked : \A q \in PathsAsked : Cost(graph, Cfg, p) <= Cost(graph, Cfg, q)}
OneOf(path, paths) == IF paths = {} THEN path = <<>> ELSE path \in paths
Admissible(estimate) ==
    \A x \in ToSet(graph.edges.ids) : \A p \in SimplePaths(graph, Cfg, x, Dst) :
        estimate[x] <= Cost(graph, Cfg, p)
\* The searches of shortest_path.rs.  Dijkstra's and that of A* with an estimate that is
\* never too large return a cheapest path, all_shortest_paths every one of them, once,
\* and k_shortest_paths so many simple paths as there are, cheapest first, none of
\* which costs more than one that is left out.  A cycle of edges that cost nothing
\* is left aside, and for the last so are edges side by side.
PathsAreCheapest ==
    LET found == answer.result.value
        fits  == {p \in PathsAsked : answer.args.most = Null \/ Len(p) - 1 <= answer.args.most}
    IN work = "paths" /\ answer.call # "none" /\ Succeeded /\ ~HasFreeCycle(graph, Cfg) =>
        /\ Asked("shortest_path") => OneOf(found, CheapestAsked)
        /\ Asked("astar_shortest_path") /\ Admissible(answer.args.estimate) => OneOf(found, CheapestAsked)
        /\ Asked("all_shortest_paths") => ToSet(found) = CheapestAsked /\ IsInjective(found)
        /\ Asked("k_shortest_paths") =>
              /\ ToSet(found) \subseteq fits /\ IsInjective(found)
              /\ \A i \in 1..(Len(found) - 1) : Cost(graph, Cfg, found[i]) <= Cost(graph, Cfg, found[i + 1])
              /\ ~Parallel(graph, Cfg) =>
                    /\ Len(found) = Min({answer.args.k, Cardinality(fits)})
                    /\ \A i \in DOMAIN found : \A p \in fits \ ToSet(found) :
                          Cost(graph, Cfg, found[i]) <= Cost(graph, Cfg, p)

\* bfs, has_path, neighbors and connected_components against the rows themselves.  bfs reaches
\* what so many rows lead to over nodes for which the executor's evaluation of the
\* filter is true, where the filter compares values of one kind without nulls, and
\* keeps the rows it went over; has_path says whether so many rows lead out to a
\* node; neighbors and degrees are those of the rows; two nodes have one number when rows of any direction connect them.
Enterable(e) ==
    {x \in AllIds(graph) : e = Null \/ EvaluateExpr(e, graph.nodes.data, graph.nodes.index[x]).value = Bool(TRUE)}
PlainFilter(e, b) == e = Null \/ \A r \in DOMAIN b.rows : Plain(e, b, r)
BfsAgrees ==
    LET cfg    == answer.args.cfg
        roots  == ToSet(answer.args.roots)
        enter  == Enterable(cfg.filter)
        inner  == IF cfg.hops = 0 THEN {}
                  ELSE WithinHops(graph, roots, [cfg EXCEPT !.hops = @ - 1], enter)
        kept(r) == /\ r["_type"] \in cfg.types
                   /\ \/ cfg.dir # "in" /\ r["_src"] \in inner /\ r["_dst"] \in enter \cup roots
                      \/ cfg.dir # "out" /\ r["_dst"] \in inner /\ r["_src"] \in enter \cup roots
    IN IF ~(roots \subseteq AllIds(graph)) THEN answer.result.status = "NodeNotFound"
       ELSE PlainFilter(cfg.filter, graph.nodes.data) =>
              /\ DOMAIN answer.result.value.nodes.index = WithinHops(graph, roots, cfg, enter)
              /\ answer.result.value.edges.data.rows = SelectSeq(EdgeRows(graph), kept)
SearchesReachTheSame ==
    work = "search" =>
        /\ Asked("bfs") => BfsAgrees
        /\ Asked("has_path") /\ Succeeded =>
              LET n   == Cardinality(AllIds(graph))
                  cfg == AnyEdge(Limited(n, answer.args.most), "out", graph)
              IN answer.result.value =
                    (answer.args.ends[2] \in WithinHops(graph, {answer.args.ends[1]}, cfg, AllIds(graph)))
        /\ Asked("neighbors") =>
              LET x   == answer.args.of
                  dir == answer.args.dir
                  one == [types |-> DOMAIN graph.edges.types, dir |-> dir]
                  end == IF dir = "out" THEN "_src" ELSE "_dst"
              IN IF x \notin AllIds(graph) THEN {r.status : r \in Range(answer.result)} = {"NodeNotFound"}
                 ELSE /\ ToSet(answer.result.met.value) = AdjacentIds(graph, x, one)
                      /\ dir = "both" => IsInjective(answer.result.met.value)
                      /\ answer.result.degree.value =
                            Cardinality({r \in DOMAIN EdgeRows(graph) : EdgeRows(graph)[r][end] = x})
        /\ Asked("connected_components") =>
              LET number(x) == answer.result.value.data.rows[graph.nodes.index[x]]["component_id"]
              IN /\ \A x, y \in AllIds(graph) : (number(x) = number(y)) = (y \in Connected(graph, x))
                 /\ \E k \in 0..Cardinality(AllIds(graph)) : {number(x) : x \in AllIds(graph)} = 0..(k - 1)

\* The scores of centrality.rs and pagerank.rs.  A degree counts the rows of its
\* side; a betweenness is the share of the cheapest ways between others, counted row
\* by row, that pass a node, where every row costs something; the ranks are a
\* distribution after every iteration, dangling nodes and rows side by side included.
Score(column, x) == answer.result.value.data.rows[graph.nodes.index[x]][column]
Positive(w) == \A r \in DOMAIN EdgeRows(graph) : EdgeWeight(graph, w, r) > 0
Divides(w)  == \A x \in AllIds(graph) : OutWeight(graph, w, x) \in {0, 1, 2, 3, 4, 6, 12}
RankingsAreExact ==
    work = "rankings" /\ answer.call # "none" /\ Succeeded =>
        /\ Asked("degree_centrality") =>
              \A x \in AllIds(graph) :
                 LET ends == CASE answer.args = "out" -> {"_src"} [] answer.args = "in" -> {"_dst"}
                               [] OTHER -> {"_src", "_dst"}
                     rows == {e \in (DOMAIN EdgeRows(graph)) \X ends : EdgeRows(graph)[e[1]][e[2]] = x}
                 IN Len(IdsOf(graph)) > 1 => Score("degree_centrality", x)[1] = Cardinality(rows)
        /\ Asked("betweenness") /\ EdgeRows(graph) # <<>> /\ Len(IdsOf(graph)) > 1 /\ Positive(answer.args) =>
              \A x \in AllIds(graph) : Score("betweenness", x) = Passing(graph, answer.args, x)
        /\ Asked("pagerank") /\ IdsOf(graph) # <<>> /\ Divides(answer.args.weight) =>
              LET ranks == Column(answer.result.value.nodes.data, "pagerank")
              IN FoldLeft(+, 0, ranks) = answer.result.value.scale /\ \A i \in DOMAIN ranks : ranks[i] > 0

\* community_detection, for every order a seed may shuffle nodes in: a community is
\* within a component, the numbers begin with the first row's and leave none out, and
\* the communities have at least the modularity of nodes that are all alone.
CommunitiesStayConnected ==
    work = "communities" /\ answer.call # "none" =>
        LET of    == answer.result
            alone == [r \in DOMAIN of |-> r]
        IN /\ \A i, j \in DOMAIN of :
                 of[i] = of[j] => IdsOf(graph)[j] \in Connected(graph, IdsOf(graph)[i])
           /\ \A i \in DOMAIN of : of[i] \in 1..(Max({0} \cup {of[j] : j \in 1..(i - 1)}) + 1)
           /\ Modularity(FromGraphFrame(graph), of) >= Modularity(FromGraphFrame(graph), alone)

\* sample_neighbors and random_walk, for every draw.  Each drawn row leads, in the
\* direction and with a type that were asked for, from a node that is a seed or was
\* drawn before to the node that is recorded; the nodes are those, each once, with
\* their rows in the node frame, and so many hops away at most; from a node no more
\* rows are drawn than the fan-out of a hop allows each time it is met.  A walk
\* follows such rows, and is shorter than asked for only where none leads on.
SampleFollows ==
    LET s      == sample.state
        cfg    == sample.cfg
        id(i)  == graph.edges.ids[i]
        seeds  == {x \in ToSet(sample.seeds) : InEdges(graph, x)}
        drawn(k) == {s.dst[j] : j \in 1..k}
        met(i) == Cardinality({k \in DOMAIN s.dst : s.dst[k] = i}) + (IF id(i) \in seeds THEN 1 ELSE 0)
    IN /\ \A k \in DOMAIN s.rows :
             /\ Leading(cfg, EdgeRows(graph)[s.rows[k]], id(s.src[k]), id(s.dst[k]))
             /\ id(s.src[k]) \in seeds \/ s.src[k] \in drawn(k - 1)
       /\ ToSet(s.nodes) = {i \in DOMAIN graph.edges.ids : id(i) \in seeds} \cup ToSet(s.dst)
       /\ IsInjective(s.nodes)
       /\ \A k \in DOMAIN s.nodes : IdsOf(graph)[s.nodeRows[k]] = id(s.nodes[k])
       /\ {id(i) : i \in ToSet(s.nodes)} \subseteq
             WithinHops(graph, seeds, [cfg EXCEPT !.hops = Min({s.hop, cfg.hops})], AllIds(graph))
       /\ \A i \in ToSet(s.nodes) :
             Cardinality({k \in DOMAIN s.src : s.src[k] = i}) <= met(i) * Max({0} \cup ToSet(cfg.fanOut))
WalkFollows(walk) ==
    LET cfg   == [types |-> Inputs.types, dir |-> answer.args.dir]
        id(i) == graph.edges.ids[i]
        on(x) == \E y \in AllIds(graph) : \E r \in ToSet(EdgeRows(graph)) : Leading(cfg, r, x, y)
    IN IF walk = <<>> THEN ~InEdges(graph, answer.args.start)
       ELSE /\ id(walk[1]) = answer.args.start
            /\ \A k \in 1..(Len(walk) - 1) :
                  \E r \in ToSet(EdgeRows(graph)) : Leading(cfg, r, id(walk[k]), id(walk[k + 1]))
            /\ Len(walk) = 4 \/ ~on(id(Last(walk)))
SamplesFollowEdges ==
    work = "sampling" =>
        /\ sample # Null /\ sample.status = "ok" => SampleFollows
        /\ Asked("random_walk") /\ Succeeded => \A j \in DOMAIN answer.result.value : WalkFollows(answer.result.value[j])


\* Partitioned graphs.  Every node is in one shard and every edge in one shard or on
\* the border, where its ends are in different ones; merging the shards gives the
\* rows of the graph again, and the numbers of stats add up to its size; a shard by
\* range has no id between those of another.  An expansion over the shards finds the
\* nodes that one over the whole graph does, whatever the cut.
Times(row, tables) == Cardinality({p \in UNION {{k} \X DOMAIN tables[k] : k \in DOMAIN tables} :
                                      tables[p[1]][p[2]] = row})
PartitionCovers(p) ==
    LET n      == Len(p.shards)
        nodes  == [k \in 1..n |-> p.shards[k].nodes.data.rows]
        edges  == [k \in 1..n |-> EdgeRows(p.shards[k])]
        border == p.boundary.data.rows
        merged == Merge(p)
        stats  == Stats(p)
        within(k, x) == \E y, z \in ToSet(IdsOf(p.shards[k])) : y <= x /\ x <= z
    IN /\ \A row \in ToSet(graph.nodes.data.rows) : Times(row, nodes) = 1
       /\ \A row \in ToSet(EdgeRows(graph)) :
             Times(row, Append(edges, border)) = Times(row, <<EdgeRows(graph)>>)
       /\ \A row \in ToSet(border) : p.shardOf[row["_src"]] # p.shardOf[row["_dst"]]
       /\ \A k \in 1..n : IndexesAgree(p.shards[k]) /\ \A x \in ToSet(IdsOf(p.shards[k])) : p.shardOf[x] = k
       /\ merged.status = "ok" /\ IndexesAgree(merged.value)
       /\ ToSet(IdsOf(merged.value)) = AllIds(graph)
       /\ Len(EdgeRows(merged.value)) = Len(EdgeRows(graph))
       /\ FoldLeft(+, 0, stats.nodes) = Len(IdsOf(graph))
       /\ FoldLeft(+, stats.boundary, stats.edges) = Len(EdgeRows(graph))
       /\ answer.args.method = "range" => \A x \in AllIds(graph), k \in 1..n : within(k, x) => p.shardOf[x] = k
ShardsCoverOnce ==
    work = "shards" =>
        /\ Asked("partition") /\ answer.args.n > 0 => Succeeded /\ PartitionCovers(answer.result.value)
        /\ Asked("distributed_expand") =>
              LET roots == ToSet(answer.args.roots)
                  found == WithinHops(graph, roots, answer.args, AllIds(graph)) \cap AllIds(graph)
              IN /\ Succeeded
                 /\ ToSet(Column(answer.result.value.nodes.data, "_id")) = found
                 /\ \A r \in ToSet(answer.result.value.edges.data.rows) : {r["_src"], r["_dst"]} \subseteq found

\* What the executor finds row by row.  A match binds exactly the ways to stand an
\* element for every alias so that each step is an edge, or a path without a node
\* twice, and labels and condition hold, with nulls where an optional step leads nowhere; a count and a sum of neighbors are those
\* over the rows of the type that leave a node; a traversal ends where the steps
\* lead and never leaves an edge without its ends.
NeighborRows(x, t) == {r \in DOMAIN EdgeRows(graph) : EdgeRows(graph)[r]["_src"] = x /\ EdgeRows(graph)[r]["_type"] = t}
AggregateOf(agg, x) == answer.result.value.data.rows[graph.nodes.index[x]]["got"]
RouteNodes(roots, route) ==
    LET step(k) == [hops |-> 1, types |-> route[k].types,
                    dir |-> IF route[k].dir = "none" THEN "both" ELSE route[k].dir]
        after[k \in 0..Len(route)] ==
          IF k = 0 THEN roots ELSE UNION {AdjacentIds(graph, x, step(k)) : x \in after[k - 1]}
    IN UNION {after[k] : k \in 0..Len(route)}
PatternsAreHomomorphisms ==
    work = "patterns" /\ answer.call # "none" =>
        /\ Asked("pattern_match") /\ Succeeded =>
              LET pattern == answer.args.pattern
              IN ToSet(answer.result.value) =
                    IF Last(pattern.steps).optional
                    THEN MatchesOrNulls(graph, pattern, IdsOf(graph), answer.args.where)
                    ELSE Matches(graph, pattern, IdsOf(graph), answer.args.where)
        /\ Asked("aggregate_neighbors") /\ Succeeded =>
              LET rows(x)  == NeighborRows(x, answer.args.type)
                  known(x) == {r \in rows(x) : EdgeRows(graph)[r]["w"] # Null}
                  agg      == answer.args.agg
              IN \A x \in AllIds(graph) :
                    /\ agg.agg = "count" => AggregateOf(agg, x) = Cardinality(rows(x))
                    /\ agg.agg = "sum" /\ agg.expr \in {Col("w"), Neg(Cast(Col("w"), "Float64"))} =>
                          LET total == FoldLeft(LAMBDA sum, r : sum + EdgeRows(graph)[r]["w"], 0,
                                                Ascending(known(x)))
                          IN AggregateOf(agg, x) = IF agg.expr = Col("w") THEN total ELSE -total
                    /\ agg.agg = "list" => Len(AggregateOf(agg, x)) <= Cardinality(rows(x))
        /\ Asked("traverse") =>
              /\ Succeeded
              /\ answer.args.most = Null =>
                    AllIds(answer.result.value) =
                       RouteNodes(ToSet(answer.args.roots), answer.args.route) \cap AllIds(graph)

\* What a .gf text declares of its labels and types holds of the graph it is read as:
\* the chain of labels that a node's label extends ends, every field that one of them
\* declares has its type, none is missing that must be there, and none that must be
\* unique is twice among the nodes of the label.
ChainOf(schema, label) ==
    LET more(labels) == labels \cup ({schema.nodes[l].extends : l \in labels \cap DOMAIN schema.nodes} \ {Null})
        chain[k \in 0..Cardinality(DOMAIN schema.nodes)] == IF k = 0 THEN {label} ELSE more(chain[k - 1])
    IN chain[Cardinality(DOMAIN schema.nodes)]
\* of are the rows with a label or type, fields all that is declared of it.
FieldsHold(b, of, fields) ==
    \A f \in fields :
        LET same     == {h \in fields : h.name = f.name}
            required == ~Nullable(f.type) /\ \A h \in same : h.default = Null
            value(r) == b.rows[r][f.name]
        IN IF f.name \notin Names(b) THEN required => of = {}
           ELSE of # {} =>
                /\ TypeOf(b, f.name) = ToArrow(f.type)
                /\ required => \A r \in of : value(r) # Null
                /\ (\E h \in same : h.unique) =>
                      \A r, q \in of : r # q /\ value(r) # Null => value(r) # value(q)
SchemaHolds(g) ==
    LET nb == g.nodes.data  eb == g.edges.data  schema == g.schema
        labelled(l) == {r \in DOMAIN nb.rows : l \in ToSet(nb.rows[r]["_label"])}
        typed(t)    == {r \in DOMAIN eb.rows : eb.rows[r]["_type"] = t}
        declared(l) == UNION {ToSet(schema.nodes[k].fields) : k \in ChainOf(schema, l)}
    IN /\ schema.nodes # <<>> => UNION {ToSet(row["_label"]) : row \in ToSet(nb.rows)} \subseteq DOMAIN schema.nodes
       /\ schema.edges # <<>> => ToSet(Column(eb, "_type")) \subseteq DOMAIN schema.edges
       /\ \A l \in DOMAIN schema.nodes :
             /\ ChainOf(schema, l) \subseteq DOMAIN schema.nodes
             /\ \A k \in ChainOf(schema, l) :
                   schema.nodes[k].extends # Null => k \notin ChainOf(schema, schema.nodes[k].extends)
             /\ FieldsHold(nb, labelled(l), declared(l))
       /\ \A t \in DOMAIN schema.edges : FieldsHold(eb, typed(t), ToSet(schema.edges[t]))
DeclaredSchemasHold ==
    Asked("parse_gf") /\ Succeeded =>
        /\ IndexesAgree(answer.result.value)
        /\ answer.result.value.schema # Null => SchemaHolds(answer.result.value)

\* One question to a file of a graph and to a database with the same graph: rows of
\* the same nodes and edges in one order, with the same columns where SPARQL is told
\* which, if the condition compares values of one kind without nulls and no
\* direction, and an expansion to the same ends, if all edges lead out and AQL is
\* not asked for types over more than one hop.  What a file connector writes it loads
\* again as it was, and a csv table read with columns is that read without them and
\* then selected from.
SameRows(file, database, keys) ==
    [r \in DOMAIN file.data.rows |-> [c \in keys |-> file.data.rows[r][c]]]
        = [r \in DOMAIN database.data.rows |-> [c \in keys |-> database.data.rows[r][c]]]
Mentions(expr, c) ==
    LET mentions[p \in Places] ==
          LET e == At(expr, p)
          IN CASE e.op = "literal" -> FALSE
               [] e.op = "col"     -> e.name = c
               [] e.op \in {"not", "unary_op", "cast"} -> mentions[Append(p, "expr")]
               [] OTHER            -> mentions[Append(p, "left")] \/ mentions[Append(p, "right")]
    IN mentions[<<>>]
LoadsAgree(b, keys) ==
    LET request == answer.args.request
        file == answer.result.file  database == answer.result.database
        fair == /\ PlainFilter(request.predicate, b)
                /\ request.predicate # Null => ~Mentions(request.predicate, "_direction")
    IN /\ request.batchSize = 0 => file.status = "InvalidConfig" /\ database.status = "InvalidConfig"
       /\ file.status = "ok" /\ database.status = "ok" /\ fair =>
             /\ SameRows(file.value, database.value, keys)
             /\ answer.args.config.dialect # "sparql" \/ request.columns # Null =>
                   Names(file.value.data) = Names(database.value.data)
SelectedAgrees(all, some, columns) ==
    all.status = "ok" =>
        LET selected == SelectNodes(all.value, SelectSeq(columns, LAMBDA c : c \notin ToSet(NodeReserved)))
        IN selected.status = "ok" => some = selected
SourcesAgree ==
    /\ Asked("load_nodes") => LoadsAgree(graph.nodes.data, {"_id", "_label"})
    /\ Asked("load_edges") => LoadsAgree(graph.edges.data, {"_src", "_dst", "_type"})
    /\ Asked("write") =>
          LET written    == FoldLeft(Write, NoFiles, answer.result.file.value)
              everything == [nodes |-> Null, edges |-> Null]
          IN IF answer.args # "gfb" THEN answer.result.file.status = "UnsupportedOperation"
             ELSE Load("gfb", written, everything) = Ok([graph EXCEPT !.schema = Null])
    /\ Asked("from_csv") /\ answer.args.options.columns # Null =>
          SelectedAgrees(answer.result.all, answer.result.some, answer.args.options.columns)
    /\ Asked("expand") /\ answer.result.file.status = "ok" /\ answer.result.database.status = "ok" =>
          LET x    == answer.args.x
              fair == /\ PlainFilter(x.predicate, graph.nodes.data)
                      /\ \A r \in ToSet(EdgeRows(graph)) : r["_direction"] = 0
                      /\ answer.args.config.dialect = "arangodb" => x.types = Null \/ x.hops = 1
          IN fair => AllIds(answer.result.file.value) \ ToSet(x.ids) = answer.result.database.value \ ToSet(x.ids)

\* A load from a database comes to an end, when the database answers and does not
\* change for ever.
LoadEnds == P!LoadEnds
=============================================================================
