----------------------------- MODULE LibraryProofs -----------------------------
(***************************************************************************)
(* Proofs about Library, for any graphs, arguments, pages and clients.     *)
(***************************************************************************)
EXTENDS Library, FramesProofs, TLAPS

PP == INSTANCE PagingProofs WITH Rows <- PageRows
FP == INSTANCE FlightProofs

-----------------------------------------------------------------------------
(* Loads.  What Library and PagingProofs take from Paging is one and the    *)
(* same.                                                                   *)

\* The loads of Library, P, are those PagingProofs is about, PP.
LEMMA SamePages ==
    /\ P!Init => PP!Init
    /\ P!Next => PP!Next
    /\ P!EachChangeCostsAtMostARow <=> PP!EachChangeCostsAtMostARow
<1>1. \A what, n : P!Begun(what, n) = PP!Begun(what, n)
      BY DEF P!Begun, PP!Begun
<1>2. P!Init => PP!Init
  <2>1. \A T : P!Cardinality(T) = PP!Cardinality(T)
        BY DEF P!Cardinality, PP!Cardinality
  <2>2. \A s : P!IsInjective(s) <=> PP!IsInjective(s)
        BY DEF P!IsInjective, PP!IsInjective
  <2>3. QED BY <1>1, <2>1, <2>2 DEF P!Init, PP!Init
<1>3. P!Refuse => PP!Refuse
      BY DEF P!Refuse, PP!Refuse
<1>4. P!FetchFails => PP!FetchFails
      BY DEF P!FetchFails, PP!FetchFails
<1>5. P!FetchPage => PP!FetchPage
      BY DEF P!FetchPage, PP!FetchPage, P!NextPage, PP!NextPage, P!Finished, PP!Finished, P!Answer, PP!Answer,
             P!IsInjective, PP!IsInjective, P!FlattenSeq, PP!FlattenSeq, P!Min, PP!Min
<1>6. P!InsertRow => PP!InsertRow
      BY DEF P!InsertRow, PP!InsertRow, P!Change, PP!Change, P!ToSet, PP!ToSet, P!InsertAt, PP!InsertAt
<1>7. P!RemoveRow => PP!RemoveRow
      BY DEF P!RemoveRow, PP!RemoveRow, P!Change, PP!Change, P!RemoveAt, PP!RemoveAt
<1>8. P!MoveRow => PP!MoveRow
      BY DEF P!MoveRow, PP!MoveRow, P!Change, PP!Change, P!RemoveAt, PP!RemoveAt, P!InsertAt, PP!InsertAt
<1>9. P!Next => PP!Next
      BY <1>3, <1>4, <1>5, <1>6, <1>7, <1>8 DEF P!Next, PP!Next
<1>10. P!EachChangeCostsAtMostARow <=> PP!EachChangeCostsAtMostARow
  <2>1. \A T : P!Cardinality(T) = PP!Cardinality(T)
        BY DEF P!Cardinality, PP!Cardinality
  <2>2. \A kinds : P!Times(kinds) = PP!Times(kinds)
        BY <2>1 DEF P!Times, PP!Times
  <2>3. \A s : P!ToSet(s) = PP!ToSet(s) /\ P!Repeats(s) = PP!Repeats(s) /\ (P!IsInjective(s) <=> PP!IsInjective(s))
        BY DEF P!ToSet, PP!ToSet, P!Repeats, PP!Repeats, P!IsInjective, PP!IsInjective
  <2>4. P!Touched = PP!Touched /\ (P!Loaded <=> PP!Loaded)
        BY DEF P!Touched, PP!Touched, P!Loaded, PP!Loaded
  <2>5. QED BY <2>1, <2>2, <2>3, <2>4 DEF P!EachChangeCostsAtMostARow, PP!EachChangeCostsAtMostARow
<1>11. QED BY <1>2, <1>9, <1>10

\* A behavior that is about a load keeps the invariant of Paging, and another one has no
\* load under way.
IndLoads ==
    \/ work = "paging" /\ PP!IndPaging
    \/ /\ work # "paging"
       /\ remote = <<>> /\ changed = <<>> /\ load = [PP!Begun("nodes", 0) EXCEPT !.status = "ok"]

\* Only Paging's own steps change a load.
LEMMA LoadsStay == ASSUME [Next]_vars PROVE work' = work /\ (LoadPages \/ UNCHANGED paging)
BY DEF Next, MakeGraph, MakeSubgraph, MakeByLabel, MakeByType, MakeKHop, MakeLargest, MakeFiltered, MakeSelected,
       MakeTyped, MakeSliced, MakeGathered, MakeConcat, MakeCombined, MakeFeatures, Make,
       AskGraph, AskShortest, AskAStar, AskAllShortest, AskKShortest, AskBfs, AskHasPath, AskNeighbors,
       AskComponents, AskDegrees, AskBetweenness, AskPageRank, AskCommunities, AskPartition, AskDistributed,
       AskMatch, AskAggregate, AskTraverse, AskParse, AskNodes, AskEdges, AskExpand, AskWrite, AskCsv, Ask,
       Sampled, Begin, Draw, Walk, Store, LoadPages, Serve, vars, calls

\* A load begins in the invariant of Paging, or is none.
LEMMA InitLoads == BatchSizes \subseteq Nat /\ Init => IndLoads
<1> SUFFICES ASSUME Init, BatchSizes \subseteq Nat PROVE IndLoads
    OBVIOUS
<1>1. CASE work = "paging"
      BY <1>1, SamePages, PP!InitPaging DEF Init, IndLoads
<1>2. CASE work # "paging"
      BY <1>2 DEF Init, IndLoads, P!Begun, PP!Begun
<1>3. QED BY <1>1, <1>2

\* Every step of Library keeps that.
LEMMA LoadsStep == ASSUME BatchSizes \subseteq Nat, IndLoads, [Next]_vars PROVE IndLoads'
<1>1. work' = work /\ (LoadPages \/ UNCHANGED paging)
      BY LoadsStay
<1>2. CASE work = "paging"
  <2>1. PP!IndPaging
        BY <1>2 DEF IndLoads
  <2>2. P!Next \/ UNCHANGED paging
        BY <1>1 DEF LoadPages
  <2>3. [PP!Next]_(PP!vars)
        BY <2>2, SamePages DEF paging, PP!vars
  <2>4. PP!IndPaging'
        BY <2>1, <2>3, PP!PagingStep
  <2>5. QED BY <1>1, <1>2, <2>4 DEF IndLoads
<1>3. CASE work # "paging"
  <2>1. UNCHANGED paging
        BY <1>1, <1>3 DEF LoadPages
  <2>2. QED BY <1>1, <1>3, <2>1 DEF IndLoads, paging, PP!Begun
<1>4. QED BY <1>2, <1>3

\* And it says of a load what Library promises.
LEMMA LoadsCost == IndLoads => EachChangeCostsAtMostARow
<1> SUFFICES ASSUME IndLoads PROVE PP!EachChangeCostsAtMostARow
    BY SamePages DEF EachChangeCostsAtMostARow
<1>1. CASE PP!IndPaging
      BY <1>1 DEF PP!IndPaging
<1>2. CASE remote = <<>> /\ changed = <<>> /\ load = [PP!Begun("nodes", 0) EXCEPT !.status = "ok"]
  <2>1. load.rows = <<>> /\ load.status = "ok"
        BY <1>2 DEF PP!Begun
  <2>2. PP!IsInjective(<<>>) /\ PP!ToSet(<<>>) = {} /\ PP!Repeats(<<>>) = {}
        BY DEF PP!IsInjective, PP!ToSet, PP!Repeats
  <2>3. PP!Times({"insert", "move"}) = PP!Cardinality({}) /\ PP!Times({"remove", "move"}) = PP!Cardinality({})
        BY <1>2 DEF PP!Times
  <2>4. (PP!ToSet(remote) \ PP!Touched) \ PP!ToSet(load.rows) = {} /\ PP!Repeats(load.rows) = {}
        BY <1>2, <2>1, <2>2
  <2>5. PP!ToSet(load.rows) \subseteq PP!ToSet(remote) \cup PP!Touched
        BY <2>1, <2>2
  <2>6. PP!Cardinality({}) <= PP!Cardinality({})
        BY FS_EmptySet DEF PP!Cardinality, Cardinality
  <2>7. QED BY <1>2, <2>1, <2>2, <2>3, <2>4, <2>5, <2>6 DEF PP!EachChangeCostsAtMostARow, PP!Loaded
<1>3. QED BY <1>1, <1>2 DEF IndLoads

\* What load_nodes and load_edges of a database connector put together from pages without
\* an order is exactly its rows if none changes, at most one too few or too many for each
\* change otherwise, and no node comes twice.
THEOREM PagedLoadsCorrect == BatchSizes \subseteq Nat => (Spec => []EachChangeCostsAtMostARow)
<1> SUFFICES ASSUME BatchSizes \subseteq Nat PROVE Spec => []EachChangeCostsAtMostARow
    OBVIOUS
<1>1. Init => IndLoads
      BY InitLoads
<1>2. IndLoads /\ [Next]_vars => IndLoads'
      BY LoadsStep
<1>3. QED BY <1>1, <1>2, LoadsCost, PTL DEF Spec

-----------------------------------------------------------------------------
(* Uploads, which are those of Flight and of FlightProofs alike.            *)

\* The service begins as the one FlightProofs is about.
LEMMA InitIsFlight == Init => FP!Init
BY DEF Init, F!Init, FP!Init, F!NoGraph, FP!NoGraph, F!NoHalf, FP!NoHalf, F!Idle, FP!Idle

\* What the steps of the service are told of, in both alike.
LEMMA SameService ==
    /\ \A entry : F!Complete(entry) <=> FP!Complete(entry)
    /\ \A entry : F!Fits(entry) <=> FP!Fits(entry)
    /\ \A rows : F!FirstMessage(rows) = FP!FirstMessage(rows) /\ F!Messages(rows) = FP!Messages(rows)
    /\ \A token : F!LetIn(token) <=> FP!LetIn(token)
    /\ \A n : (F!Known(n) <=> FP!Known(n)) /\ F!Writing(n) = FP!Writing(n)
    /\ \A string : F!Idle(string) = FP!Idle(string)
    /\ F!NoGraph = FP!NoGraph /\ F!NoHalf = FP!NoHalf
BY DEF F!Complete, FP!Complete, F!Fits, FP!Fits, F!FirstMessage, FP!FirstMessage, F!Messages, FP!Messages, F!LetIn, FP!LetIn, F!Known, FP!Known, F!Writing, FP!Writing, F!Idle, FP!Idle, F!NoGraph, FP!NoGraph, F!NoHalf, FP!NoHalf, F!ToSet, FP!ToSet, F!Min, FP!Min

\* What a put answers and stores, in both alike.
LEMMA SamePut ==
    /\ \A c, rows : F!PutError(c, rows) = FP!PutError(c, rows)
    /\ \A c, entry, rows : F!PutAnswer(c, entry, rows) = FP!PutAnswer(c, entry, rows)
    /\ \A n, side, write, rows : F!Entry(n, side, write, rows) = FP!Entry(n, side, write, rows)
    /\ \A c, n, side, write, rows : F!Put(c, n, side, write, rows) => FP!Put(c, n, side, write, rows)
<1>1. \A c, rows : F!PutError(c, rows) = FP!PutError(c, rows)
      BY SameService DEF F!PutError, FP!PutError
<1>2. \A c, entry, rows : F!PutAnswer(c, entry, rows) = FP!PutAnswer(c, entry, rows)
      BY <1>1, SameService DEF F!PutAnswer, FP!PutAnswer
<1>3. \A n, side, write, rows : F!Entry(n, side, write, rows) = FP!Entry(n, side, write, rows)
      BY SameService DEF F!Entry, FP!Entry
<1>4. \A entry : F!Unstaged(entry) = FP!Unstaged(entry)
      BY SameService DEF F!Unstaged, FP!Unstaged
<1>5. \A c, n, side, write, rows : F!Put(c, n, side, write, rows) => FP!Put(c, n, side, write, rows)
      BY <1>1, <1>3, <1>4, SameService DEF F!Put, FP!Put
<1>6. QED BY <1>1, <1>2, <1>3, <1>5

\* Every step of the service, F, is one of FP.
LEMMA SameSteps == F!Next => FP!Next
<1>1. \A c : F!WriteEdges(c) => FP!WriteEdges(c)
      BY SamePut, SameService DEF F!WriteEdges, FP!WriteEdges, F!Answer, FP!Answer
<1>2. ASSUME NEW c, NEW n, NEW g, F!WriteNodes(c, n, g) PROVE FP!WriteNodes(c, n, g)
  <2> DEFINE sent   == F!PutAnswer(c, F!Entry(n, "nodes", Len(writes) + 1, g.nodes), g.nodes)
             stored == F!Put(c, n, "nodes", Len(writes) + 1, g.nodes)
  <2>1. /\ sent = FP!PutAnswer(c, FP!Entry(n, "nodes", Len(writes) + 1, g.nodes), g.nodes)
        /\ stored => FP!Put(c, n, "nodes", Len(writes) + 1, g.nodes)
        BY SamePut
  <2>2. F!Received(g) = FP!Received(g) /\ F!Writing(n) = FP!Writing(n) /\ F!Idle(sent) = FP!Idle(sent)
        BY SameService DEF F!Received, FP!Received
  <2> HIDE DEF sent, stored
  <2>3. QED BY <1>2, <2>1, <2>2 DEF F!WriteNodes, FP!WriteNodes, sent, stored
<1>3. ASSUME NEW c, F!Stop(c) PROVE FP!Stop(c)
  <2>1. F!Idle("stopped") = FP!Idle("stopped")
        BY SameService
  <2>2. QED BY <1>3, <2>1 DEF F!Stop, FP!Stop, F!Answer, FP!Answer
<1>4. \A c, n, side : F!GetAnswer(c, n, side) = FP!GetAnswer(c, n, side)
      BY SameService DEF F!GetAnswer, FP!GetAnswer
<1>5. \A c, n, side : F!Load(c, n, side) => FP!Load(c, n, side)
      BY <1>4, SameService DEF F!Load, FP!Load, F!Answer, FP!Answer
<1>6. \A c, n : F!ExpandNodes(c, n) => FP!ExpandNodes(c, n)
      BY <1>4, SameService DEF F!ExpandNodes, FP!ExpandNodes
<1>7. \A c : F!ExpandEdges(c) => FP!ExpandEdges(c)
      BY <1>4, SameService DEF F!ExpandEdges, FP!ExpandEdges, F!Answer, FP!Answer
<1>8. \A c, n : F!Delete(c, n) => FP!Delete(c, n)
      BY SameService DEF F!Delete, FP!Delete, F!Answer, FP!Answer
<1>9. \A c, n : F!Describe(c, n) => FP!Describe(c, n)
      BY SameService DEF F!Describe, FP!Describe, F!Answer, FP!Answer, F!InfoAnswer, FP!InfoAnswer
<1>10. \A n, g : F!Insert(n, g) => FP!Insert(n, g)
      BY DEF F!Insert, FP!Insert
<1> HIDE DEF F!Next, FP!Next
<1>11. QED BY <1>1, <1>2, <1>3, <1>5, <1>6, <1>7, <1>8, <1>9, <1>10 DEF F!Next, FP!Next

\* What Library and FlightProofs promise of uploads is the same.
LEMMA SameUploads == F!UploadsArriveWhole <=> FP!UploadsArriveWhole
BY SameService DEF F!UploadsArriveWhole, FP!UploadsArriveWhole

\* Only the service's own steps change what it keeps.
LEMMA UploadsStep == ASSUME [Next]_vars PROVE [FP!Next]_(FP!vars)
<1>1. Serve \/ UNCHANGED flight
BY DEF Next, MakeGraph, MakeSubgraph, MakeByLabel, MakeByType, MakeKHop, MakeLargest, MakeFiltered, MakeSelected,
       MakeTyped, MakeSliced, MakeGathered, MakeConcat, MakeCombined, MakeFeatures, Make,
       AskGraph, AskShortest, AskAStar, AskAllShortest, AskKShortest, AskBfs, AskHasPath, AskNeighbors,
       AskComponents, AskDegrees, AskBetweenness, AskPageRank, AskCommunities, AskPartition, AskDistributed,
       AskMatch, AskAggregate, AskTraverse, AskParse, AskNodes, AskEdges, AskExpand, AskWrite, AskCsv, Ask,
       Sampled, Begin, Draw, Walk, Store, LoadPages, Serve, vars
<1>2. QED BY <1>1, SameSteps DEF Serve, flight, FP!vars

\* A graph that the Flight service stores is of one upload unless uploads of its name have
\* met or been cut short, and its halves always fit together.
THEOREM UploadsCorrect == FP!GraphsAreFrames => (Spec => []UploadsArriveWhole)
<1> SUFFICES ASSUME FP!GraphsAreFrames PROVE Spec => []UploadsArriveWhole
    OBVIOUS
<1>1. Init => FP!Init
      BY InitIsFlight
<1>2. [Next]_vars => [FP!Next]_(FP!vars)
      BY UploadsStep
<1>3. Spec => FP!Spec
      BY <1>1, <1>2, PTL DEF Spec, FP!Spec
<1>4. FP!Spec => []FP!UploadsArriveWhole
      BY FP!UploadsCorrect
<1>5. FP!UploadsArriveWhole => UploadsArriveWhole
      BY SameUploads DEF UploadsArriveWhole
<1>6. QED BY <1>3, <1>4, <1>5, PTL

-----------------------------------------------------------------------------
(* Graphs that are made from a graph.                                       *)

Inductions == {"subgraph", "subgraph_by_label", "k_hop_subgraph", "largest_connected_component"}

\* The indexes of such a graph agree with its rows.
LEMMA WellBuiltAgrees ==
    ASSUME NEW g, WellBuilt(g)
    PROVE  IndexesAgree(g) /\ ~Dangles(g.nodes, g.edges)
<1> DEFINE rows == EdgeRows(g)
<1>1. Built(g.edges) /\ ~Dangles(g.nodes, g.edges)
      BY DEF WellBuilt
<1>2. /\ DOMAIN g.nodes.index = AllIds(g)
      /\ \A x \in DOMAIN g.nodes.index : IdsOf(g)[g.nodes.index[x]] = x
      /\ Cardinality(AllIds(g)) = Len(IdsOf(g))
      BY NodesIndexed
<1>3. /\ Len(ToCoo(g)) = Len(EdgeRows(g))
      /\ {<<g.edges.ids[e[1]], g.edges.ids[e[2]]>> : e \in ToSet(ToCoo(g))} =
              {<<r["_src"], r["_dst"]>> : r \in ToSet(EdgeRows(g))}
      BY <1>1, CooLength, CooEnds
<1>4. ASSUME NEW r \in DOMAIN rows PROVE r \in ToSet(g.edges.types[rows[r]["_type"]])
  <2> DEFINE b == g.edges.data
  <2>1. PICK m \in Nat : DOMAIN b.rows = 1..m /\ g.edges.types = TypeIndex(b)
        BY <1>1, BuiltParts
  <2>2. rows = b.rows
        BY DEF EdgeRows
  <2> HIDE DEF b, rows
  <2>3. DOMAIN b.rows = 1..m /\ m \in Nat
        BY <2>1
  <2>4. r \in 1..m /\ rows[r] = b.rows[r]
        BY <2>1, <2>2
  <2>5. b.rows[r]["_type"] \in DOMAIN TypeIndex(b)
        BY <2>3, <2>4, TypesIndexed
  <2>6. r \in ToSet(TypeIndex(b)[b.rows[r]["_type"]])
        BY <2>3, <2>4, <2>5, TypesIndexed
  <2>7. QED BY <2>1, <2>4, <2>6
<1>5. ASSUME NEW x
      PROVE  /\ {<<p.to, p.row>> : p \in ToSet(OutOf(g, x))} =
                   {<<rows[r]["_dst"], r>> : r \in {r \in DOMAIN rows : rows[r]["_src"] = x}}
             /\ {<<p.to, p.row>> : p \in ToSet(InTo(g, x))} =
                   {<<rows[r]["_src"], r>> : r \in {r \in DOMAIN rows : rows[r]["_dst"] = x}}
  <2>1. /\ NeighborsListed(rows, OutOf(g, x), "_src", "_dst", x)
        /\ NeighborsListed(rows, InTo(g, x), "_dst", "_src", x)
        BY <1>1, NeighborsAre
  <2> HIDE DEF rows
  <2>2. QED BY <2>1, ListedPairs
<1>6. QED BY <1>1, <1>2, <1>3, <1>4, <1>5 DEF IndexesAgree

\* An operation that is not one of these, or fails, answers for nothing but the indexes.
LEMMA MakesGraph ==
    ASSUME work = "frames", WellBuilt(graph), NEW call, NEW args, NEW result, Make(call, args, result),
           result.status = "ok" => WellBuilt(result.value),
           call \notin Inductions \/ result.status # "ok"
    PROVE  WellBuilt(graph)' /\ SubgraphsAreInduced'
<1>1. /\ work' = "frames" /\ answer'.call = call /\ answer'.result = result.status
      /\ graph' = IF result.status = "ok" THEN result.value ELSE graph
      BY DEF Make
<1>2. WellBuilt(graph')
      BY <1>1
<1>3. IndexesAgree(graph') /\ ~Dangles(graph'.nodes, graph'.edges)
      BY <1>2, WellBuiltAgrees
<1>4. ~Made(Inductions)' /\ ~Made({"largest_connected_component"})'
      BY <1>1 DEF Made, Inductions
<1>5. QED BY <1>2, <1>3, <1>4 DEF SubgraphsAreInduced, Inductions

\* A subgraph has the rows of the nodes that it is for.
LEMMA MakesSubgraph ==
    ASSUME work = "frames", WellBuilt(graph), NEW call, NEW args, NEW X, NEW K,
           Make(call, args, Subgraph(graph, X)), X \cap AllIds(graph) = K \cap AllIds(graph),
           \/ call = "subgraph" /\ K = args \cap AllIds(graph)
           \/ call = "subgraph_by_label" /\ K = {x \in AllIds(graph) : args \in ToSet(Label(graph, x))}
           \/ call = "k_hop_subgraph" /\ K = WithinHops(graph, {args.root}, AnyEdge(args.hops, "both", graph), AllIds(graph))
    PROVE  WellBuilt(graph)' /\ SubgraphsAreInduced'
<1> DEFINE h == Subgraph(graph, X).value
<1>1. /\ Subgraph(graph, X).status = "ok" /\ WellBuilt(h)
      /\ InducedIn(h, graph, K)
  <2>1. Subgraph(graph, X).status = "ok"
        BY SubgraphBuilt
  <2>2. WellBuilt(h)
        BY SubgraphBuilt
  <2>3. InducedIn(h, graph, K)
        BY SubgraphBuilt
  <2>4. QED BY <2>1, <2>2, <2>3
<1>2. /\ work' = "frames" /\ graph' = h
      /\ answer'.call = call /\ answer'.args = args /\ answer'.from = graph
      BY <1>1 DEF Make
<1>3. IndexesAgree(graph') /\ ~Dangles(graph'.nodes, graph'.edges) /\ WellBuilt(graph')
      BY <1>1, <1>2, WellBuiltAgrees
<1>4. Kept(answer.from)' = K
      BY <1>2 DEF Kept, AllIds, Label, IdsOf, AnyEdge
<1>5. ~Made({"largest_connected_component"})'
      BY <1>2 DEF Made
<1> HIDE DEF h
<1>6. /\ IdsOf(graph)' = Those(IdsOf(answer.from), LAMBDA x : x \in Kept(answer.from))'
      /\ EdgeRows(graph)' = Those(EdgeRows(answer.from), LAMBDA r : {r["_src"], r["_dst"]} \subseteq Kept(answer.from))'
  <2>1. IdsOf(graph)' = IdsOf(h) /\ EdgeRows(graph)' = EdgeRows(h)
        BY <1>2 DEF IdsOf, EdgeRows, Column
  <2>2. IdsOf(answer.from)' = IdsOf(graph) /\ EdgeRows(answer.from)' = EdgeRows(graph)
        BY <1>2 DEF IdsOf, EdgeRows, Column
  <2>3. QED BY <1>1, <1>4, <2>1, <2>2 DEF Those, InducedIn
<1>7. QED BY <1>3, <1>5, <1>6 DEF SubgraphsAreInduced

\* subgraph.
LEMMA SubgraphMade ==
    ASSUME work = "frames", WellBuilt(graph), MakeSubgraph
    PROVE  WellBuilt(graph)' /\ SubgraphsAreInduced'
<1>1. PICK ids : Make("subgraph", ids, Subgraph(graph, ids))
      BY DEF MakeSubgraph
<1> DEFINE K == ids \cap AllIds(graph)
<1>2. ids \cap AllIds(graph) = K \cap AllIds(graph)
      OBVIOUS
<1>3. K = ids \cap AllIds(graph)
      OBVIOUS
<1> HIDE DEF K
<1>4. QED BY <1>1, <1>2, <1>3, MakesSubgraph

\* subgraph_by_label.
LEMMA ByLabelMade ==
    ASSUME work = "frames", WellBuilt(graph), MakeByLabel
    PROVE  WellBuilt(graph)' /\ SubgraphsAreInduced'
<1>1. PICK l : Make("subgraph_by_label", l, SubgraphByLabel(graph, l))
      BY DEF MakeByLabel
<1> DEFINE K == {x \in AllIds(graph) : l \in ToSet(Label(graph, x))}
<1>2. SubgraphByLabel(graph, l) = Subgraph(graph, K)
      BY DEF SubgraphByLabel, AllIds
<1>3. K = {x \in AllIds(graph) : l \in ToSet(Label(graph, x))}
      OBVIOUS
<1> HIDE DEF K
<1>4. Make("subgraph_by_label", l, Subgraph(graph, K))
      BY <1>1, <1>2
<1>5. QED BY <1>3, <1>4, MakesSubgraph

\* k_hop_subgraph.
LEMMA KHopMade ==
    ASSUME work = "frames", WellBuilt(graph), MakeKHop
    PROVE  WellBuilt(graph)' /\ SubgraphsAreInduced'
<1>1. PICK x \in Inputs.ids, k \in 0..2 : Make("k_hop_subgraph", [root |-> x, hops |-> k], KHopSubgraph(graph, x, k))
      BY DEF MakeKHop
<1> DEFINE args == [root |-> x, hops |-> k]
           r    == KHopSubgraph(graph, x, k)
<1>2. Make("k_hop_subgraph", args, r)
      BY <1>1
<1>3. CASE HasNode(graph.nodes, x)
  <2> DEFINE cfg == AnyEdge(k, "both", graph)
             roots == {x}
             K == WithinHops(graph, roots, cfg, AllIds(graph))
  <2>10. k \in Nat
         OBVIOUS
  <2>1. r = Subgraph(graph, Within(graph, DOMAIN graph.edges.types, "both", {x}, k))
        BY <1>3, <2>10, KHopIs
  <2>2. cfg.hops = k /\ cfg.types = DOMAIN graph.edges.types /\ cfg.dir = "both"
        BY DEF AnyEdge
  <2>3. IsFrame(graph) /\ cfg.hops \in Nat
        BY <2>2, WellBuiltFrame
  <2>4. K = Within(graph, cfg.types, cfg.dir, roots, cfg.hops)
    <3> HIDE DEF cfg, roots
    <3>1. QED BY <2>3, WithinHopsIs
  <2>5. r = Subgraph(graph, K)
        BY <2>1, <2>2, <2>4
  <2>6. args.root = x /\ args.hops = k
        OBVIOUS
  <2>7. K = WithinHops(graph, {args.root}, AnyEdge(args.hops, "both", graph), AllIds(graph))
        BY <2>6
  <2>8. Make("k_hop_subgraph", args, Subgraph(graph, K))
        BY <1>2, <2>5
  <2> HIDE DEF K, args
  <2>9. QED BY <2>7, <2>8, MakesSubgraph
<1>4. CASE ~HasNode(graph.nodes, x)
  <2>1. r.status # "ok"
        BY <1>4 DEF KHopSubgraph, Err
  <2> HIDE DEF r, args
  <2>2. QED BY <1>2, <2>1, MakesGraph
<1>5. QED BY <1>3, <1>4

\* largest_connected_component.
LEMMA LargestMade ==
    ASSUME work = "frames", Null \notin Nat, WellBuilt(graph), MakeLargest
    PROVE  WellBuilt(graph)' /\ SubgraphsAreInduced'
<1>1. PICK X : IsLargest(graph, X)
      BY LargestIs
<1>2. /\ LargestConnectedComponent(graph) = Subgraph(graph, X) /\ X \subseteq AllIds(graph)
      /\ \A x \in X : Component(graph, x) = X
      /\ \A x \in AllIds(graph) : Cardinality(Component(graph, x)) <= Cardinality(X)
      BY <1>1 DEF IsLargest
<1> DEFINE h == Subgraph(graph, X).value
<1>3. /\ Subgraph(graph, X).status = "ok" /\ WellBuilt(h)
      /\ InducedIn(h, graph, X)
      /\ AllIds(h) = X
  <2>1. Subgraph(graph, X).status = "ok"
        BY SubgraphBuilt
  <2>2. WellBuilt(h)
        BY SubgraphBuilt
  <2>3. InducedIn(h, graph, X)
        BY SubgraphBuilt
  <2>4. AllIds(h) = AllIds(graph) \cap X
        BY SubgraphBuilt
  <2>5. QED BY <1>2, <2>1, <2>2, <2>3, <2>4
<1>4. /\ work' = "frames" /\ graph' = h
      /\ answer'.call = "largest_connected_component" /\ answer'.from = graph
      BY <1>2, <1>3 DEF Make, MakeLargest
<1>5. IndexesAgree(graph') /\ ~Dangles(graph'.nodes, graph'.edges) /\ WellBuilt(graph')
      BY <1>3, <1>4, WellBuiltAgrees
<1> HIDE DEF h
<1>6. AllIds(graph)' = X
      BY <1>3, <1>4 DEF AllIds, IdsOf, Column
<1>7. Kept(answer.from)' = X
      BY <1>4, <1>6 DEF Kept
<1>8. /\ IdsOf(graph)' = Those(IdsOf(answer.from), LAMBDA x : x \in Kept(answer.from))'
      /\ EdgeRows(graph)' = Those(EdgeRows(answer.from), LAMBDA r : {r["_src"], r["_dst"]} \subseteq Kept(answer.from))'
  <2>1. IdsOf(graph)' = IdsOf(h) /\ EdgeRows(graph)' = EdgeRows(h)
        BY <1>4 DEF IdsOf, EdgeRows, Column
  <2>2. IdsOf(answer.from)' = IdsOf(graph) /\ EdgeRows(answer.from)' = EdgeRows(graph)
        BY <1>4 DEF IdsOf, EdgeRows, Column
  <2>3. QED BY <1>3, <1>7, <2>1, <2>2 DEF Those, InducedIn
<1>9. /\ (\A x \in AllIds(graph) : Connected(answer.from, x) = AllIds(graph))'
      /\ (\A x \in AllIds(answer.from) : Cardinality(Connected(answer.from, x)) <= Cardinality(AllIds(graph)))'
  <2>1. \A x : Connected(graph, x) = Component(graph, x)
        BY ConnectedIs
  <2>2. \A x : Connected(answer'.from, x) = Component(graph, x)
        BY <1>4, <2>1
  <2>3. AllIds(answer'.from) = AllIds(graph) /\ AllIds(graph') = X
        BY <1>4, <1>6
  <2>4. QED BY <1>2, <2>2, <2>3
<1>10. QED BY <1>5, <1>8, <1>9 DEF SubgraphsAreInduced

\* A graph with other nodes, and with other edges.
LEMMA PutNodes ==
    ASSUME WellBuilt(graph), NEW nodes, nodes.status = "ok" => NodesBuilt(nodes.value),
           WithNodes(nodes).status = "ok"
    PROVE  WellBuilt(WithNodes(nodes).value)
<1>1. WithNodes(nodes) = IF nodes.status = "ok" THEN NewGraph(nodes.value, graph.edges) ELSE nodes
      BY DEF WithNodes, Then
<1>2. nodes.status = "ok" /\ NodesBuilt(nodes.value) /\ WithNodes(nodes) = NewGraph(nodes.value, graph.edges)
      BY <1>1
<1>3. Built(graph.edges)
      BY WellBuiltHas
<1>4. QED BY <1>2, <1>3, GraphBuilt

\* The same of edges.
LEMMA PutEdges ==
    ASSUME WellBuilt(graph), NEW edges, edges.status = "ok" => Built(edges.value),
           WithEdges(edges).status = "ok"
    PROVE  WellBuilt(WithEdges(edges).value)
<1>1. WithEdges(edges) = IF edges.status = "ok" THEN NewGraph(graph.nodes, edges.value) ELSE edges
      BY DEF WithEdges, Then
<1>2. edges.status = "ok" /\ Built(edges.value) /\ WithEdges(edges) = NewGraph(graph.nodes, edges.value)
      BY <1>1
<1>3. NodesBuilt(graph.nodes)
      BY WellBuiltHas
<1>4. QED BY <1>2, <1>3, GraphBuilt

\* Other operations that make a graph of other nodes or edges.
LEMMA NodesMade ==
    ASSUME work = "frames", WellBuilt(graph), NEW call, NEW args, NEW nodes, call \notin Inductions,
           Make(call, args, WithNodes(nodes)), nodes.status = "ok" => NodesBuilt(nodes.value)
    PROVE  WellBuilt(graph)' /\ SubgraphsAreInduced'
<1> DEFINE r == WithNodes(nodes)
<1>1. r.status = "ok" => WellBuilt(r.value)
      BY PutNodes
<1>2. Make(call, args, r)
      OBVIOUS
<1> HIDE DEF r
<1>3. QED BY <1>1, <1>2, MakesGraph

\* The same of edges.
LEMMA EdgesMade ==
    ASSUME work = "frames", WellBuilt(graph), NEW call, NEW args, NEW edges, call \notin Inductions,
           Make(call, args, WithEdges(edges)), edges.status = "ok" => Built(edges.value)
    PROVE  WellBuilt(graph)' /\ SubgraphsAreInduced'
<1> DEFINE r == WithEdges(edges)
<1>1. r.status = "ok" => WellBuilt(r.value)
      BY PutEdges
<1>2. Make(call, args, r)
      OBVIOUS
<1> HIDE DEF r
<1>3. QED BY <1>1, <1>2, MakesGraph

\* A filter of frames that are built gives one, always.
LEMMA FiltersBuild ==
    ASSUME WellBuilt(graph), NEW rows
    PROVE  LET n == FilterNodes(graph.nodes, MaskOf(rows, graph.nodes.data))
               e == FilterEdges(graph.edges, MaskOf(rows, graph.edges.data))
           IN n.status = "ok" /\ NodesBuilt(n.value) /\ e.status = "ok" /\ Built(e.value)
<1> DEFINE nm == MaskOf(rows, graph.nodes.data)
           em == MaskOf(rows, graph.edges.data)
           n  == FilterNodes(graph.nodes, nm)
           e  == FilterEdges(graph.edges, em)
<1>1. NodesBuilt(graph.nodes) /\ Built(graph.edges)
      BY WellBuiltHas
<1>2. PICK i, j \in Nat : DOMAIN graph.nodes.data.rows = 1..i /\ DOMAIN graph.edges.data.rows = 1..j
      BY <1>1 DEF NodesBuilt, Built, Batch
<1>3. DOMAIN nm = DOMAIN graph.nodes.data.rows /\ DOMAIN em = DOMAIN graph.edges.data.rows
      BY DEF MaskOf
<1> HIDE DEF nm, em
<1>4. Len(nm) = Len(graph.nodes.data.rows) /\ Len(em) = Len(graph.edges.data.rows)
  <2>1. Len(nm) = i /\ Len(graph.nodes.data.rows) = i
        BY <1>2, <1>3, ListLen
  <2>2. Len(em) = j /\ Len(graph.edges.data.rows) = j
        BY <1>2, <1>3, ListLen
  <2>3. QED BY <2>1, <2>2
<1>5. n = Ok(NodesOf(FilterRows(graph.nodes.data, nm))) /\ e = Ok(EdgesOf(FilterRows(graph.edges.data, em)))
      BY <1>4 DEF FilterNodes, FilterEdges
<1>6. NodesBuilt(NodesOf(FilterRows(graph.nodes.data, nm)))
      BY <1>1, <1>3, NodesFiltered
<1>7. Built(EdgesOf(FilterRows(graph.edges.data, em)))
      BY <1>1, <1>3, EdgesFiltered
<1> HIDE DEF n, e
<1>8. n.status = "ok" /\ NodesBuilt(n.value) /\ e.status = "ok" /\ Built(e.value)
      BY <1>5, <1>6, <1>7 DEF Ok
<1>9. QED BY <1>8 DEF n, e, nm, em

\* filter.
LEMMA FilteredMade ==
    ASSUME work = "frames", WellBuilt(graph), MakeFiltered
    PROVE  WellBuilt(graph)' /\ SubgraphsAreInduced'
<1>1. PICK rows : \/ Make("filter", rows, WithNodes(FilterNodes(graph.nodes, MaskOf(rows, graph.nodes.data))))
                  \/ Make("filter", rows, WithEdges(FilterEdges(graph.edges, MaskOf(rows, graph.edges.data))))
      BY DEF MakeFiltered
<1> DEFINE n == FilterNodes(graph.nodes, MaskOf(rows, graph.nodes.data))
           e == FilterEdges(graph.edges, MaskOf(rows, graph.edges.data))
<1>2. NodesBuilt(n.value) /\ Built(e.value)
      BY FiltersBuild
<1>3. "filter" \notin Inductions
      BY DEF Inductions
<1>4. Make("filter", rows, WithNodes(n)) \/ Make("filter", rows, WithEdges(e))
      BY <1>1
<1> HIDE DEF n, e
<1>5. QED BY <1>2, <1>3, <1>4, NodesMade, EdgesMade

\* concat.
LEMMA ConcatMade ==
    ASSUME work = "frames", WellBuilt(graph), MakeConcat
    PROVE  WellBuilt(graph)' /\ SubgraphsAreInduced'
<1>1. PICK rows :
        \/ Make("concat", rows,
             WithNodes(ConcatNodes(<<graph.nodes, FilterNodes(graph.nodes, MaskOf(rows, graph.nodes.data)).value>>)))
        \/ Make("concat", rows,
             WithEdges(ConcatEdges(<<graph.edges, FilterEdges(graph.edges, MaskOf(rows, graph.edges.data)).value>>)))
      BY DEF MakeConcat
<1> DEFINE n == FilterNodes(graph.nodes, MaskOf(rows, graph.nodes.data)).value
           e == FilterEdges(graph.edges, MaskOf(rows, graph.edges.data)).value
           cn == ConcatNodes(<<graph.nodes, n>>)
           ce == ConcatEdges(<<graph.edges, e>>)
<1>2. NodesBuilt(n) /\ Built(e)
      BY FiltersBuild
<1>3. NodesBuilt(graph.nodes) /\ Built(graph.edges)
      BY WellBuiltHas
<1>4. Make("concat", rows, WithNodes(cn)) \/ Make("concat", rows, WithEdges(ce))
      BY <1>1
<1> HIDE DEF n, e
<1>5. cn.status = "ok" => NodesBuilt(cn.value)
      BY <1>2, <1>3, ConcatNodesBuilt
<1>6. ce.status = "ok" => Built(ce.value)
      BY <1>2, <1>3, ConcatEdgesBuilt
<1>7. "concat" \notin Inductions
      BY DEF Inductions
<1> HIDE DEF cn, ce
<1>8. QED BY <1>4, <1>5, <1>6, <1>7, NodesMade, EdgesMade

\* select.
LEMMA SelectedMade ==
    ASSUME work = "frames", WellBuilt(graph), NEW T, Inputs.columns \subseteq Seq(T), MakeSelected
    PROVE  WellBuilt(graph)' /\ SubgraphsAreInduced'
<1>1. PICK columns \in Inputs.columns :
        \/ Make("select", columns, WithNodes(SelectNodes(graph.nodes, columns)))
        \/ Make("select", columns, WithEdges(SelectEdges(graph.edges, columns)))
      BY DEF MakeSelected
<1> DEFINE n == SelectNodes(graph.nodes, columns)
           e == SelectEdges(graph.edges, columns)
<1>2. columns \in Seq(T)
      OBVIOUS
<1>3. NodesBuilt(graph.nodes) /\ Built(graph.edges)
      BY WellBuiltHas
<1>4. n.status = "ok" => NodesBuilt(n.value)
      BY <1>2, <1>3, SelectNodesBuilt
<1>5. e.status = "ok" => Built(e.value)
      BY <1>2, <1>3, SelectEdgesBuilt
<1>6. "select" \notin Inductions
      BY DEF Inductions
<1>7. Make("select", columns, WithNodes(n)) \/ Make("select", columns, WithEdges(e))
      BY <1>1
<1> HIDE DEF n, e
<1>8. QED BY <1>4, <1>5, <1>6, <1>7, NodesMade, EdgesMade

\* filter_by_types.
LEMMA TypesBuilt ==
    ASSUME NEW edges, Built(edges), NEW ts
    PROVE  Built(FilterByTypes(edges, ts))
<1> DEFINE R    == UNION {RowsOfType(edges, t) : t \in ts}
           mask == [r \in DOMAIN edges.data.rows |-> r \in R]
<1>1. FilterByTypes(edges, ts) = EdgesOf(FilterRows(edges.data, mask))
      BY DEF FilterByTypes, EdgesAt
<1>2. DOMAIN mask = DOMAIN edges.data.rows
      OBVIOUS
<1> HIDE DEF mask
<1>3. QED BY <1>1, <1>2, EdgesFiltered

\* So the graph is built again.
LEMMA TypedMade ==
    ASSUME work = "frames", WellBuilt(graph), MakeTyped
    PROVE  WellBuilt(graph)' /\ SubgraphsAreInduced'
<1> DEFINE e == Ok(FilterByTypes(graph.edges, Inputs.types))
<1>1. Built(graph.edges)
      BY WellBuiltHas
<1>2. Built(e.value)
      BY <1>1, TypesBuilt DEF Ok
<1>3. Make("filter_by_types", Inputs.types, WithEdges(e))
      BY DEF MakeTyped
<1>4. "filter_by_types" \notin Inductions
      BY DEF Inductions
<1> HIDE DEF e
<1>5. QED BY <1>2, <1>3, <1>4, EdgesMade

\* subgraph_by_edge_type.
LEMMA ByTypeMade ==
    ASSUME work = "frames", WellBuilt(graph), MakeByType
    PROVE  WellBuilt(graph)' /\ SubgraphsAreInduced'
<1>1. PICK t : Make("subgraph_by_edge_type", t, SubgraphByEdgeType(graph, t))
      BY DEF MakeByType
<1> DEFINE edges == FilterByTypes(graph.edges, {t})
           X     == UNION {{r["_src"], r["_dst"]} : r \in ToSet(edges.data.rows)}
           nodes == NodesIn(graph.nodes, X)
           r     == SubgraphByEdgeType(graph, t)
<1>2. r = NewGraph(nodes, edges)
      BY DEF SubgraphByEdgeType
<1>3. NodesBuilt(graph.nodes) /\ Built(graph.edges)
      BY WellBuiltHas
<1>4. Built(edges)
      BY <1>3, TypesBuilt
<1>5. NodesBuilt(nodes)
      BY <1>3, NodesInBuilt
<1>6. "subgraph_by_edge_type" \notin Inductions
      BY DEF Inductions
<1> HIDE DEF nodes, edges
<1>7. r.status = "ok" => WellBuilt(r.value)
      BY <1>2, <1>4, <1>5, GraphBuilt
<1>8. Make("subgraph_by_edge_type", t, r)
      BY <1>1
<1> HIDE DEF r
<1>9. QED BY <1>6, <1>7, <1>8, MakesGraph

\* slice.
LEMMA SlicedMade ==
    ASSUME work = "frames", WellBuilt(graph), MakeSliced
    PROVE  WellBuilt(graph)' /\ SubgraphsAreInduced'
<1>1. PICK offset \in 0..1 : Make("slice", offset, WithNodes(SliceNodes(graph.nodes, offset, 2)))
      BY DEF MakeSliced
<1> DEFINE n == SliceNodes(graph.nodes, offset, 2)
<1>2. NodesBuilt(graph.nodes) /\ offset \in Nat /\ 2 \in Nat
      BY WellBuiltHas
<1>3. n.status = "ok" => NodesBuilt(n.value)
      BY <1>2, SliceBuilt
<1>4. "slice" \notin Inductions
      BY DEF Inductions
<1>5. Make("slice", offset, WithNodes(n))
      BY <1>1
<1> HIDE DEF n
<1>6. QED BY <1>3, <1>4, <1>5, NodesMade

\* gather_rows, and the frame that is made of them.
LEMMA GatheredMade ==
    ASSUME work = "frames", WellBuilt(graph), Inputs.orders \subseteq Seq(Nat), MakeGathered
    PROVE  WellBuilt(graph)' /\ SubgraphsAreInduced'
<1>1. PICK rows \in Inputs.orders : Make("gather_rows", rows, WithNodes(Gathered(rows)))
      BY DEF MakeGathered
<1> DEFINE n == Gathered(rows)
           s == GatherRows(graph.nodes, rows)
<1>2. NodesBuilt(graph.nodes) /\ rows \in Seq(Nat)
      BY WellBuiltHas
<1>3. n = IF s.status = "ok" THEN NodesFrom(s.value) ELSE s
      BY DEF Gathered, Then
<1>4. s.status = "ok" => Batch(s.value)
      BY <1>2, GatheredBatch
<1>5. Make("gather_rows", rows, WithNodes(n))
      BY <1>1
<1> HIDE DEF n, s
<1>6. n.status = "ok" => NodesBuilt(n.value)
      BY <1>3, <1>4, NodesFromBuilt
<1>7. "gather_rows" \notin Inductions
      BY DEF Inductions
<1>8. QED BY <1>5, <1>6, <1>7, NodesMade

\* intersect and difference.
LEMMA CombinedMade ==
    ASSUME work = "frames", WellBuilt(graph), MakeCombined
    PROVE  WellBuilt(graph)' /\ SubgraphsAreInduced'
<1>1. PICK ids, common : Make("intersect", ids, WithNodes(CombineNodes(graph.nodes, NodesIn(graph.nodes, ids), common)))
      BY DEF MakeCombined
<1> DEFINE right == NodesIn(graph.nodes, ids)
           n     == CombineNodes(graph.nodes, right, common)
           X     == {x \in DOMAIN graph.nodes.index : HasNode(right, x) = common}
<1>2. NodesBuilt(graph.nodes)
      BY WellBuiltHas
<1>3. n = IF graph.nodes.data.fields # right.data.fields THEN Err("SchemaMismatch") ELSE Ok(NodesIn(graph.nodes, X))
      BY DEF CombineNodes
<1>4. NodesBuilt(NodesIn(graph.nodes, X))
      BY <1>2, NodesInBuilt
<1>5. Make("intersect", ids, WithNodes(n))
      BY <1>1
<1> HIDE DEF n, X, right
<1>6. n.status = "ok" => NodesBuilt(n.value)
      BY <1>3, <1>4 DEF Ok, Err
<1>7. "intersect" \notin Inductions
      BY DEF Inductions
<1>8. QED BY <1>5, <1>6, <1>7, NodesMade

\* structural_features.
LEMMA FeaturesMade ==
    ASSUME work = "frames", WellBuilt(graph), MakeFeatures
    PROVE  WellBuilt(graph)' /\ SubgraphsAreInduced'
<1>1. PICK t : Make("structural_features", t, WithNodes(StructuralFeatures(graph, t)))
      BY DEF MakeFeatures
<1> DEFINE n == StructuralFeatures(graph, t)
<1>2. NodesBuilt(graph.nodes)
      BY WellBuiltHas
<1>3. n.status = "ok" => NodesBuilt(n.value)
      BY <1>2, FeaturesBuilt
<1>4. "structural_features" \notin Inductions
      BY DEF Inductions
<1>5. Make("structural_features", t, WithNodes(n))
      BY <1>1
<1> HIDE DEF n
<1>6. QED BY <1>3, <1>4, <1>5, NodesMade

\* The graphs that frames begin with are built, and the arguments are lists: of names,
\* and of rows.
FramesGiven ==
    /\ "frames" \in DOMAIN GraphsOf /\ \A g \in GraphsOf["frames"] : WellBuilt(g)
    /\ Inputs.columns \subseteq Seq(STRING) /\ Inputs.orders \subseteq Seq(Nat)
    /\ Null \notin Nat

\* The graph is built at any time.
FramesBuilt == (work = "frames" => WellBuilt(graph)) /\ SubgraphsAreInduced

\* At first nothing is asked.
LEMMA InitBuilt == FramesGiven /\ Init => FramesBuilt
<1> SUFFICES ASSUME FramesGiven, Init PROVE FramesBuilt
    OBVIOUS
<1>1. answer.call = "none"
      BY DEF Init, NoAnswer
<1>2. ~Made(Inductions) /\ ~Made({"largest_connected_component"})
      BY <1>1 DEF Made, Inductions
<1>3. work = "frames" => WellBuilt(graph)
      BY DEF Init, FramesGiven
<1>4. work = "frames" => IndexesAgree(graph) /\ ~Dangles(graph.nodes, graph.edges)
      BY <1>3, WellBuiltAgrees
<1>5. SubgraphsAreInduced
      BY <1>2, <1>4 DEF SubgraphsAreInduced, Inductions
<1>6. QED BY <1>3, <1>5 DEF FramesBuilt

\* Only operations that make a graph change one of frames.
LEMMA FramesStay == ASSUME [Next]_vars PROVE work' = work /\ (work = "frames" => MakeGraph \/ UNCHANGED calls)
BY DEF Next, MakeGraph, MakeSubgraph, MakeByLabel, MakeByType, MakeKHop, MakeLargest, MakeFiltered, MakeSelected,
       MakeTyped, MakeSliced, MakeGathered, MakeConcat, MakeCombined, MakeFeatures, Make,
       AskGraph, AskShortest, AskAStar, AskAllShortest, AskKShortest, AskBfs, AskHasPath, AskNeighbors,
       AskComponents, AskDegrees, AskBetweenness, AskPageRank, AskCommunities, AskPartition, AskDistributed,
       AskMatch, AskAggregate, AskTraverse, AskParse, AskNodes, AskEdges, AskExpand, AskWrite, AskCsv, Ask,
       Sampled, Begin, Draw, Walk, Store, LoadPages, Serve, vars, calls

\* Every step keeps the frames built.
LEMMA FramesStep == ASSUME FramesGiven, FramesBuilt, [Next]_vars PROVE FramesBuilt'
<1>1. work' = work /\ (work = "frames" => MakeGraph \/ UNCHANGED calls)
      BY FramesStay
<1>2. CASE work # "frames"
      BY <1>1, <1>2 DEF FramesBuilt, SubgraphsAreInduced, Made
<1>3. CASE work = "frames" /\ UNCHANGED calls
  <2>1. WellBuilt(graph) /\ SubgraphsAreInduced
        BY <1>3 DEF FramesBuilt
  <2>2. work' = work /\ graph' = graph /\ answer' = answer
        BY <1>3 DEF calls
  <2>3. WellBuilt(graph)'
        BY <2>1, <2>2
  <2>4. SubgraphsAreInduced'
    <3>1. Kept(answer.from)' = Kept(answer.from)
          BY <2>2 DEF Kept
    <3>2. Made(Inductions) => InducedIn(graph, answer.from, Kept(answer.from))
          BY <1>3, <2>1 DEF SubgraphsAreInduced, Inductions, InducedIn
    <3>3. Made(Inductions)' => InducedIn(graph, answer.from, Kept(answer.from))'
          BY <2>2, <3>1, <3>2 DEF Made
    <3>4. IndexesAgree(graph) /\ ~Dangles(graph.nodes, graph.edges)
          BY <1>3, <2>1 DEF SubgraphsAreInduced
    <3>5. Made({"largest_connected_component"}) =>
             /\ \A x \in AllIds(graph) : Connected(answer.from, x) = AllIds(graph)
             /\ \A x \in AllIds(answer.from) : Cardinality(Connected(answer.from, x)) <= Cardinality(AllIds(graph))
          BY <1>3, <2>1 DEF SubgraphsAreInduced
    <3>6. (IndexesAgree(graph) /\ ~Dangles(graph.nodes, graph.edges))'
          BY <2>2, <3>4
    <3>7. Made({"largest_connected_component"})' =>
             /\ \A x \in AllIds(graph)' : Connected(answer.from, x)' = AllIds(graph)'
             /\ \A x \in AllIds(answer.from)' : Cardinality(Connected(answer.from, x)') <= Cardinality(AllIds(graph)')
          BY <2>2, <3>5 DEF Made
    <3>8. QED BY <3>3, <3>6, <3>7 DEF SubgraphsAreInduced, Inductions, InducedIn
  <2>5. QED BY <2>3, <2>4 DEF FramesBuilt
<1>4. CASE work = "frames" /\ MakeGraph
  <2>1. WellBuilt(graph) /\ work = "frames"
        BY <1>4 DEF FramesBuilt
  <2> DEFINE T == STRING
  <2>2. Null \notin Nat /\ Inputs.columns \subseteq Seq(T) /\ Inputs.orders \subseteq Seq(Nat)
        BY DEF FramesGiven
  <2> HIDE DEF T
  <2>3. CASE MakeSubgraph \/ MakeByLabel \/ MakeKHop \/ MakeLargest
    <3>1. WellBuilt(graph)' /\ SubgraphsAreInduced'
          BY <2>1, <2>2, <2>3, SubgraphMade, ByLabelMade, KHopMade, LargestMade
    <3>2. QED BY <3>1 DEF FramesBuilt
  <2>4. CASE MakeByType \/ MakeFiltered \/ MakeTyped \/ MakeSliced \/ MakeConcat \/ MakeCombined \/ MakeFeatures
    <3>1. WellBuilt(graph)' /\ SubgraphsAreInduced'
          BY <2>1, <2>4, ByTypeMade, FilteredMade, TypedMade, SlicedMade, ConcatMade, CombinedMade, FeaturesMade
    <3>2. QED BY <3>1 DEF FramesBuilt
  <2>5. CASE MakeSelected \/ MakeGathered
    <3>1. WellBuilt(graph)' /\ SubgraphsAreInduced'
          BY <2>1, <2>2, <2>5, SelectedMade, GatheredMade
    <3>2. QED BY <3>1 DEF FramesBuilt
  <2>6. QED BY <1>4, <2>3, <2>4, <2>5 DEF MakeGraph
<1>5. QED BY <1>1, <1>2, <1>3, <1>4

\* After any chain of operations on frames the indexes agree with the rows, no edge
\* dangles, a subgraph is the one its nodes induce, and the largest component is one.
THEOREM SubgraphsCorrect == FramesGiven => (Spec => []SubgraphsAreInduced)
<1> SUFFICES ASSUME FramesGiven PROVE Spec => []SubgraphsAreInduced
    OBVIOUS
<1>1. Init => FramesBuilt
      BY InitBuilt
<1>2. FramesBuilt /\ [Next]_vars => FramesBuilt'
      BY FramesStep
<1>3. FramesBuilt => SubgraphsAreInduced
      BY DEF FramesBuilt
<1>4. QED BY <1>1, <1>2, <1>3, PTL DEF Spec

-----------------------------------------------------------------------------
(* Shards.                                                                  *)

\* A count of a row among lists is one of the spots where it is.
LEMMA TimesIs ==
    ASSUME NEW row, NEW tables
    PROVE  Times(row, tables) = Cardinality(SpotsOf(row, tables))
BY DEF Times, SpotsOf, Spots

\* Parts as partition makes them cover the graph, once.
LEMMA PartsCover ==
    ASSUME NEW g, g = graph, NEW n \in Nat \ {0}, NEW p, CutWell(p, g, n), AllIds(g) \subseteq Int,
           answer.args.method = "range" => p.shardOf = Assigned(g, n, "range")
    PROVE  PartitionCovers(p)
<1> DEFINE nodes     == NodeTables(p.shards, n)
           all       == EdgeTables(p.shards, n, p.boundary)
           border    == p.boundary.data.rows
           merged    == Merge(p)
           stats     == Stats(p)
           within(k, x) == \E y, z \in ToSet(IdsOf(p.shards[k])) : y <= x /\ x <= z
<1>1. /\ WellBuilt(g) /\ IsFrame(g) /\ CutsUp(p, g, n) /\ DOMAIN p.shards = 1..n
      /\ \A k \in 1..n : WellBuilt(p.shards[k])
      BY WellBuiltFrame DEF CutWell, FullGraph, CutsUp, InParts, LikeGraph
<1>2. Len(p.shards) = n
      BY <1>1, ListLen
<1>3. \A row \in ToSet(g.nodes.data.rows) : Times(row, nodes) = 1
      BY NodesOnce, TimesIs
<1>4. \A row \in ToSet(EdgeRows(g)) : Times(row, all) = Times(row, <<EdgeRows(g)>>)
      BY EdgesAsOften, TimesIs
<1>5. \A row \in ToSet(border) : p.shardOf[row["_src"]] # p.shardOf[row["_dst"]]
      BY <1>1, BorderApart
<1>6. \A k \in 1..n : IndexesAgree(p.shards[k]) /\ \A x \in ToSet(IdsOf(p.shards[k])) : p.shardOf[x] = k
      BY <1>1, WellBuiltAgrees, ShardsApart DEF AllIds
<1>7. /\ merged.status = "ok" /\ WellBuilt(merged.value)
      /\ ToSet(IdsOf(merged.value)) = AllIds(g)
      /\ Len(EdgeRows(merged.value)) = Len(EdgeRows(g))
      BY MergeIs DEF AllIds
<1>8. IndexesAgree(merged.value)
      BY <1>7, WellBuiltAgrees
<1>9. /\ FoldLeft(+, 0, stats.nodes) = Len(IdsOf(g))
      /\ FoldLeft(+, stats.boundary, stats.edges) = Len(EdgeRows(g))
      BY StatsAdd
<1>10. ASSUME answer.args.method = "range", NEW x \in AllIds(g), NEW k \in 1..n, within(k, x)
       PROVE  p.shardOf[x] = k
  <2>1. PICK y, z \in ToSet(IdsOf(p.shards[k])) : y <= x /\ x <= z
        BY <1>10
  <2>2. y \in AllIds(g) /\ z \in AllIds(g) /\ p.shardOf[y] = k /\ p.shardOf[z] = k
    <3>1. y \in AllIds(p.shards[k]) /\ z \in AllIds(p.shards[k])
          BY DEF AllIds
    <3>2. AllIds(p.shards[k]) \subseteq AllIds(g)
          BY <1>1 DEF CutsUp, IsPart
    <3>3. QED BY <1>6, <3>1, <3>2
  <2>3. \A v \in AllIds(g) : p.shardOf[v] = RangeShard(IdsOf(g), v, n)
        BY <1>10 DEF Assigned, AllIds
  <2>4. RangeShard(IdsOf(g), x, n) = RangeShard(IdsOf(g), y, n)
        BY <1>1, <2>1, <2>2, <2>3, BandsApart
  <2>5. QED BY <2>2, <2>3, <2>4
<1>11. /\ nodes = [k \in 1..n |-> p.shards[k].nodes.data.rows]
       /\ all = Append([k \in 1..n |-> EdgeRows(p.shards[k])], border)
       BY DEF NodeTables, EdgeTables
<1> HIDE DEF nodes, all, merged, stats, border
<1>12. answer.args.method = "range" => \A x \in AllIds(g), k \in 1..n : within(k, x) => p.shardOf[x] = k
       BY <1>10
<1>13. QED BY <1>2, <1>3, <1>4, <1>5, <1>6, <1>7, <1>8, <1>9, <1>11, <1>12 DEF PartitionCovers, merged, stats, border

\* The graphs that are cut up are full, their ids hashed and in an order.
ShardsGiven ==
    /\ "shards" \in DOMAIN GraphsOf
    /\ \A g \in GraphsOf["shards"] : FullGraph(g) /\ AllIds(g) \subseteq DOMAIN Hash \cap Int
    /\ Inputs.shardCounts \subseteq Nat

\* What was asked of a graph to be cut up, and what came of it.
ShardsAsked == work = "shards" =>
    /\ graph \in GraphsOf["shards"]
    /\ Asked("partition") => \E n \in Inputs.shardCounts, method \in Methods :
          answer.args = [n |-> n, method |-> method] /\ answer.result = Partition(graph, n, method)
    /\ Asked("distributed_expand") =>
          \E n \in Inputs.shardCounts \ {0}, method \in Methods, roots \in Inputs.roots, hops \in 0..2,
             dir \in {"out", "in", "both"} :
             /\ answer.args = [roots |-> roots, types |-> Inputs.types, hops |-> hops, dir |-> dir]
             /\ answer.result = DistributedExpand(Partition(graph, n, method).value, ToSet(roots), Inputs.types, hops, dir)

\* A step leaves a graph to be cut up as it is, and asks one of these questions or none.
LEMMA ShardsStep == ASSUME ShardsGiven, ShardsAsked, [Next]_vars PROVE ShardsAsked'
<1> SUFFICES ASSUME work' = "shards" PROVE ShardsAsked'
    BY DEF ShardsAsked
<1>1. work = "shards" /\ graph' = graph /\ (answer' = answer \/ AskPartition \/ AskDistributed)
  <2>1. CASE MakeGraph
        BY <2>1 DEF MakeGraph, MakeSubgraph, MakeByLabel, MakeByType, MakeKHop, MakeLargest, MakeFiltered,
               MakeSelected, MakeTyped, MakeSliced, MakeGathered, MakeConcat, MakeCombined, MakeFeatures, Make
  <2>2. CASE AskGraph
        BY <2>2 DEF AskGraph,
               AskShortest, AskAStar, AskAllShortest, AskKShortest, AskBfs, AskHasPath, AskNeighbors,
               AskComponents, AskDegrees, AskBetweenness, AskPageRank, AskCommunities, AskPartition, AskDistributed,
               AskMatch, AskAggregate, AskTraverse, AskParse, AskNodes, AskEdges, AskExpand, AskWrite, AskCsv, Ask
  <2>3. CASE Sampled
        BY <2>3 DEF Sampled, Begin, Draw, Walk, Ask, calls
  <2>4. CASE Store \/ LoadPages \/ Serve \/ UNCHANGED vars
        BY <2>4 DEF Store, LoadPages, Serve, vars, calls
  <2>5. QED BY <2>1, <2>2, <2>3, <2>4 DEF Next
<1>2. graph' \in GraphsOf["shards"]
      BY <1>1 DEF ShardsAsked
<1>3. CASE answer' = answer
      BY <1>1, <1>2, <1>3 DEF ShardsAsked, Asked
<1>4. CASE AskPartition
  <2>1. PICK n \in Inputs.shardCounts, method \in Methods :
            answer' = [call |-> "partition", args |-> [n |-> n, method |-> method], result |-> Partition(graph, n, method)]
        BY <1>4 DEF AskPartition, Ask, Methods
  <2> DEFINE parts == Partition(graph, n, method)
  <2> HIDE DEF parts
  <2>2. answer' = [call |-> "partition", args |-> [n |-> n, method |-> method], result |-> parts]
        BY <2>1 DEF parts
  <2>3. answer'.call = "partition" /\ answer'.args = [n |-> n, method |-> method] /\ answer'.result = parts
        BY <2>2
  <2>4. QED BY <1>1, <1>2, <2>3 DEF ShardsAsked, Asked, parts
<1>5. CASE AskDistributed
  <2>1. PICK n \in Inputs.shardCounts \ {0}, method \in Methods, roots \in Inputs.roots, hops \in 0..2,
             dir \in {"out", "in", "both"} :
             Ask("distributed_expand", [roots |-> roots, types |-> Inputs.types, hops |-> hops, dir |-> dir],
                 DistributedExpand(Partition(graph, n, method).value, ToSet(roots), Inputs.types, hops, dir))
        BY <1>5 DEF AskDistributed, Methods
  <2> DEFINE found == DistributedExpand(Partition(graph, n, method).value, ToSet(roots), Inputs.types, hops, dir)
             args  == [roots |-> roots, types |-> Inputs.types, hops |-> hops, dir |-> dir]
  <2>2. answer' = [call |-> "distributed_expand", args |-> args, result |-> found]
        BY <2>1 DEF Ask
  <2> HIDE DEF found, args
  <2>3. answer'.call = "distributed_expand" /\ answer'.args = args /\ answer'.result = found
        BY <2>2
  <2>4. QED BY <1>1, <1>2, <2>3 DEF ShardsAsked, Asked, found, args
<1>6. QED BY <1>1, <1>3, <1>4, <1>5

\* What is answered is as it should be.
LEMMA ShardsAnswered == ASSUME ShardsGiven, ShardsAsked PROVE ShardsCoverOnce
<1> SUFFICES ASSUME work = "shards" PROVE ShardsCoverOnce
    BY DEF ShardsCoverOnce
<1> DEFINE g == graph
<1>1. FullGraph(g) /\ IsFrame(g) /\ AllIds(g) \subseteq DOMAIN Hash /\ AllIds(g) \subseteq Int
      BY WellBuiltFrame DEF ShardsAsked, ShardsGiven, FullGraph
<1>2. ASSUME Asked("partition"), answer.args.n > 0
      PROVE  Succeeded /\ PartitionCovers(answer.result.value)
  <2>1. PICK n \in Inputs.shardCounts, method \in Methods :
            answer.args = [n |-> n, method |-> method] /\ answer.result = Partition(g, n, method)
        BY <1>2 DEF ShardsAsked
  <2> DEFINE p == Partition(g, n, method).value
  <2>2. n \in Nat \ {0} /\ answer.args.method = method
        BY <1>2, <2>1 DEF ShardsGiven
  <2>3. Partition(g, n, method).status = "ok" /\ CutWell(p, g, n) /\ p.shardOf = Assigned(g, n, method)
        BY <1>1, <2>2, PartitionWell
  <2>4. answer.result.status = "ok" /\ answer.result.value = p
        BY <2>1, <2>3
  <2> HIDE DEF p
  <2>5. PartitionCovers(p)
        BY <1>1, <2>2, <2>3, PartsCover
  <2>6. QED BY <2>4, <2>5 DEF Succeeded
<1>3. ASSUME Asked("distributed_expand")
      PROVE  LET roots == ToSet(answer.args.roots)
                 found == WithinHops(graph, roots, answer.args, AllIds(graph)) \cap AllIds(graph)
             IN /\ Succeeded
                /\ ToSet(Column(answer.result.value.nodes.data, "_id")) = found
                /\ \A r \in ToSet(answer.result.value.edges.data.rows) : {r["_src"], r["_dst"]} \subseteq found
  <2>1. PICK n \in Inputs.shardCounts \ {0}, method \in Methods, roots \in Inputs.roots, hops \in 0..2,
             dir \in {"out", "in", "both"} :
             /\ answer.args = [roots |-> roots, types |-> Inputs.types, hops |-> hops, dir |-> dir]
             /\ answer.result = DistributedExpand(Partition(g, n, method).value, ToSet(roots), Inputs.types, hops, dir)
        BY <1>3 DEF ShardsAsked
  <2> DEFINE p     == Partition(g, n, method).value
             seeds == ToSet(roots)
             types == Inputs.types
             X     == Within(g, types, dir, seeds, hops)
             j     == DistributedExpand(p, seeds, types, hops, dir)
             cfg   == answer.args
  <2>2. n \in Nat \ {0} /\ hops \in Nat
        BY DEF ShardsGiven
  <2>3. CutWell(p, g, n)
        BY <1>1, <2>2, PartitionWell
  <2>4. cfg.roots = roots /\ cfg.types = types /\ cfg.dir = dir /\ cfg.hops = hops
        BY <2>1
  <2>5. answer.result = j
        BY <2>1
  <2> HIDE DEF p, seeds, types, cfg
  <2>6. HasFound(j, AllIds(g) \cap X)
        BY <2>2, <2>3, DistributedIs
  <2> HIDE DEF j
  <2>7. WithinHops(g, seeds, cfg, AllIds(g)) = X
        BY <1>1, <2>2, <2>4, WithinHopsIs
  <2> HIDE DEF X
  <2>8. ToSet(answer.args.roots) = seeds
        BY <2>4 DEF seeds, cfg
  <2>9. QED BY <2>5, <2>6, <2>7, <2>8 DEF Succeeded, cfg, HasFound
<1>4. QED BY <1>2, <1>3 DEF ShardsCoverOnce

\* A partition covers its graph once, whatever the number of shards and the method, what
\* merge and stats make of it is whole again, and an expansion over the shards finds what
\* one over the whole graph does.
THEOREM ShardsCorrect == ShardsGiven => (Spec => []ShardsCoverOnce)
<1> SUFFICES ASSUME ShardsGiven PROVE Spec => []ShardsCoverOnce
    OBVIOUS
<1>1. Init => ShardsAsked
      BY DEF Init, ShardsGiven, ShardsAsked, Asked, NoAnswer
<1>2. ShardsAsked /\ [Next]_vars => ShardsAsked'
      BY ShardsStep
<1>3. ShardsAsked => ShardsCoverOnce
      BY ShardsAnswered
<1>4. QED BY <1>1, <1>2, <1>3, PTL DEF Spec

-----------------------------------------------------------------------------
(* Samples.                                                                 *)

\* A sample that grows follows the edges.
LEMMA GrownFollows ==
    ASSUME WellBuilt(graph), sample.cfg \in SampleConfigs,
           SampleGrows(graph, sample.cfg, SeedsIn(graph, sample.seeds), sample.state)
    PROVE  SampleFollows
<1> DEFINE s        == sample.state
           cfg      == sample.cfg
           id(i)    == graph.edges.ids[i]
           seeds    == SeedsIn(graph, sample.seeds)
           drawn(k) == {s.dst[j] : j \in 1..k}
           met(i)   == Cardinality({k \in DOMAIN s.dst : s.dst[k] = i}) + (IF id(i) \in seeds THEN 1 ELSE 0)
           W(k)     == Within(graph, cfg.types, cfg.dir, seeds, k)
           most     == IF s.hop <= cfg.hops THEN s.hop ELSE cfg.hops
           less     == [cfg EXCEPT !.hops = Min({s.hop, cfg.hops})]
<1>1. /\ s \in SampleStates(graph) /\ NodesListed(graph, s) /\ RowsLead(graph, cfg, seeds, s)
      /\ ToSet(s.nodes) = StartsOf(graph, seeds) \cup ToSet(s.dst) /\ s.hop \in 1..(cfg.hops + 1)
      /\ \A j \in ToSet(s.nodes) : id(j) \in W(most)
      BY DEF SampleGrows
<1>2. cfg.hops \in Nat /\ cfg.fanOut \in Seq(Nat)
      BY DEF SampleConfigs
<1>3. ASSUME NEW k \in DOMAIN s.rows
      PROVE  /\ Leading(cfg, EdgeRows(graph)[s.rows[k]], id(s.src[k]), id(s.dst[k]))
             /\ id(s.src[k]) \in seeds \/ s.src[k] \in drawn(k - 1)
      BY <1>1 DEF RowsLead
<1>4. ToSet(s.nodes) = {i \in DOMAIN graph.edges.ids : id(i) \in seeds} \cup ToSet(s.dst)
      BY <1>1 DEF StartsOf
<1>5. s.nodes \in Seq(DOMAIN graph.edges.ids) /\ ToSet(s.nodes) \subseteq DOMAIN graph.edges.ids
      /\ \A k \in DOMAIN s.nodes : s.nodes[k] \in DOMAIN graph.edges.ids
  <2> DEFINE U == DOMAIN graph.edges.ids
             q == s.nodes
  <2>1. q \in Seq(U)
        BY <1>1 DEF SampleStates
  <2> HIDE DEF U, q
  <2>2. DOMAIN q = 1..Len(q) /\ \A k \in 1..Len(q) : q[k] \in U
        BY <2>1, LenProperties
  <2>3. QED BY <2>1, <2>2 DEF ToSet, U, q
<1>6. IsInjective(s.nodes) /\ \A k \in DOMAIN s.nodes : IdsOf(graph)[s.nodeRows[k]] = id(s.nodes[k])
  <2>1. ASSUME NEW k \in DOMAIN s.nodes PROVE IdsOf(graph)[s.nodeRows[k]] = id(s.nodes[k])
    <3>1. s.nodes[k] \in DOMAIN graph.edges.ids
          BY <1>5
    <3>2. id(s.nodes[k]) \in AllIds(graph)
          BY <3>1, NumberedNodes
    <3>3. s.nodeRows[k] = graph.nodes.index[id(s.nodes[k])]
          BY <1>1 DEF NodesListed
    <3> DEFINE x == id(s.nodes[k])
    <3>4. x \in AllIds(graph) /\ s.nodeRows[k] = graph.nodes.index[x]
          BY <3>2, <3>3
    <3> HIDE DEF x
    <3>5. x \in DOMAIN graph.nodes.index /\ IdsOf(graph)[graph.nodes.index[x]] = x
          BY <3>4, NodesIndexed
    <3>6. QED BY <3>4, <3>5 DEF x
  <2>2. QED BY <1>1, <2>1 DEF NodesListed
<1>7. {id(i) : i \in ToSet(s.nodes)} \subseteq WithinHops(graph, seeds, less, AllIds(graph))
  <2>1. Min({s.hop, cfg.hops}) = most /\ most \in Nat
        BY <1>1, <1>2, SmallerIs
  <2>2. less.hops = most /\ less.types = cfg.types /\ less.dir = cfg.dir
        BY <2>1 DEF SampleConfigs
  <2> HIDE DEF less, most, seeds
  <2>3. WithinHops(graph, seeds, less, AllIds(graph)) = Within(graph, less.types, less.dir, seeds, less.hops)
        BY <2>1, <2>2, WellBuiltFrame, WithinHopsIs
  <2>4. QED BY <1>1, <2>2, <2>3
<1>8. ASSUME NEW i \in ToSet(s.nodes)
      PROVE  Cardinality({k \in DOMAIN s.src : s.src[k] = i}) <= met(i) * Max({0} \cup ToSet(cfg.fanOut))
  <2> DEFINE u == Used(graph, seeds, s, i)
             e == IF id(i) \in seeds THEN 1 ELSE 0
             b == CountOf(s.frontier, i)
             c == CountOf(s.next, i)
             d == CountOf(s.dst, i)
             n == CountOf(s.src, i)
             m == MostOf(cfg)
  <2>1. u \in Nat /\ n <= u * m
        BY <1>5 DEF SampleGrows
  <2>2. b \in Nat /\ c \in Nat /\ d \in Nat /\ n \in Nat
        BY <1>1, CountNat DEF SampleStates
  <2>3. u = d + e - b - c /\ e \in Nat
        BY DEF Used
  <2>4. m \in Nat
        BY <1>2, LargestIn DEF MostOf
  <2>5. met(i) = d + e
        BY DEF CountOf
  <2>6. Cardinality({k \in DOMAIN s.src : s.src[k] = i}) = n /\ Max({0} \cup ToSet(cfg.fanOut)) = m
        BY DEF CountOf, MostOf
  <2> HIDE DEF u, b, c, d, e, n, m, met
  <2> DEFINE v == d + e
  <2>7. v \in Nat /\ u <= v
        BY ONLY <2>1, <2>2, <2>3
  <2> HIDE DEF v
  <2>8. u * m <= v * m
        BY ONLY <2>1, <2>4, <2>7, TimesMore
  <2>9. u * m \in Nat /\ v * m \in Nat
        BY ONLY <2>1, <2>4, <2>7
  <2> DEFINE um == u * m
             vm == v * m
  <2>10. um \in Nat /\ vm \in Nat /\ um <= vm /\ n <= um
         BY <2>1, <2>8, <2>9
  <2> HIDE DEF um, vm
  <2>11. n <= vm
         BY ONLY <2>2, <2>10
  <2>12. QED BY <2>5, <2>6, <2>11 DEF v, vm
<1>9. seeds = {x \in ToSet(sample.seeds) : InEdges(graph, x)}
      BY DEF SeedsIn
<1> HIDE DEF seeds
<1>10. QED BY <1>3, <1>4, <1>6, <1>7, <1>8, <1>9 DEF SampleFollows

\* What the samples and walks are made from: well-built graphs, lists of seeds, and
\* configurations whose hops and fan-outs are numbers.
SamplingGiven ==
    /\ "sampling" \in DOMAIN GraphsOf /\ \A g \in GraphsOf["sampling"] : WellBuilt(g)
    /\ \A seeds \in Inputs.seeds : IsList(seeds)
    /\ Inputs.samples \subseteq SampleConfigs

\* A sample is one that grows, and a walk is one of those that can be taken.
SampleTaken ==
    /\ sample = [cfg |-> sample.cfg, seeds |-> sample.seeds, state |-> sample.state, status |-> sample.status]
    /\ sample.cfg \in Inputs.samples
    /\ sample.status = "ok" =>
          ConfigError(sample.cfg) = "ok" /\ SampleGrows(graph, sample.cfg, SeedsIn(graph, sample.seeds), sample.state)
SamplesGrow ==
    work = "sampling" =>
        /\ graph \in GraphsOf["sampling"]
        /\ sample # Null => SampleTaken
        /\ Asked("random_walk") =>
              \E x \in Inputs.ids, dir \in {"out", "in", "both", "none"} :
                 /\ answer.args = [start |-> x, dir |-> dir]
                 /\ answer.result \in RandomWalk(graph, x, 3, 1, dir, Inputs.types)

\* Every step keeps to that.
LEMMA SamplesStep == ASSUME SamplingGiven, SamplesGrow, [Next]_vars PROVE SamplesGrow'
<1> SUFFICES ASSUME work' = "sampling" PROVE SamplesGrow'
    BY DEF SamplesGrow
<1>1. /\ work = "sampling" /\ graph' = graph
      /\ (answer' = answer /\ sample' = sample) \/ Begin \/ Draw \/ Walk
  <2>1. CASE MakeGraph
        BY <2>1 DEF MakeGraph, MakeSubgraph, MakeByLabel, MakeByType, MakeKHop, MakeLargest, MakeFiltered,
               MakeSelected, MakeTyped, MakeSliced, MakeGathered, MakeConcat, MakeCombined, MakeFeatures, Make
  <2>2. CASE AskGraph
        BY <2>2 DEF AskGraph,
               AskShortest, AskAStar, AskAllShortest, AskKShortest, AskBfs, AskHasPath, AskNeighbors,
               AskComponents, AskDegrees, AskBetweenness, AskPageRank, AskCommunities, AskPartition, AskDistributed,
               AskMatch, AskAggregate, AskTraverse, AskParse, AskNodes, AskEdges, AskExpand, AskWrite, AskCsv, Ask
  <2>3. CASE Sampled
        BY <2>3 DEF Sampled, Begin, Draw, Walk, Ask, calls
  <2>4. CASE Store \/ LoadPages \/ Serve \/ UNCHANGED vars
        BY <2>4 DEF Store, LoadPages, Serve, vars, calls
  <2>5. QED BY <2>1, <2>2, <2>3, <2>4 DEF Next
<1>2. graph \in GraphsOf["sampling"] /\ WellBuilt(graph)
      BY <1>1 DEF SamplesGrow, SamplingGiven
<1>3. CASE answer' = answer /\ sample' = sample
      BY <1>1, <1>2, <1>3 DEF SamplesGrow, SampleTaken, Asked
<1>4. CASE Begin
  <2>1. PICK seeds \in Inputs.seeds, cfg \in Inputs.samples :
            sample' = [cfg |-> cfg, seeds |-> seeds, state |-> SampleStart(graph, seeds, cfg).value,
                       status |-> SampleStart(graph, seeds, cfg).status]
        BY <1>4 DEF Begin
  <2>2. answer' = answer
        BY <1>4 DEF Begin, calls
  <2> DEFINE s == SampleStart(graph, seeds, cfg)
  <2>3. cfg \in SampleConfigs /\ IsList(seeds)
        BY DEF SamplingGiven
  <2>4. PICK m \in Nat : DOMAIN seeds = 1..m
        BY <2>3 DEF IsList
  <2>5. s.status = "ok" => ConfigError(cfg) = "ok" /\ SampleGrows(graph, cfg, SeedsIn(graph, seeds), s.value)
        BY <1>2, <2>3, <2>4, SampleStarts
  <2> HIDE DEF s
  <2>6. sample'.cfg = cfg /\ sample'.seeds = seeds /\ sample'.state = s.value /\ sample'.status = s.status
        BY <2>1 DEF s
  <2>7. SampleTaken'
        BY <1>1, <2>1, <2>5, <2>6 DEF SampleTaken, s
  <2>8. QED BY <1>1, <1>2, <2>2, <2>7 DEF SamplesGrow, Asked
<1>5. CASE Draw
  <2>1. /\ sample # Null /\ sample.status = "ok" /\ ~SampleDone(sample.state, sample.cfg)
        /\ answer' = answer
        BY <1>5 DEF Draw, calls
  <2>2. PICK s \in SampleSteps(graph, sample.cfg, sample.state) : sample' = [sample EXCEPT !.state = s]
        BY <1>5 DEF Draw
  <2>3. SampleTaken
        BY <1>1, <2>1 DEF SamplesGrow
  <2>4. /\ sample.cfg \in Inputs.samples /\ sample.cfg \in SampleConfigs /\ ConfigError(sample.cfg) = "ok"
        /\ SampleGrows(graph, sample.cfg, SeedsIn(graph, sample.seeds), sample.state)
        BY <2>1, <2>3 DEF SampleTaken, SamplingGiven
  <2>5. SampleGrows(graph, sample.cfg, SeedsIn(graph, sample.seeds), s)
        BY <1>2, <2>1, <2>2, <2>4, SampleStepGrows
  <2>6. sample' = [cfg |-> sample.cfg, seeds |-> sample.seeds, state |-> s, status |-> sample.status]
        BY <2>2, <2>3 DEF SampleTaken
  <2>7. SampleTaken'
        BY <1>1, <2>4, <2>5, <2>6 DEF SampleTaken
  <2>8. QED BY <1>1, <1>2, <2>1, <2>7 DEF SamplesGrow, Asked
<1>6. CASE Walk
  <2>1. PICK x \in Inputs.ids, dir \in {"out", "in", "both", "none"} :
             \E walks \in RandomWalk(graph, x, 3, 1, dir, Inputs.types) :
                sample' = sample /\ answer' = [call |-> "random_walk", args |-> [start |-> x, dir |-> dir], result |-> walks]
        BY <1>6 DEF Walk, Ask
  <2>2. PICK walks \in RandomWalk(graph, x, 3, 1, dir, Inputs.types) :
             sample' = sample /\ answer' = [call |-> "random_walk", args |-> [start |-> x, dir |-> dir], result |-> walks]
        BY <2>1
  <2>3. /\ answer'.args = [start |-> x, dir |-> dir]
        /\ answer'.result \in RandomWalk(graph, x, 3, 1, dir, Inputs.types)
        BY <2>2
  <2>4. SampleTaken' <=> SampleTaken
        BY <1>1, <2>2 DEF SampleTaken
  <2>5. QED BY <1>1, <1>2, <2>2, <2>3, <2>4 DEF SamplesGrow
<1>7. QED BY <1>1, <1>3, <1>4, <1>5, <1>6

\* What was asked of a walk is what is returned.
LEMMA WalkAnswered ==
    ASSUME WellBuilt(graph), NEW x, NEW dir, answer.args = [start |-> x, dir |-> dir],
           NEW walk \in Walks(graph, x, 3, dir, Inputs.types)
    PROVE  WalkFollows(walk)
<1> DEFINE cfg   == [types |-> Inputs.types, dir |-> answer.args.dir]
           ids   == graph.edges.ids
           start == LocalOf(ids, x)
<1>1. cfg.types = Inputs.types /\ cfg.dir = dir /\ answer.args.start = x
      OBVIOUS
<1>2. CASE ~InEdges(graph, x)
      BY <1>1, <1>2 DEF Walks, WalkFollows
<1>3. CASE InEdges(graph, x)
  <2>1. PICK n \in Nat : DOMAIN ids = 1..n /\ IsInjective(ids)
        BY BuiltParts DEF WellBuilt
  <2>2. start \in DOMAIN ids /\ ids[start] = x
    <3>1. x \in ToSet(ids)
          BY <1>3 DEF InEdges
    <3> HIDE DEF ids
    <3>2. QED BY <2>1, <3>1, LocalIs
  <2>3. walk \in WalksFrom(graph, start, 3, cfg.dir, cfg.types)
        BY <1>1, <1>3 DEF Walks
  <2> HIDE DEF start, cfg
  <2>4. WalkGoes(graph, cfg, start, 3, walk)
        BY <2>2, <2>3, WalksGo
  <2>5. /\ walk[1] = start /\ Len(walk) \in 1..4
        /\ \A k \in 1..(Len(walk) - 1) :
              \E r \in ToSet(EdgeRows(graph)) : Leading(cfg, r, ids[walk[k]], ids[walk[k + 1]])
        /\ Len(walk) = 4 \/ ~LeadsOn(graph, cfg, walk[Len(walk)])
        BY <2>4 DEF WalkGoes
  <2>6. walk # <<>>
        BY <2>5
  <2>7. QED BY <1>1, <2>2, <2>5, <2>6 DEF WalkFollows, LeadsOn, Last, cfg
<1>4. QED BY <1>2, <1>3

\* A sample that grows, and a walk that was taken, follow the edges.
LEMMA SamplesAnswered == ASSUME SamplingGiven, SamplesGrow PROVE SamplesFollowEdges
<1> SUFFICES ASSUME work = "sampling" PROVE SamplesFollowEdges
    BY DEF SamplesFollowEdges
<1>1. WellBuilt(graph)
      BY DEF SamplesGrow, SamplingGiven
<1>2. ASSUME sample # Null, sample.status = "ok" PROVE SampleFollows
  <2>1. SampleTaken
        BY <1>2 DEF SamplesGrow
  <2>2. /\ sample.cfg \in SampleConfigs
        /\ SampleGrows(graph, sample.cfg, SeedsIn(graph, sample.seeds), sample.state)
        BY <1>2, <2>1 DEF SampleTaken, SamplingGiven
  <2>3. QED BY <1>1, <2>2, GrownFollows
<1>3. ASSUME Asked("random_walk"), Succeeded, NEW j \in DOMAIN answer.result.value
      PROVE  WalkFollows(answer.result.value[j])
  <2>1. PICK x \in Inputs.ids, dir \in {"out", "in", "both", "none"} :
             /\ answer.args = [start |-> x, dir |-> dir]
             /\ answer.result \in RandomWalk(graph, x, 3, 1, dir, Inputs.types)
        BY <1>3 DEF SamplesGrow
  <2>2. HasNode(graph.nodes, x)
        BY <1>3, <2>1 DEF RandomWalk, Succeeded, Err
  <2>3. PICK w \in [1..1 -> Walks(graph, x, 3, dir, Inputs.types)] : answer.result = Ok(w)
        BY <2>1, <2>2 DEF RandomWalk
  <2>4. answer.result.value = w
        BY <2>3 DEF Ok
  <2>5. answer.result.value[j] \in Walks(graph, x, 3, dir, Inputs.types)
        BY <1>3, <2>3, <2>4
  <2>6. QED BY <1>1, <2>1, <2>5, WalkAnswered
<1>4. QED BY <1>2, <1>3 DEF SamplesFollowEdges

\* A sample follows the edges as it was asked to, whatever the draws: its rows lead on from
\* its seeds and from what was drawn, its nodes are those, once, with their rows, so near and
\* drawn from no more often than the fan-outs allow; and so does a random walk.
THEOREM SamplesCorrect == SamplingGiven => (Spec => []SamplesFollowEdges)
<1> SUFFICES ASSUME SamplingGiven PROVE Spec => []SamplesFollowEdges
    OBVIOUS
<1>1. Init => SamplesGrow
      BY DEF Init, SamplingGiven, SamplesGrow, Asked, NoAnswer
<1>2. SamplesGrow /\ [Next]_vars => SamplesGrow'
      BY SamplesStep
<1>3. SamplesGrow => SamplesFollowEdges
      BY SamplesAnswered
<1>4. QED BY <1>1, <1>2, <1>3, PTL DEF Spec
================================================================================
