---------------------------- MODULE FlightProofs ----------------------------
(***************************************************************************)
(* Proofs about Flight, for any clients, names of graphs, tokens and       *)
(* graphs, and any number of rows in a message.                            *)
(***************************************************************************)
EXTENDS Flight, SequenceTheorems, TLAPS

\* A client, and the program that runs the service, has its graph as a GraphFrame:
\* GraphFrame::new refuses an edge without its nodes.
GraphsAreFrames ==
    \A g \in Graphs :
        /\ g = [nodes |-> g.nodes, edges |-> g.edges]
        /\ \A r \in DOMAIN g.edges : ToSet(g.edges[r]) \subseteq ToSet(g.nodes)

-----------------------------------------------------------------------------
(* The inductive invariant. *)

\* The rows that may be stored: those of a graph, or of their first message.
StoredRows == {<<>>} \cup UNION {{g.nodes, g.edges, FirstMessage(g.nodes), FirstMessage(g.edges)} : g \in Graphs}
Halves     == [write : Nat, rows : StoredRows]
Pairs      == [nodes : Halves, edges : Halves]

\* The client is between the two calls of an upload.
InUpload(c) == clients[c].doing = "writing"

Typed ==
    /\ graphs \in [GraphNames -> Pairs] /\ staged \in [GraphNames -> Pairs]
    /\ DOMAIN clients = Clients
    /\ Len(writes) \in Nat /\ writes \in Seq({Received(g) : g \in Graphs} \cup Graphs)
    /\ \A c \in Clients : InUpload(c) =>
          clients[c].name \in GraphNames /\ clients[c].graph \in Graphs /\ clients[c].write \in 1..Len(writes)

\* The uploads are numbered as they begin.
NumberedHalves ==
    \A n \in GraphNames :
        /\ graphs[n].nodes.write <= Len(writes) /\ graphs[n].edges.write <= Len(writes)
        /\ staged[n].nodes.write <= Len(writes) /\ staged[n].edges.write <= Len(writes)

\* Each upload is of one client, and its edges are nowhere before it sends them.
EdgesComeLast ==
    \A c \in Clients : InUpload(c) =>
        /\ \A d \in Clients : InUpload(d) /\ clients[d].write = clients[c].write => d = c
        /\ \A n \in GraphNames : graphs[n].edges.write # clients[c].write /\ staged[n].edges.write # clients[c].write

\* The halves of what is stored fit, and none of them is staged.
StoredApart(n) ==
    /\ Fits(graphs[n])
    /\ staged[n].nodes # NoHalf => staged[n].nodes # graphs[n].nodes
    /\ staged[n].edges # NoHalf => staged[n].edges # graphs[n].edges

\* What is stored is of one upload.
StoredWhole(n) ==
    Known(n) =>
        /\ graphs[n].nodes.write = graphs[n].edges.write
        /\ graphs[n].nodes.write \in 1..Len(writes)
        /\ writes[graphs[n].nodes.write] = [nodes |-> graphs[n].nodes.rows, edges |-> graphs[n].edges.rows]

\* One upload at most is under way, whose nodes are all that is staged.
StagedAlone(n) ==
    /\ staged[n].edges = NoHalf
    /\ \A c, d \in Writing(n) : c = d
    /\ Writing(n) = {} => staged[n].nodes.write = 0
    /\ \A c \in Writing(n) :
          /\ staged[n].nodes = [write |-> clients[c].write, rows |-> FirstMessage(clients[c].graph.nodes)]
          /\ writes[clients[c].write] = Received(clients[c].graph)

IndFlight ==
    /\ Typed /\ NumberedHalves /\ EdgesComeLast
    /\ \A n \in GraphNames : StoredApart(n) /\ (n \notin disturbed => StoredWhole(n) /\ StagedAlone(n))

LEMMA IndFlightIsEnough == IndFlight => UploadsArriveWhole
<1> SUFFICES ASSUME IndFlight, NEW n \in GraphNames
             PROVE  /\ n \notin disturbed =>
                          /\ Known(n) => /\ graphs[n].nodes.write = graphs[n].edges.write
                                         /\ writes[graphs[n].nodes.write] =
                                                [nodes |-> graphs[n].nodes.rows, edges |-> graphs[n].edges.rows]
                          /\ staged[n].edges = NoHalf
                          /\ staged[n].nodes.write \in {clients[c].write : c \in Writing(n)} \cup {0}
                    /\ Fits(graphs[n])
                    /\ \A side \in {"nodes", "edges"} :
                          staged[n][side] # NoHalf => staged[n][side] # graphs[n][side]
    BY DEF UploadsArriveWhole
<1>1. StoredApart(n) /\ (n \notin disturbed => StoredWhole(n) /\ StagedAlone(n))
      BY DEF IndFlight
<1>2. \A side \in {"nodes", "edges"} : staged[n][side] # NoHalf => staged[n][side] # graphs[n][side]
      BY <1>1 DEF StoredApart
<1>3. ASSUME n \notin disturbed PROVE staged[n].nodes.write \in {clients[c].write : c \in Writing(n)} \cup {0}
  <2>1. CASE Writing(n) = {}
        BY <1>1, <1>3, <2>1 DEF StagedAlone
  <2>2. CASE Writing(n) # {}
    <3>1. PICK c \in Writing(n) : TRUE
          BY <2>2
    <3>2. staged[n].nodes = [write |-> clients[c].write, rows |-> FirstMessage(clients[c].graph.nodes)]
          BY <1>1, <1>3, <3>1 DEF StagedAlone
    <3>3. QED BY <3>1, <3>2
  <2>3. QED BY <2>1, <2>2
<1>4. QED BY <1>1, <1>2, <1>3 DEF StoredApart, StoredWhole, StagedAlone

LEMMA InitFlight == Init => IndFlight
<1> SUFFICES ASSUME Init PROVE IndFlight
    OBVIOUS
<1>1. /\ graphs = [n \in GraphNames |-> NoGraph] /\ staged = [n \in GraphNames |-> NoGraph]
      /\ clients = [c \in Clients |-> Idle("")] /\ writes = <<>> /\ disturbed = {}
      BY DEF Init
<1>2. NoHalf \in Halves /\ NoGraph \in Pairs /\ NoGraph.nodes = NoHalf /\ NoGraph.edges = NoHalf
      /\ NoHalf.write = 0 /\ NoHalf.rows = <<>>
      BY DEF NoHalf, NoGraph, Halves, Pairs, StoredRows
<1>3. \A c \in Clients : ~InUpload(c)
      BY <1>1 DEF Idle, InUpload
<1>4. Len(writes) = 0 /\ writes \in Seq({Received(g) : g \in Graphs} \cup Graphs)
      BY <1>1, EmptySeq
<1>5. Typed
      BY <1>1, <1>2, <1>3, <1>4 DEF Typed
<1>6. NumberedHalves /\ EdgesComeLast
  <2>1. \A n \in GraphNames : graphs[n] = NoGraph /\ staged[n] = NoGraph
        BY <1>1
  <2>2. NoGraph.nodes.write = 0 /\ NoGraph.edges.write = 0
        BY <1>2
  <2>3. NumberedHalves
        BY <1>4, <2>1, <2>2 DEF NumberedHalves
  <2>4. EdgesComeLast
        BY <1>3 DEF EdgesComeLast
  <2>5. QED BY <2>3, <2>4
<1>7. ASSUME NEW n \in GraphNames PROVE StoredApart(n) /\ StoredWhole(n) /\ StagedAlone(n)
  <2>1. graphs[n] = NoGraph /\ staged[n] = NoGraph
        BY <1>1
  <2>2. Writing(n) = {}
        BY <1>3 DEF Writing, InUpload
  <2>3. StoredApart(n)
        BY <1>2, <2>1 DEF StoredApart, Fits
  <2>4. QED BY <1>2, <2>1, <2>2, <2>3 DEF StoredWhole, StagedAlone, Known
<1>8. QED BY <1>5, <1>6, <1>7 DEF IndFlight

-----------------------------------------------------------------------------
(* The service. *)

OtherSide(side) == IF side = "nodes" THEN "edges" ELSE "nodes"

\* What a call of do_put stages or stores.
LEMMA PutIs ==
    ASSUME Typed, NEW c \in Clients, NEW n \in GraphNames, NEW side \in {"nodes", "edges"},
           NEW write \in Nat, NEW rows, FirstMessage(rows) \in StoredRows,
           Put(c, n, side, write, rows)
    PROVE  LET entry == Entry(n, side, write, rows)
               answer == PutAnswer(c, entry, rows)
           IN /\ entry \in Pairs
              /\ entry[side] = [write |-> write, rows |-> FirstMessage(rows)]
              /\ entry[OtherSide(side)] = staged[n][OtherSide(side)]
              /\ \/ answer \notin {"ok", "dangling_edge"} /\ graphs' = graphs /\ staged' = staged
                 \/ /\ answer = IF Complete(entry) /\ ~Fits(entry) THEN "dangling_edge" ELSE "ok"
                    /\ staged' = [staged EXCEPT ![n] = IF Complete(entry) /\ Fits(entry) THEN NoGraph ELSE entry]
                    /\ graphs' = [graphs EXCEPT ![n] = IF Complete(entry) /\ Fits(entry) THEN entry ELSE graphs[n]]
<1> DEFINE entry == Entry(n, side, write, rows)
<1>1. staged[n] \in Pairs
      BY DEF Typed
<1>2. [write |-> write, rows |-> FirstMessage(rows)] \in Halves
      BY DEF Halves
<1>3. entry = [staged[n] EXCEPT ![side] = [write |-> write, rows |-> FirstMessage(rows)]]
      BY DEF Entry
<1>4. /\ entry \in Pairs /\ entry[side] = [write |-> write, rows |-> FirstMessage(rows)]
      /\ entry[OtherSide(side)] = staged[n][OtherSide(side)]
  <2>1. CASE side = "nodes"
        BY <1>1, <1>2, <1>3, <2>1 DEF Pairs, OtherSide
  <2>2. CASE side = "edges"
        BY <1>1, <1>2, <1>3, <2>2 DEF Pairs, OtherSide
  <2>3. QED BY <2>1, <2>2
<1> HIDE DEF entry
<1>5. CASE PutError(c, rows) # "ok"
  <2>1. graphs' = graphs /\ staged' = staged
        BY <1>5 DEF Put, entry
  <2>2. PutAnswer(c, entry, rows) \notin {"ok", "dangling_edge"}
        BY <1>5 DEF PutAnswer, PutError
  <2>3. QED BY <1>4, <2>1, <2>2 DEF entry
<1>6. CASE PutError(c, rows) = "ok"
  <2>1. /\ staged' = [staged EXCEPT ![n] = Unstaged(entry)]
        /\ graphs' = [graphs EXCEPT ![n] = IF Complete(entry) /\ Fits(entry) THEN entry ELSE graphs[n]]
        BY <1>6 DEF Put, entry
  <2>2. PutAnswer(c, entry, rows) = IF Complete(entry) /\ ~Fits(entry) THEN "dangling_edge" ELSE "ok"
        BY <1>6 DEF PutAnswer
  <2>3. QED BY <1>4, <2>1, <2>2 DEF entry, Unstaged
<1>7. QED BY <1>5, <1>6

-----------------------------------------------------------------------------
(* The steps. *)

\* A client goes on to something that is no upload.
GoesOn(c) ==
    /\ DOMAIN clients' = Clients /\ ~InUpload(c)'
    /\ \A d \in Clients \ {c} : clients'[d] = clients[d]

\* The service has what it had, or without some graphs.
LosesGraphs ==
    /\ graphs' = [n \in GraphNames |-> graphs'[n]] /\ \A n \in GraphNames : graphs'[n] \in {graphs[n], NoGraph}
    /\ staged' = staged

\* Uploads that have begun keep their numbers.
WritesGrow ==
    /\ writes' \in Seq({Received(g) : g \in Graphs} \cup Graphs) /\ Len(writes') \in Nat /\ Len(writes) <= Len(writes')
    /\ \A k \in 1..Len(writes) : writes'[k] = writes[k]

LEMMA WritesStay == ASSUME IndFlight, writes' = writes PROVE WritesGrow
<1>1. writes \in Seq({Received(g) : g \in Graphs} \cup Graphs) /\ Len(writes) \in Nat
      BY DEF IndFlight, Typed
<1>2. QED BY <1>1 DEF WritesGrow

LEMMA WritesAppend ==
    ASSUME IndFlight, NEW w \in {Received(g) : g \in Graphs} \cup Graphs, writes' = Append(writes, w)
    PROVE  WritesGrow /\ Len(writes') = Len(writes) + 1 /\ writes'[Len(writes) + 1] = w
<1> DEFINE S == {Received(g) : g \in Graphs} \cup Graphs
<1>1. writes \in Seq(S) /\ Len(writes) \in Nat /\ w \in S
      BY DEF IndFlight, Typed
<1>2. WritesGrow <=> /\ writes' \in Seq(S) /\ Len(writes') \in Nat /\ Len(writes) <= Len(writes')
                     /\ \A k \in 1..Len(writes) : writes'[k] = writes[k]
      BY DEF WritesGrow
<1> HIDE DEF S
<1>3. /\ writes' \in Seq(S) /\ Len(writes') = Len(writes) + 1
      /\ \A i \in 1..Len(writes) : writes'[i] = writes[i]
      /\ writes'[Len(writes) + 1] = w
      BY <1>1, AppendProperties
<1>4. QED BY <1>1, <1>2, <1>3

\* A name that no upload has come to, or left.
LEMMA SameUpload ==
    ASSUME IndFlight, WritesGrow, NEW n \in GraphNames, StoredWhole(n), StagedAlone(n),
           graphs'[n] \in {graphs[n], NoGraph}, staged'[n] = staged[n],
           Writing(n)' = Writing(n), \A d \in Writing(n) : clients'[d] = clients[d]
    PROVE  StoredWhole(n)' /\ StagedAlone(n)'
<1>1. /\ Len(writes) \in Nat /\ Len(writes') \in Nat /\ Len(writes) <= Len(writes')
      /\ \A k \in 1..Len(writes) : writes'[k] = writes[k]
      BY DEF WritesGrow, IndFlight, Typed
<1>2. 1..Len(writes) \subseteq 1..Len(writes')
      BY <1>1
<1>3. Known(n)' => Known(n) /\ graphs'[n] = graphs[n]
      BY DEF Known
<1>4. \A d \in Writing(n) : clients[d].write \in 1..Len(writes)
      BY DEF IndFlight, Typed, Writing, InUpload
<1>5. \A d \in Writing(n) : writes'[clients[d].write] = writes[clients[d].write]
      BY <1>1, <1>4
<1>6. StoredWhole(n)'
      BY <1>1, <1>2, <1>3 DEF StoredWhole
<1>7. StagedAlone(n)'
      BY <1>5 DEF StagedAlone
<1>8. QED BY <1>6, <1>7

\* A client that goes on to something that is no upload, with the service as it was
\* or without a graph: a client that is cut short in an upload disturbs the name.
LEMMA OtherStep ==
    ASSUME IndFlight, NEW c \in Clients, GoesOn(c), LosesGraphs, WritesGrow,
           disturbed \subseteq disturbed', InUpload(c) => clients[c].name \in disturbed'
    PROVE  IndFlight'
<1>1. Typed /\ NumberedHalves /\ EdgesComeLast /\ DOMAIN clients = Clients
      BY DEF IndFlight, Typed
<1>2. /\ staged' = staged /\ graphs' = [n \in GraphNames |-> graphs'[n]]
      /\ \A n \in GraphNames : graphs'[n] \in {graphs[n], NoGraph}
      /\ DOMAIN clients' = Clients /\ \A d \in Clients \ {c} : clients'[d] = clients[d]
      BY DEF GoesOn, LosesGraphs
<1>2a. /\ writes' \in Seq({Received(g) : g \in Graphs} \cup Graphs) /\ Len(writes') \in Nat /\ Len(writes) \in Nat
       /\ Len(writes) <= Len(writes') /\ \A k \in 1..Len(writes) : writes'[k] = writes[k]
       BY DEF WritesGrow, IndFlight, Typed
<1>2b. 1..Len(writes) \subseteq 1..Len(writes')
       BY <1>2a
<1>3. \A d \in Clients : InUpload(d)' <=> InUpload(d) /\ d # c
      BY <1>2 DEF InUpload, GoesOn
<1>4. NoGraph \in Pairs /\ NoGraph.nodes = NoHalf /\ NoGraph.edges = NoHalf /\ NoHalf.write = 0 /\ NoHalf.rows = <<>>
      BY DEF NoGraph, NoHalf, Pairs, Halves, StoredRows
<1>5. Typed'
  <2>1. \A n \in GraphNames : graphs'[n] \in Pairs
        BY <1>1, <1>2, <1>4 DEF Typed
  <2>2. graphs' \in [GraphNames -> Pairs]
        BY <1>2, <2>1
  <2>3. ASSUME NEW d \in Clients, InUpload(d)'
        PROVE  clients'[d].name \in GraphNames /\ clients'[d].graph \in Graphs /\ clients'[d].write \in 1..Len(writes')
    <3>1. clients'[d] = clients[d] /\ InUpload(d)
          BY <1>2, <1>3, <2>3
    <3>2. QED BY <1>1, <1>2b, <3>1 DEF Typed
  <2>4. QED BY <1>1, <1>2, <1>2a, <2>2, <2>3 DEF Typed
<1>6. NumberedHalves'
  <2> SUFFICES ASSUME NEW n \in GraphNames
               PROVE  /\ graphs'[n].nodes.write <= Len(writes') /\ graphs'[n].edges.write <= Len(writes')
                      /\ staged[n].nodes.write <= Len(writes') /\ staged[n].edges.write <= Len(writes')
      BY <1>2 DEF NumberedHalves
  <2>0. \A k \in Nat : k <= Len(writes) => k <= Len(writes')
        BY <1>2a
  <2>1. /\ graphs[n].nodes.write <= Len(writes) /\ graphs[n].edges.write <= Len(writes)
        /\ staged[n].nodes.write <= Len(writes) /\ staged[n].edges.write <= Len(writes)
        BY <1>1 DEF NumberedHalves
  <2>2. graphs[n] \in Pairs /\ staged[n] \in Pairs
        BY <1>1 DEF Typed
  <2>3. /\ graphs[n].nodes.write \in Nat /\ graphs[n].edges.write \in Nat
        /\ staged[n].nodes.write \in Nat /\ staged[n].edges.write \in Nat
        BY <2>2 DEF Pairs, Halves
  <2>4. CASE graphs'[n] = graphs[n]
        BY <2>0, <2>1, <2>3, <2>4
  <2>5. CASE graphs'[n] = NoGraph
        BY <1>2a, <1>4, <2>0, <2>1, <2>3, <2>5
  <2>6. QED BY <1>2, <2>4, <2>5
<1>7. EdgesComeLast'
  <2> SUFFICES ASSUME NEW d \in Clients, InUpload(d)'
               PROVE  /\ \A e \in Clients : InUpload(e)' /\ clients'[e].write = clients'[d].write => e = d
                      /\ \A n \in GraphNames :
                            graphs'[n].edges.write # clients'[d].write /\ staged[n].edges.write # clients'[d].write
      BY <1>2 DEF EdgesComeLast
  <2>1. InUpload(d) /\ clients'[d] = clients[d] /\ clients[d].write \in 1..Len(writes)
        BY <1>1, <1>2, <1>3 DEF Typed
  <2>2. \A e \in Clients : InUpload(e)' /\ clients'[e].write = clients'[d].write => e = d
        BY <1>1, <1>2, <1>3, <2>1 DEF EdgesComeLast
  <2>3. ASSUME NEW n \in GraphNames
        PROVE  graphs'[n].edges.write # clients'[d].write /\ staged[n].edges.write # clients'[d].write
    <3>1. graphs[n].edges.write # clients[d].write /\ staged[n].edges.write # clients[d].write
          BY <1>1, <2>1 DEF EdgesComeLast
    <3>2. clients[d].write # 0
          BY <2>1
    <3>3. QED BY <1>2, <1>4, <2>1, <3>1, <3>2
  <2>4. QED BY <2>2, <2>3
<1>8. ASSUME NEW n \in GraphNames PROVE StoredApart(n)'
  <2>1. StoredApart(n)
        BY DEF IndFlight
  <2>2. CASE graphs'[n] = graphs[n]
        BY <1>2, <2>1, <2>2 DEF StoredApart, Fits
  <2>3. CASE graphs'[n] = NoGraph
        BY <1>2, <1>4, <2>1, <2>3 DEF StoredApart, Fits
  <2>4. QED BY <1>2, <2>2, <2>3
<1>9. ASSUME NEW n \in GraphNames, n \notin disturbed' PROVE StoredWhole(n)' /\ StagedAlone(n)'
  <2>1. StoredWhole(n) /\ StagedAlone(n)
        BY <1>9 DEF IndFlight
  <2>2. ~(InUpload(c) /\ clients[c].name = n)
        BY <1>9
  <2>3. \A d : d \in Writing(n)' <=> d \in Writing(n)
        BY <1>2, <1>3, <2>2 DEF Writing, InUpload
  <2>4. Writing(n)' = Writing(n) /\ \A d \in Writing(n) : clients'[d] = clients[d]
        BY <1>2, <2>2, <2>3 DEF Writing, InUpload
  <2>5. QED BY <1>2, <2>1, <2>4, SameUpload
<1>10. QED BY <1>5, <1>6, <1>7, <1>8, <1>9 DEF IndFlight

\* Stop, do_get, expand, get_flight_info and delete_graph.
LEMMA OtherSteps ==
    ASSUME IndFlight, NEW c \in Clients,
           \/ Stop(c) \/ ExpandEdges(c)
           \/ \E n \in GraphNames : \/ \E side \in {"nodes", "edges"} : Load(c, n, side)
                                    \/ ExpandNodes(c, n) \/ Delete(c, n) \/ Describe(c, n)
    PROVE  IndFlight'
<1>1. /\ graphs = [n \in GraphNames |-> graphs[n]] /\ DOMAIN clients = Clients
      /\ DOMAIN graphs = GraphNames
      BY DEF IndFlight, Typed
<1>2. ASSUME NEW to, to.doing # "writing", clients' = [clients EXCEPT ![c] = to] PROVE GoesOn(c)
      BY <1>1, <1>2 DEF GoesOn, InUpload
<1>3. ASSUME NEW answer, Answer(c, answer) PROVE GoesOn(c)
  <2>1. Idle(answer).doing # "writing" /\ clients' = [clients EXCEPT ![c] = Idle(answer)]
        BY <1>3 DEF Idle, Answer
  <2>2. QED BY <1>2, <2>1
<1>4. /\ graphs' = graphs /\ staged' = staged => LosesGraphs
      /\ writes' = writes => WritesGrow
      BY <1>1, WritesStay DEF LosesGraphs
<1>5. CASE Stop(c)
  <2>1. GoesOn(c) /\ LosesGraphs /\ WritesGrow
        BY <1>3, <1>4, <1>5 DEF Stop
  <2>2. disturbed \subseteq disturbed' /\ (InUpload(c) => clients[c].name \in disturbed')
        BY <1>5 DEF Stop, InUpload
  <2>3. QED BY <2>1, <2>2, OtherStep
<1>6. ASSUME ~InUpload(c), GoesOn(c), LosesGraphs, WritesGrow, disturbed' = disturbed PROVE IndFlight'
  <2>1. disturbed \subseteq disturbed' /\ (InUpload(c) => clients[c].name \in disturbed')
        BY <1>6
  <2>2. QED BY <1>6, <2>1, OtherStep
<1>7. CASE ExpandEdges(c)
  <2>1. ~InUpload(c) /\ GoesOn(c) /\ LosesGraphs /\ WritesGrow /\ disturbed' = disturbed
        BY <1>3, <1>4, <1>7 DEF ExpandEdges, InUpload
  <2>2. QED BY <1>6, <2>1
<1>8. ASSUME NEW n \in GraphNames, NEW side \in {"nodes", "edges"}, Load(c, n, side) PROVE IndFlight'
  <2>1. ~InUpload(c) /\ GoesOn(c) /\ LosesGraphs /\ WritesGrow /\ disturbed' = disturbed
        BY <1>3, <1>4, <1>8 DEF Load, InUpload
  <2>2. QED BY <1>6, <2>1
<1>9. ASSUME NEW n \in GraphNames, ExpandNodes(c, n) PROVE IndFlight'
  <2>1. \A answer : Idle(answer).doing # "writing"
        BY DEF Idle
  <2>2. [Idle("") EXCEPT !.doing = "expanding", !.name = n].doing # "writing"
        BY DEF Idle
  <2>3. GoesOn(c)
    <3>1. CASE GetAnswer(c, n, "nodes") = "ok"
          BY <1>2, <1>9, <2>2, <3>1 DEF ExpandNodes
    <3>2. CASE GetAnswer(c, n, "nodes") # "ok"
          BY <1>2, <1>9, <2>1, <3>2 DEF ExpandNodes
    <3>3. QED BY <3>1, <3>2
  <2>4. ~InUpload(c) /\ LosesGraphs /\ WritesGrow /\ disturbed' = disturbed
        BY <1>4, <1>9 DEF ExpandNodes, InUpload
  <2>5. QED BY <1>6, <2>3, <2>4
<1>10. ASSUME NEW n \in GraphNames, Delete(c, n) PROVE IndFlight'
  <2>1. /\ ~InUpload(c) /\ GoesOn(c) /\ staged' = staged /\ writes' = writes /\ disturbed' = disturbed
        /\ graphs' = graphs \/ graphs' = [graphs EXCEPT ![n] = NoGraph]
        BY <1>3, <1>10 DEF Delete, InUpload
  <2>2. LosesGraphs /\ WritesGrow
        BY <1>1, <1>4, <2>1 DEF LosesGraphs
  <2>3. QED BY <1>6, <2>1, <2>2
<1>11. ASSUME NEW n \in GraphNames, Describe(c, n) PROVE IndFlight'
  <2>1. ~InUpload(c) /\ GoesOn(c) /\ LosesGraphs /\ WritesGrow /\ disturbed' = disturbed
        BY <1>3, <1>4, <1>11 DEF Describe, InUpload
  <2>2. QED BY <1>6, <2>1
<1>12. QED BY <1>5, <1>7, <1>8, <1>9, <1>10, <1>11

\* A half that comes is one that is not stored yet: what is then stored or staged.
LEMMA PutStep ==
    ASSUME IndFlight, WritesGrow, NEW n \in GraphNames, NEW side \in {"nodes", "edges"}, NEW entry \in Pairs,
           entry[OtherSide(side)] = staged[n][OtherSide(side)],
           entry[side].write \in 1..Len(writes'), entry[side] # graphs[n][side],
           staged' = [staged EXCEPT ![n] = IF Complete(entry) /\ Fits(entry) THEN NoGraph ELSE entry],
           graphs' = [graphs EXCEPT ![n] = IF Complete(entry) /\ Fits(entry) THEN entry ELSE graphs[n]]
    PROVE  /\ graphs' \in [GraphNames -> Pairs] /\ staged' \in [GraphNames -> Pairs]
           /\ NumberedHalves'
           /\ \A m \in GraphNames : StoredApart(m)'
           /\ \A m \in GraphNames \ {n} : graphs'[m] = graphs[m] /\ staged'[m] = staged[m]
           /\ \A m \in GraphNames : /\ graphs'[m].edges.write \in {graphs[m].edges.write, entry.edges.write}
                                    /\ staged'[m].edges.write \in {staged[m].edges.write, entry.edges.write, 0}
<1>1. /\ graphs \in [GraphNames -> Pairs] /\ staged \in [GraphNames -> Pairs] /\ Len(writes) \in Nat
      /\ NumberedHalves /\ \A m \in GraphNames : StoredApart(m)
      BY DEF IndFlight, Typed
<1>2. NoGraph \in Pairs /\ NoGraph.nodes = NoHalf /\ NoGraph.edges = NoHalf /\ NoHalf.write = 0 /\ NoHalf.rows = <<>>
      BY DEF NoGraph, NoHalf, Pairs, Halves, StoredRows
<1>3. graphs' \in [GraphNames -> Pairs] /\ staged' \in [GraphNames -> Pairs]
      BY <1>1, <1>2
<1>4. \A m \in GraphNames \ {n} : graphs'[m] = graphs[m] /\ staged'[m] = staged[m]
      BY <1>1
<1>5. \/ graphs'[n] = entry /\ staged'[n] = NoGraph /\ Fits(entry)
      \/ graphs'[n] = graphs[n] /\ staged'[n] = entry
      BY <1>1
<1>6. Len(writes') \in Nat /\ Len(writes) <= Len(writes')
      BY DEF WritesGrow
<1>7. entry.nodes \in Halves /\ entry.edges \in Halves /\ \A m \in GraphNames :
          /\ graphs[m].nodes \in Halves /\ graphs[m].edges \in Halves
          /\ staged[m].nodes \in Halves /\ staged[m].edges \in Halves
      BY <1>1 DEF Pairs
<1>8. \A h \in Halves : h.write \in Nat
      BY DEF Halves
<1>9. \/ side = "nodes" /\ entry.edges = staged[n].edges /\ entry.nodes.write \in 1..Len(writes') /\ entry.nodes # graphs[n].nodes
      \/ side = "edges" /\ entry.nodes = staged[n].nodes /\ entry.edges.write \in 1..Len(writes') /\ entry.edges # graphs[n].edges
      BY DEF OtherSide
<1>10. entry.nodes.write <= Len(writes') /\ entry.edges.write <= Len(writes')
  <2>1. staged[n].nodes.write <= Len(writes) /\ staged[n].edges.write <= Len(writes)
        BY <1>1 DEF NumberedHalves
  <2>2. staged[n].nodes.write \in Nat /\ staged[n].edges.write \in Nat
        BY <1>7, <1>8
  <2>3. staged[n].nodes.write <= Len(writes') /\ staged[n].edges.write <= Len(writes')
        BY <1>1, <1>6, <2>1, <2>2
  <2>4. \A k \in 1..Len(writes') : k <= Len(writes')
        OBVIOUS
  <2>5. QED BY <1>9, <2>3, <2>4
<1>11. NumberedHalves'
  <2> SUFFICES ASSUME NEW m \in GraphNames
               PROVE  /\ graphs'[m].nodes.write <= Len(writes') /\ graphs'[m].edges.write <= Len(writes')
                      /\ staged'[m].nodes.write <= Len(writes') /\ staged'[m].edges.write <= Len(writes')
      BY DEF NumberedHalves
  <2>1. /\ graphs[m].nodes.write <= Len(writes) /\ graphs[m].edges.write <= Len(writes)
        /\ staged[m].nodes.write <= Len(writes) /\ staged[m].edges.write <= Len(writes)
        BY <1>1 DEF NumberedHalves
  <2>2. /\ graphs[m].nodes.write \in Nat /\ graphs[m].edges.write \in Nat
        /\ staged[m].nodes.write \in Nat /\ staged[m].edges.write \in Nat
        BY <1>7, <1>8
  <2>3. /\ graphs[m].nodes.write <= Len(writes') /\ graphs[m].edges.write <= Len(writes')
        /\ staged[m].nodes.write <= Len(writes') /\ staged[m].edges.write <= Len(writes')
        BY <1>1, <1>6, <2>1, <2>2
  <2>4. 0 <= Len(writes')
        BY <1>6
  <2>5. CASE m # n
        BY <1>4, <2>3, <2>5
  <2>6. CASE m = n
        BY <1>2, <1>5, <1>10, <2>3, <2>4, <2>6
  <2>7. QED BY <2>5, <2>6
<1>12. ASSUME NEW m \in GraphNames PROVE StoredApart(m)'
  <2>1. StoredApart(m)
        BY <1>1
  <2>2. CASE m # n
        BY <1>4, <2>1, <2>2 DEF StoredApart, Fits
  <2>3. CASE m = n /\ graphs'[n] = entry /\ staged'[n] = NoGraph /\ Fits(entry)
        BY <1>2, <2>3 DEF StoredApart, Fits
  <2>4. CASE m = n /\ graphs'[n] = graphs[n] /\ staged'[n] = entry
        BY <1>9, <2>1, <2>4 DEF StoredApart, Fits
  <2>5. QED BY <1>5, <2>2, <2>3, <2>4
<1>13. ASSUME NEW m \in GraphNames
       PROVE  /\ graphs'[m].edges.write \in {graphs[m].edges.write, entry.edges.write}
              /\ staged'[m].edges.write \in {staged[m].edges.write, entry.edges.write, 0}
       BY <1>2, <1>4, <1>5
<1>14. QED BY <1>3, <1>4, <1>11, <1>12, <1>13

\* The second call of an upload, do_put of the edges.
LEMMA WriteEdgesStep ==
    ASSUME IndFlight, NEW c \in Clients, WriteEdges(c)
    PROVE  IndFlight'
<1> DEFINE w      == clients[c]
           n      == w.name
           half   == [write |-> w.write, rows |-> FirstMessage(w.graph.edges)]
           entry  == Entry(n, "edges", w.write, w.graph.edges)
           answer == PutAnswer(c, entry, w.graph.edges)
<1>1. /\ InUpload(c) /\ Put(c, n, "edges", w.write, w.graph.edges) /\ Answer(c, answer)
      /\ disturbed' = IF answer = "ok" THEN disturbed ELSE disturbed \cup {n}
      /\ writes' = writes
      BY DEF WriteEdges, InUpload
<1>2. Typed /\ NumberedHalves /\ EdgesComeLast /\ DOMAIN clients = Clients /\ Len(writes) \in Nat
      BY DEF IndFlight, Typed
<1>3. n \in GraphNames /\ w.graph \in Graphs /\ w.write \in 1..Len(writes) /\ w.write \in Nat
      BY <1>1, <1>2 DEF Typed
<1>4. FirstMessage(w.graph.edges) \in StoredRows
      BY <1>3 DEF StoredRows
<1>5. WritesGrow
      BY <1>1, WritesStay
<1>6. GoesOn(c)
      BY <1>1, <1>2 DEF GoesOn, Answer, Idle, InUpload
<1>7. \A d \in Clients : (InUpload(d)' <=> InUpload(d) /\ d # c) /\ (d # c => clients'[d] = clients[d])
      BY <1>6 DEF GoesOn, InUpload
<1>8. /\ entry \in Pairs /\ entry.edges = half /\ entry.nodes = staged[n].nodes
      /\ \/ answer \notin {"ok", "dangling_edge"} /\ graphs' = graphs /\ staged' = staged
         \/ /\ answer = IF Complete(entry) /\ ~Fits(entry) THEN "dangling_edge" ELSE "ok"
            /\ staged' = [staged EXCEPT ![n] = IF Complete(entry) /\ Fits(entry) THEN NoGraph ELSE entry]
            /\ graphs' = [graphs EXCEPT ![n] = IF Complete(entry) /\ Fits(entry) THEN entry ELSE graphs[n]]
      BY <1>1, <1>2, <1>3, <1>4, PutIs DEF OtherSide
<1>9. half # NoHalf /\ half.write = w.write /\ half.rows = FirstMessage(w.graph.edges)
      BY <1>3 DEF NoHalf
<1> HIDE DEF entry, half, answer
<1>10. CASE answer \notin {"ok", "dangling_edge"} /\ graphs' = graphs /\ staged' = staged
  <2>1. LosesGraphs
        BY <1>2, <1>10 DEF LosesGraphs, Typed
  <2>2. disturbed \subseteq disturbed' /\ n \in disturbed'
        BY <1>1, <1>10
  <2>3. QED BY <1>5, <1>6, <2>1, <2>2, OtherStep
<1>11. CASE /\ answer = IF Complete(entry) /\ ~Fits(entry) THEN "dangling_edge" ELSE "ok"
            /\ staged' = [staged EXCEPT ![n] = IF Complete(entry) /\ Fits(entry) THEN NoGraph ELSE entry]
            /\ graphs' = [graphs EXCEPT ![n] = IF Complete(entry) /\ Fits(entry) THEN entry ELSE graphs[n]]
  <2>1. graphs[n].edges # half
        BY <1>1, <1>2, <1>3, <1>9 DEF EdgesComeLast
  <2>2. /\ graphs' \in [GraphNames -> Pairs] /\ staged' \in [GraphNames -> Pairs]
        /\ NumberedHalves'
        /\ \A m \in GraphNames : StoredApart(m)'
        /\ \A m \in GraphNames \ {n} : graphs'[m] = graphs[m] /\ staged'[m] = staged[m]
        /\ \A m \in GraphNames : /\ graphs'[m].edges.write \in {graphs[m].edges.write, w.write}
                                 /\ staged'[m].edges.write \in {staged[m].edges.write, w.write, 0}
    <3>1. "edges" \in {"nodes", "edges"} /\ entry["edges"] = half /\ entry[OtherSide("edges")] = staged[n][OtherSide("edges")]
          BY <1>8 DEF OtherSide
    <3>2. entry["edges"].write \in 1..Len(writes') /\ entry["edges"] # graphs[n]["edges"] /\ entry.edges.write = w.write
          BY <1>1, <1>3, <1>8, <1>9, <2>1
    <3>3. /\ graphs' \in [GraphNames -> Pairs] /\ staged' \in [GraphNames -> Pairs]
          /\ NumberedHalves'
          /\ \A m \in GraphNames : StoredApart(m)'
          /\ \A m \in GraphNames \ {n} : graphs'[m] = graphs[m] /\ staged'[m] = staged[m]
          /\ \A m \in GraphNames : /\ graphs'[m].edges.write \in {graphs[m].edges.write, entry.edges.write}
                                   /\ staged'[m].edges.write \in {staged[m].edges.write, entry.edges.write, 0}
          BY <1>3, <1>5, <1>8, <1>11, <3>1, <3>2, PutStep
    <3>4. QED BY <3>2, <3>3
  <2>3. Typed'
    <3>1. DOMAIN clients' = Clients
          BY <1>6 DEF GoesOn
    <3>2. QED BY <1>1, <1>2, <1>7, <2>2, <3>1 DEF Typed
  <2>4. EdgesComeLast'
    <3> SUFFICES ASSUME NEW d \in Clients, InUpload(d)'
                 PROVE  /\ \A e \in Clients : InUpload(e)' /\ clients'[e].write = clients'[d].write => e = d
                        /\ \A m \in GraphNames :
                              graphs'[m].edges.write # clients'[d].write /\ staged'[m].edges.write # clients'[d].write
        BY DEF EdgesComeLast
    <3>1. InUpload(d) /\ d # c /\ clients'[d] = clients[d]
          BY <1>7
    <3>2. clients[d].write # w.write /\ clients[d].write # 0
          BY <1>1, <1>2, <3>1 DEF EdgesComeLast, Typed
    <3>3. \A e \in Clients : InUpload(e)' /\ clients'[e].write = clients'[d].write => e = d
          BY <1>2, <1>7, <3>1 DEF EdgesComeLast
    <3>4. \A m \in GraphNames : graphs[m].edges.write # clients[d].write /\ staged[m].edges.write # clients[d].write
          BY <1>2, <3>1 DEF EdgesComeLast
    <3>5. QED BY <2>2, <3>1, <3>2, <3>3, <3>4
  <2>5. ASSUME NEW m \in GraphNames, m \notin disturbed' PROVE StoredWhole(m)' /\ StagedAlone(m)'
    <3>1. m \notin disturbed /\ (m = n => answer = "ok")
          BY <1>1, <2>5
    <3>2. StoredWhole(m) /\ StagedAlone(m)
          BY <3>1 DEF IndFlight
    <3>3. \A d : d \in Writing(m)' <=> d \in Writing(m) /\ d # c
          BY <1>7 DEF Writing, InUpload
    <3>4. CASE m # n
      <4>1. c \notin Writing(m)
            BY <3>4 DEF Writing
      <4>2. Writing(m)' = Writing(m) /\ \A d \in Writing(m) : clients'[d] = clients[d]
            BY <1>7, <3>3, <4>1 DEF Writing
      <4>3. graphs'[m] \in {graphs[m], NoGraph} /\ staged'[m] = staged[m]
            BY <2>2, <3>4
      <4>4. QED BY <1>5, <3>2, <4>2, <4>3, SameUpload
    <3>5. CASE m = n
      <4>1. c \in Writing(n)
            BY <1>1 DEF Writing, InUpload
      <4>2. /\ staged[n].nodes = [write |-> w.write, rows |-> FirstMessage(w.graph.nodes)]
            /\ writes[w.write] = Received(w.graph)
            /\ \A d \in Writing(n) : d = c
            BY <3>2, <3>5, <4>1 DEF StagedAlone
      <4>3. entry.nodes # NoHalf /\ entry.edges # NoHalf
            BY <1>3, <1>8, <1>9, <4>2 DEF NoHalf
      <4>4. Complete(entry) /\ Fits(entry)
            BY <1>11, <3>1, <3>5, <4>3 DEF Complete
      <4>5. graphs'[m] = entry /\ staged'[m] = NoGraph
            BY <1>2, <1>3, <1>11, <3>5, <4>4 DEF Typed
      <4>6. StoredWhole(m)'
        <5>1. graphs'[m].nodes.write = w.write /\ graphs'[m].edges.write = w.write
              BY <1>8, <1>9, <4>2, <4>5
        <5>2. graphs'[m].nodes.rows = FirstMessage(w.graph.nodes) /\ graphs'[m].edges.rows = FirstMessage(w.graph.edges)
              BY <1>8, <1>9, <4>2, <4>5
        <5>3. writes'[w.write] = [nodes |-> FirstMessage(w.graph.nodes), edges |-> FirstMessage(w.graph.edges)]
              BY <1>1, <4>2 DEF Received
        <5>4. QED BY <1>1, <1>3, <5>1, <5>2, <5>3 DEF StoredWhole
      <4>7. Writing(m)' = {}
            BY <3>3, <3>5, <4>2
      <4>8. StagedAlone(m)'
            BY <4>5, <4>7 DEF StagedAlone, NoGraph, NoHalf
      <4>9. QED BY <4>6, <4>8
    <3>6. QED BY <3>4, <3>5
  <2>6. QED BY <2>2, <2>3, <2>4, <2>5 DEF IndFlight
<1>12. QED BY <1>8, <1>10, <1>11

\* The first call of an upload, do_put of the nodes.
LEMMA WriteNodesStep ==
    ASSUME IndFlight, NEW c \in Clients, NEW n \in GraphNames, NEW g \in Graphs, WriteNodes(c, n, g)
    PROVE  IndFlight'
<1> DEFINE k      == Len(writes) + 1
           half   == [write |-> k, rows |-> FirstMessage(g.nodes)]
           entry  == Entry(n, "nodes", k, g.nodes)
           answer == PutAnswer(c, entry, g.nodes)
<1>1. /\ ~InUpload(c) /\ Put(c, n, "nodes", k, g.nodes)
      /\ writes' = Append(writes, Received(g))
      /\ clients' = [clients EXCEPT ![c] =
              IF answer # "ok" THEN Idle(answer)
              ELSE [doing |-> "writing", name |-> n, graph |-> g, write |-> k, answer |-> ""]]
      /\ disturbed' = IF answer = "dangling_edge" \/ (answer = "ok" /\ Writing(n) # {}) THEN disturbed \cup {n} ELSE disturbed
      BY DEF WriteNodes, InUpload
<1>2. Typed /\ NumberedHalves /\ EdgesComeLast /\ DOMAIN clients = Clients /\ Len(writes) \in Nat
      BY DEF IndFlight, Typed
<1>3. k \in Nat /\ k # 0 /\ k \notin 1..Len(writes) /\ k > Len(writes)
      BY <1>2
<1>4. FirstMessage(g.nodes) \in StoredRows
      BY DEF StoredRows
<1>5. WritesGrow /\ Len(writes') = k /\ writes'[k] = Received(g)
      BY <1>1, WritesAppend
<1>6. /\ DOMAIN clients' = Clients /\ \A d \in Clients \ {c} : clients'[d] = clients[d]
      /\ answer # "ok" => ~InUpload(c)'
      /\ answer = "ok" => InUpload(c)' /\ clients'[c].name = n /\ clients'[c].graph = g /\ clients'[c].write = k
  <2>1. DOMAIN clients' = Clients /\ \A d \in Clients \ {c} : clients'[d] = clients[d]
        BY <1>1, <1>2
  <2>2. CASE answer # "ok"
        BY <1>1, <1>2, <2>1, <2>2 DEF InUpload, Idle
  <2>3. CASE answer = "ok"
        BY <1>1, <1>2, <2>1, <2>3 DEF InUpload
  <2>4. QED BY <2>1, <2>2, <2>3
<1>7. \A d \in Clients \ {c} : InUpload(d)' <=> InUpload(d)
      BY <1>6 DEF InUpload
<1>8. /\ entry \in Pairs /\ entry.nodes = half /\ entry.edges = staged[n].edges
      /\ \/ answer \notin {"ok", "dangling_edge"} /\ graphs' = graphs /\ staged' = staged
         \/ /\ answer = IF Complete(entry) /\ ~Fits(entry) THEN "dangling_edge" ELSE "ok"
            /\ staged' = [staged EXCEPT ![n] = IF Complete(entry) /\ Fits(entry) THEN NoGraph ELSE entry]
            /\ graphs' = [graphs EXCEPT ![n] = IF Complete(entry) /\ Fits(entry) THEN entry ELSE graphs[n]]
  <2>1. k \in Nat /\ "nodes" \in {"nodes", "edges"} /\ OtherSide("nodes") = "edges"
        BY <1>3 DEF OtherSide
  <2>2. Typed /\ Put(c, n, "nodes", k, g.nodes)
        BY <1>1, <1>2
  <2> HIDE DEF k
  <2>3. QED BY <1>4, <2>1, <2>2, PutIs
<1>9. half # NoHalf /\ half.write = k
      BY <1>3 DEF NoHalf
<1> HIDE DEF entry, answer
<1>10. CASE answer \notin {"ok", "dangling_edge"} /\ graphs' = graphs /\ staged' = staged
  <2>1. LosesGraphs
        BY <1>2, <1>10 DEF LosesGraphs, Typed
  <2>2. disturbed \subseteq disturbed' /\ GoesOn(c)
        BY <1>1, <1>6, <1>10 DEF GoesOn
  <2>3. QED BY <1>1, <1>5, <2>1, <2>2, OtherStep
<1>11. CASE /\ answer = IF Complete(entry) /\ ~Fits(entry) THEN "dangling_edge" ELSE "ok"
            /\ staged' = [staged EXCEPT ![n] = IF Complete(entry) /\ Fits(entry) THEN NoGraph ELSE entry]
            /\ graphs' = [graphs EXCEPT ![n] = IF Complete(entry) /\ Fits(entry) THEN entry ELSE graphs[n]]
  <2>1. graphs[n].nodes # half
    <3>1. graphs[n].nodes.write <= Len(writes)
          BY <1>2 DEF NumberedHalves
    <3>2. graphs[n].nodes.write \in Nat
          BY <1>2 DEF Typed, Pairs, Halves
    <3>3. QED BY <1>2, <1>9, <3>1, <3>2
  <2>2. /\ graphs' \in [GraphNames -> Pairs] /\ staged' \in [GraphNames -> Pairs]
        /\ NumberedHalves'
        /\ \A m \in GraphNames : StoredApart(m)'
        /\ \A m \in GraphNames \ {n} : graphs'[m] = graphs[m] /\ staged'[m] = staged[m]
        /\ \A m \in GraphNames : /\ graphs'[m].edges.write \in {graphs[m].edges.write, entry.edges.write}
                                 /\ staged'[m].edges.write \in {staged[m].edges.write, entry.edges.write, 0}
    <3>1. "nodes" \in {"nodes", "edges"} /\ entry["nodes"] = half /\ entry[OtherSide("nodes")] = staged[n][OtherSide("nodes")]
          BY <1>8 DEF OtherSide
    <3>2. entry["nodes"].write \in 1..Len(writes') /\ entry["nodes"] # graphs[n]["nodes"]
          BY <1>2, <1>3, <1>5, <1>8, <1>9, <2>1
    <3> HIDE DEF half, k
    <3>3. QED BY <1>5, <1>8, <1>11, <3>1, <3>2, PutStep
  <2>3. Typed'
    <3>1. ASSUME NEW d \in Clients, InUpload(d)'
          PROVE  clients'[d].name \in GraphNames /\ clients'[d].graph \in Graphs /\ clients'[d].write \in 1..Len(writes')
      <4>1. CASE d = c
            BY <1>3, <1>5, <1>6, <3>1, <4>1
      <4>2. CASE d # c
        <5>1. InUpload(d) /\ clients'[d] = clients[d]
              BY <1>6, <1>7, <3>1, <4>2
        <5>2. clients[d].write \in 1..Len(writes')
              BY <1>2, <1>5, <5>1 DEF Typed
        <5>3. QED BY <1>2, <5>1, <5>2 DEF Typed
      <4>3. QED BY <4>1, <4>2
    <3>2. Len(writes') \in Nat /\ writes' \in Seq({Received(h) : h \in Graphs} \cup Graphs)
          BY <1>5 DEF WritesGrow
    <3>3. QED BY <1>6, <2>2, <3>1, <3>2 DEF Typed
  <2>4. EdgesComeLast'
    <3> SUFFICES ASSUME NEW d \in Clients, InUpload(d)'
                 PROVE  /\ \A e \in Clients : InUpload(e)' /\ clients'[e].write = clients'[d].write => e = d
                        /\ \A m \in GraphNames :
                              graphs'[m].edges.write # clients'[d].write /\ staged'[m].edges.write # clients'[d].write
        BY DEF EdgesComeLast
    <3>1. \A e \in Clients : InUpload(e)' =>
              \/ e = c /\ clients'[e].write = k
              \/ e # c /\ InUpload(e) /\ clients'[e] = clients[e] /\ clients[e].write \in 1..Len(writes)
          BY <1>2, <1>6, <1>7 DEF Typed
    <3>2. \A e \in Clients : InUpload(e)' /\ clients'[e].write = clients'[d].write => e = d
          BY <1>2, <1>3, <3>1 DEF EdgesComeLast
    <3>3. \A m \in GraphNames : /\ graphs[m].edges.write # clients'[d].write /\ staged[m].edges.write # clients'[d].write
                                /\ clients'[d].write # 0
      <4> TAKE m \in GraphNames
      <4>1. graphs[m].edges.write <= Len(writes) /\ staged[m].edges.write <= Len(writes)
            BY <1>2 DEF NumberedHalves
      <4>2. graphs[m] \in Pairs /\ staged[m] \in Pairs
            BY <1>2 DEF Typed
      <4>3. graphs[m].edges.write \in Nat /\ staged[m].edges.write \in Nat
            BY <4>2 DEF Pairs, Halves
      <4>4. CASE d = c
            BY <1>2, <3>1, <4>1, <4>3, <4>4
      <4>5. CASE d # c
            BY <1>2, <3>1, <4>5 DEF EdgesComeLast
      <4>6. QED BY <4>4, <4>5
    <3>4. entry.edges.write = staged[n].edges.write
          BY <1>8
    <3>5. QED BY <2>2, <3>2, <3>3, <3>4
  <2>5. ASSUME NEW m \in GraphNames, m \notin disturbed' PROVE StoredWhole(m)' /\ StagedAlone(m)'
    <3>1. m \notin disturbed /\ (m = n => answer = "ok" /\ Writing(n) = {})
          BY <1>1, <1>11, <2>5
    <3>2. StoredWhole(m) /\ StagedAlone(m)
          BY <3>1 DEF IndFlight
    <3>3. \A d : d \in Writing(m)' <=> d \in Writing(m) \/ (d = c /\ m = n /\ answer = "ok")
      <4>1. c \notin Writing(m)
            BY <1>1 DEF Writing, InUpload
      <4>2. c \in Writing(m)' <=> m = n /\ answer = "ok"
            BY <1>6 DEF Writing, InUpload
      <4>3. \A d : d # c => (d \in Writing(m)' <=> d \in Writing(m))
            BY <1>6, <1>7 DEF Writing, InUpload
      <4>4. QED BY <4>1, <4>2, <4>3
    <3>4. CASE m # n
      <4>1. Writing(m)' = Writing(m)
            BY <3>3, <3>4
      <4>2. \A d \in Writing(m) : clients'[d] = clients[d]
            BY <1>1, <1>6 DEF Writing, InUpload
      <4>3. graphs'[m] \in {graphs[m], NoGraph} /\ staged'[m] = staged[m]
            BY <2>2, <3>4
      <4>4. QED BY <1>5, <3>2, <4>1, <4>2, <4>3, SameUpload
    <3>5. CASE m = n
      <4>1. staged[n].edges = NoHalf
            BY <3>2, <3>5 DEF StagedAlone
      <4>2. ~Complete(entry)
            BY <1>8, <4>1 DEF Complete
      <4>3. graphs'[n] = graphs[n] /\ staged'[n] = entry
            BY <1>2, <1>11, <4>2 DEF Typed
      <4>4. StoredWhole(n)'
        <5>1. Known(n)' => Known(n)
              BY <4>3 DEF Known
        <5>2. /\ Len(writes') \in Nat /\ Len(writes) <= Len(writes')
              /\ \A j \in 1..Len(writes) : writes'[j] = writes[j]
              BY <1>5 DEF WritesGrow
        <5>3. 1..Len(writes) \subseteq 1..Len(writes')
              BY <1>2, <5>2
        <5>4. QED BY <3>2, <3>5, <4>3, <5>1, <5>2, <5>3 DEF StoredWhole
      <4>5. Writing(n)' = {c}
            BY <3>1, <3>3, <3>5
      <4>6. /\ staged'[n].edges = NoHalf
            /\ staged'[n].nodes = [write |-> clients'[c].write, rows |-> FirstMessage(clients'[c].graph.nodes)]
            /\ writes'[clients'[c].write] = Received(clients'[c].graph)
            BY <1>5, <1>6, <1>8, <3>1, <3>5, <4>1, <4>3
      <4>7. StagedAlone(n)'
            BY <4>5, <4>6 DEF StagedAlone
      <4>8. QED BY <3>5, <4>4, <4>7
    <3>6. QED BY <3>4, <3>5
  <2>6. QED BY <2>2, <2>3, <2>4, <2>5 DEF IndFlight
<1>12. QED BY <1>8, <1>10, <1>11

\* insert_graph, which leaves what is staged.
LEMMA InsertStep ==
    ASSUME GraphsAreFrames, IndFlight, NEW n \in GraphNames, NEW g \in Graphs, Insert(n, g)
    PROVE  IndFlight'
<1> DEFINE k     == Len(writes) + 1
           entry == [nodes |-> [write |-> k, rows |-> g.nodes], edges |-> [write |-> k, rows |-> g.edges]]
<1>1. /\ writes' = Append(writes, g) /\ graphs' = [graphs EXCEPT ![n] = entry]
      /\ staged' = staged /\ clients' = clients /\ disturbed' = disturbed
      BY DEF Insert
<1>2. Typed /\ NumberedHalves /\ EdgesComeLast /\ DOMAIN clients = Clients /\ Len(writes) \in Nat
      BY DEF IndFlight, Typed
<1>3. k \in Nat /\ k # 0 /\ k > Len(writes)
      BY <1>2
<1>4. WritesGrow /\ Len(writes') = k /\ writes'[k] = g
      BY <1>1, WritesAppend
<1>5. entry \in Pairs
      BY <1>3 DEF Pairs, Halves, StoredRows
<1>6. /\ graphs' \in [GraphNames -> Pairs] /\ graphs'[n] = entry
      /\ \A m \in GraphNames \ {n} : graphs'[m] = graphs[m]
      BY <1>1, <1>2, <1>5 DEF Typed
<1>7. entry.nodes.write = k /\ entry.edges.write = k /\ entry.nodes.rows = g.nodes /\ entry.edges.rows = g.edges
      OBVIOUS
<1> HIDE DEF entry
<1>8. \A d : InUpload(d)' <=> InUpload(d)
      BY <1>1 DEF InUpload
<1>9. Typed'
  <2>1. \A d \in Clients : InUpload(d) => clients[d].write \in 1..Len(writes')
        BY <1>2, <1>4 DEF Typed
  <2>2. Len(writes') \in Nat /\ writes' \in Seq({Received(h) : h \in Graphs} \cup Graphs)
        BY <1>4 DEF WritesGrow
  <2>3. QED BY <1>1, <1>2, <1>6, <1>8, <2>1, <2>2 DEF Typed
<1>10. \A m \in GraphNames :
           /\ graphs[m].nodes.write \in 0..Len(writes) /\ graphs[m].edges.write \in 0..Len(writes)
           /\ staged[m].nodes.write \in 0..Len(writes) /\ staged[m].edges.write \in 0..Len(writes)
  <2> TAKE m \in GraphNames
  <2>1. /\ graphs[m].nodes.write <= Len(writes) /\ graphs[m].edges.write <= Len(writes)
        /\ staged[m].nodes.write <= Len(writes) /\ staged[m].edges.write <= Len(writes)
        BY <1>2 DEF NumberedHalves
  <2>2. graphs[m] \in Pairs /\ staged[m] \in Pairs
        BY <1>2 DEF Typed
  <2>3. /\ graphs[m].nodes.write \in Nat /\ graphs[m].edges.write \in Nat
        /\ staged[m].nodes.write \in Nat /\ staged[m].edges.write \in Nat
        BY <2>2 DEF Pairs, Halves
  <2>4. QED BY <1>2, <2>1, <2>3
<1>11. NumberedHalves'
  <2> SUFFICES ASSUME NEW m \in GraphNames
               PROVE  /\ graphs'[m].nodes.write <= Len(writes') /\ graphs'[m].edges.write <= Len(writes')
                      /\ staged[m].nodes.write <= Len(writes') /\ staged[m].edges.write <= Len(writes')
      BY <1>1 DEF NumberedHalves
  <2>1. \A j \in 0..Len(writes) : j <= k
        BY <1>2
  <2>2. k <= k
        BY <1>3
  <2> HIDE DEF k
  <2>3. CASE m = n
        BY <1>4, <1>6, <1>7, <1>10, <2>1, <2>2, <2>3
  <2>4. CASE m # n
        BY <1>4, <1>6, <1>10, <2>1, <2>4
  <2>5. QED BY <2>3, <2>4
<1>12. EdgesComeLast'
  <2> SUFFICES ASSUME NEW d \in Clients, InUpload(d)
               PROVE  /\ \A e \in Clients : InUpload(e) /\ clients[e].write = clients[d].write => e = d
                      /\ \A m \in GraphNames :
                            graphs'[m].edges.write # clients[d].write /\ staged[m].edges.write # clients[d].write
      BY <1>1, <1>8 DEF EdgesComeLast
  <2>1. clients[d].write # k
        BY <1>2, <1>3 DEF Typed
  <2>2. /\ \A e \in Clients : InUpload(e) /\ clients[e].write = clients[d].write => e = d
        /\ \A m \in GraphNames : graphs[m].edges.write # clients[d].write /\ staged[m].edges.write # clients[d].write
        BY <1>2 DEF EdgesComeLast
  <2> HIDE DEF k
  <2>3. QED BY <1>6, <1>7, <2>1, <2>2
<1>13. ASSUME NEW m \in GraphNames PROVE StoredApart(m)'
  <2>1. StoredApart(m)
        BY DEF IndFlight
  <2>2. CASE m # n
        BY <1>1, <1>6, <2>1, <2>2 DEF StoredApart, Fits
  <2>3. CASE m = n
    <3>1. \A r \in DOMAIN g.edges : ToSet(g.edges[r]) \subseteq ToSet(g.nodes)
          BY DEF GraphsAreFrames
    <3>2. Fits(entry)
          BY <1>7, <3>1 DEF Fits
    <3>3. staged[n].nodes # entry.nodes /\ staged[n].edges # entry.edges
      <4>1. staged[n].nodes.write # k /\ staged[n].edges.write # k
            BY <1>2, <1>10
      <4>2. QED BY <1>7, <4>1
    <3>4. QED BY <1>1, <1>6, <2>3, <3>2, <3>3 DEF StoredApart, Fits
  <2>4. QED BY <2>2, <2>3
<1>14. ASSUME NEW m \in GraphNames, m \notin disturbed' PROVE StoredWhole(m)' /\ StagedAlone(m)'
  <2>1. StoredWhole(m) /\ StagedAlone(m)
        BY <1>1, <1>14 DEF IndFlight
  <2>2. Writing(m)' = Writing(m)
        BY <1>1 DEF Writing
  <2>3. CASE m # n
        BY <1>1, <1>4, <1>6, <2>1, <2>2, <2>3, SameUpload
  <2>4. CASE m = n
    <3>1. g = [nodes |-> g.nodes, edges |-> g.edges]
          BY DEF GraphsAreFrames
    <3>2. k \in 1..Len(writes')
          BY <1>3, <1>4
    <3>3. StoredWhole(m)'
      <4> HIDE DEF k
      <4>1. QED BY <1>4, <1>6, <1>7, <2>4, <3>1, <3>2 DEF StoredWhole
    <3>4. \A d \in Writing(m) : clients[d].write \in 1..Len(writes)
          BY <1>2 DEF Typed, Writing, InUpload
    <3>5. \A d \in Writing(m) : writes'[clients[d].write] = writes[clients[d].write]
          BY <1>4, <3>4 DEF WritesGrow
    <3>6. StagedAlone(m)'
          BY <1>1, <2>1, <2>2, <3>5 DEF StagedAlone
    <3>7. QED BY <3>3, <3>6
  <2>5. QED BY <2>3, <2>4
<1>15. QED BY <1>9, <1>11, <1>12, <1>13, <1>14 DEF IndFlight

-----------------------------------------------------------------------------
(* What an upload comes to. *)

LEMMA FlightInvariant ==
    ASSUME GraphsAreFrames
    PROVE  Spec => []IndFlight
<1>1. Init => IndFlight
      BY InitFlight
<1>2. IndFlight /\ [Next]_vars => IndFlight'
  <2> SUFFICES ASSUME IndFlight, [Next]_vars PROVE IndFlight'
      OBVIOUS
  <2>1. ASSUME NEW c \in Clients, WriteEdges(c) PROVE IndFlight'
        BY <2>1, WriteEdgesStep
  <2>2. ASSUME NEW c \in Clients,
               \/ Stop(c) \/ ExpandEdges(c)
               \/ \E n \in GraphNames : \/ \E side \in {"nodes", "edges"} : Load(c, n, side)
                                        \/ ExpandNodes(c, n) \/ Delete(c, n) \/ Describe(c, n)
        PROVE  IndFlight'
        BY <2>2, OtherSteps
  <2>3. ASSUME NEW c \in Clients, NEW n \in GraphNames, NEW g \in Graphs, WriteNodes(c, n, g) PROVE IndFlight'
        BY <2>3, WriteNodesStep
  <2>4. ASSUME NEW n \in GraphNames, NEW g \in Graphs, Insert(n, g) PROVE IndFlight'
        BY <2>4, InsertStep
  <2>5. CASE UNCHANGED vars
    <3>1. graphs' = graphs /\ staged' = staged /\ clients' = clients /\ writes' = writes /\ disturbed' = disturbed
          BY <2>5 DEF vars
    <3>2. \A c : InUpload(c)' <=> InUpload(c)
          BY <3>1 DEF InUpload
    <3>3. Typed' /\ NumberedHalves' /\ EdgesComeLast'
          BY <3>1, <3>2 DEF IndFlight, Typed, NumberedHalves, EdgesComeLast
    <3>4. ASSUME NEW n \in GraphNames PROVE StoredApart(n)' /\ (n \notin disturbed' => StoredWhole(n)' /\ StagedAlone(n)')
      <4>1. StoredApart(n) /\ (n \notin disturbed => StoredWhole(n) /\ StagedAlone(n))
            BY DEF IndFlight
      <4>2. QED BY <3>1, <4>1 DEF StoredApart, Fits, StoredWhole, Known, StagedAlone, Writing
    <3>5. QED BY <3>3, <3>4 DEF IndFlight
  <2>6. QED BY <2>1, <2>2, <2>3, <2>4, <2>5 DEF Next
<1>3. QED BY <1>1, <1>2, PTL DEF Spec

\* What do_put of the Flight service makes of uploads in two calls: a stored graph is
\* of one upload unless uploads of its name have met or been cut short, its halves fit
\* in any case, and nothing that is stored is still staged.
THEOREM UploadsCorrect == GraphsAreFrames => (Spec => []UploadsArriveWhole)
<1> SUFFICES ASSUME GraphsAreFrames PROVE Spec => []UploadsArriveWhole
    OBVIOUS
<1>1. QED BY IndFlightIsEnough, FlightInvariant, PTL

=============================================================================
