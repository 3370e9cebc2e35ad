-------------------------------- MODULE Flight --------------------------------
(***************************************************************************)
(* The Flight service, which keeps graphs by name, and its clients.  A     *)
(* graph is uploaded in two calls, nodes and then edges, which the service *)
(* stages by the name of the graph, whoever sends them; an expansion is    *)
(* asked for in two calls as well.  A call is one step of the service,     *)
(* which stages and stores under one lock; between the calls of a client   *)
(* come those of others, and a client may stop.                            *)
(*                                                                         *)
(* A half is [write, rows]: the number of the upload that it is of, and    *)
(* its rows, which are ids for nodes and pairs of ids for edges.           *)
(***************************************************************************)
EXTENDS Naturals, FiniteSets, SequencesExt

CONSTANTS
    GraphNames,    \* the names of graphs
    Clients,
    Token,         \* what each client sends to be let in
    Secret,        \* what the service wants to be sent, NoToken for nothing
    NoToken,
    Graphs,        \* the graphs that clients write: [nodes, edges]
    MessageRows,   \* rows that the encoder puts in a message
    MaxWrites      \* bound: uploads

VARIABLES
    graphs,      \* what is stored for each name: [nodes, edges]
    staged,      \* the halves that wait for the other one, for each name
    clients,     \* what each client is about: [doing, name, graph, write, answer]
    writes,      \* what each upload should leave: [nodes, edges], as rows
    disturbed    \* history: names whose uploads have overlapped or been cut short

vars == <<graphs, staged, clients, writes, disturbed>>

NoHalf  == [write |-> 0, rows |-> <<>>]
NoGraph == [nodes |-> NoHalf, edges |-> NoHalf]
Idle(answer) == [doing |-> "nothing", name |-> "", write |-> 0, graph |-> <<>>, answer |-> answer]
Writing(n)   == {c \in Clients : clients[c].doing = "writing" /\ clients[c].name = n}

-----------------------------------------------------------------------------
(* What goes over the wire.  The encoder, which is not the program's, makes *)
(* no message of a batch without rows and several of a long one.            *)

Messages(rows)     == (Len(rows) + MessageRows - 1) \div MessageRows
FirstMessage(rows) == SubSeq(rows, 1, Min({MessageRows, Len(rows)}))
Received(g) == [nodes |-> FirstMessage(g.nodes), edges |-> FirstMessage(g.edges)]

-----------------------------------------------------------------------------
(* The service. *)

\* require_authorized.
LetIn(token) == Secret = NoToken \/ token = Secret
Known(n)     == graphs[n] # NoGraph
Complete(entry) == entry.nodes # NoHalf /\ entry.edges # NoHalf
Fits(entry) == \A r \in DOMAIN entry.edges.rows : ToSet(entry.edges.rows[r]) \subseteq ToSet(entry.nodes.rows)

\* do_put takes the first message, and keeps what it has staged when the halves do
\* not make a graph.
PutError(c, rows) ==
    IF ~LetIn(Token[c]) THEN "unauthenticated" ELSE IF rows = <<>> THEN "invalid_argument" ELSE "ok"
Entry(n, side, write, rows) ==
    [staged[n] EXCEPT ![side] = [write |-> write, rows |-> FirstMessage(rows)]]
\* Mutant of Unstaged: what has been stored is still staged.
UnstagedNever(entry) == entry
Unstaged(entry) == IF Complete(entry) /\ Fits(entry) THEN NoGraph ELSE entry
PutAnswer(c, entry, rows) ==
    IF PutError(c, rows) # "ok" THEN PutError(c, rows)
    ELSE IF Complete(entry) /\ ~Fits(entry) THEN "dangling_edge" ELSE "ok"
Put(c, n, side, write, rows) ==
    LET entry == Entry(n, side, write, rows)
    IN IF PutError(c, rows) # "ok" THEN UNCHANGED <<graphs, staged>>
       ELSE /\ staged' = [staged EXCEPT ![n] = Unstaged(entry)]
            /\ graphs' = [graphs EXCEPT ![n] = IF Complete(entry) /\ Fits(entry) THEN entry ELSE @]

\* do_get for a client, which wants one message.  A request is answered with all of
\* a half here; Connectors says what a filter or an expansion makes of it.
GetAnswer(c, n, side) ==
    IF ~LetIn(Token[c]) THEN "unauthenticated"
    ELSE IF ~Known(n) THEN "not_found"
    ELSE IF Messages(graphs[n][side].rows) # 1 THEN "ConnectorError" ELSE "ok"

-----------------------------------------------------------------------------
(* The clients. *)

Answer(c, answer) == clients' = [clients EXCEPT ![c] = Idle(answer)]

\* write: the nodes, and when they have been taken the edges.
WriteNodes(c, n, g) ==
    LET answer == PutAnswer(c, Entry(n, "nodes", Len(writes) + 1, g.nodes), g.nodes)
    IN /\ clients[c].doing = "nothing" /\ Len(writes) < MaxWrites
       /\ Put(c, n, "nodes", Len(writes) + 1, g.nodes)
       /\ writes' = Append(writes, Received(g))
       /\ clients' = [clients EXCEPT ![c] =
              IF answer # "ok" THEN Idle(answer)
              ELSE [doing |-> "writing", name |-> n, graph |-> g, write |-> Len(writes) + 1, answer |-> ""]]
       /\ disturbed' = IF answer = "dangling_edge" \/ (answer = "ok" /\ Writing(n) # {}) THEN disturbed \cup {n} ELSE disturbed
WriteEdges(c) ==
    LET w      == clients[c]
        answer == PutAnswer(c, Entry(w.name, "edges", w.write, w.graph.edges), w.graph.edges)
    IN /\ w.doing = "writing"
       /\ Put(c, w.name, "edges", w.write, w.graph.edges)
       /\ Answer(c, answer)
       /\ disturbed' = IF answer = "ok" THEN disturbed ELSE disturbed \cup {w.name}
       /\ UNCHANGED writes

\* A client that is cancelled, or that has lost the service, in between.
Stop(c) ==
    /\ clients[c].doing # "nothing"
    /\ Answer(c, "stopped")
    /\ disturbed' = IF clients[c].doing = "writing" THEN disturbed \cup {clients[c].name} ELSE disturbed
    /\ UNCHANGED <<graphs, staged, writes>>

Load(c, n, side) ==
    /\ clients[c].doing = "nothing"
    /\ Answer(c, GetAnswer(c, n, side))
    /\ UNCHANGED <<graphs, staged, writes, disturbed>>
\* expand: the nodes that are reached and then the edges, of what is stored then.
ExpandNodes(c, n) ==
    LET answer == GetAnswer(c, n, "nodes")
    IN /\ clients[c].doing = "nothing"
       /\ clients' = [clients EXCEPT ![c] =
              IF answer = "ok" THEN [Idle("") EXCEPT !.doing = "expanding", !.name = n] ELSE Idle(answer)]
       /\ UNCHANGED <<graphs, staged, writes, disturbed>>
ExpandEdges(c) ==
    /\ clients[c].doing = "expanding"
    /\ Answer(c, GetAnswer(c, clients[c].name, "edges"))
    /\ UNCHANGED <<graphs, staged, writes, disturbed>>

\* The action delete_graph leaves what is staged.
Delete(c, n) ==
    LET in == LetIn(Token[c])
    IN /\ clients[c].doing = "nothing"
       /\ graphs' = IF in THEN [graphs EXCEPT ![n] = NoGraph] ELSE graphs
       /\ Answer(c, IF in THEN "ok" ELSE "unauthenticated")
       /\ UNCHANGED <<staged, writes, disturbed>>

\* get_flight_info and get_schema; poll_flight_info asks for the former in a new
\* request, which has no token.
InfoAnswer(c, n, token) ==
    IF ~LetIn(token) THEN "unauthenticated" ELSE IF Known(n) THEN "ok" ELSE "not_found"
Describe(c, n) ==
    /\ clients[c].doing = "nothing"
    /\ \/ Answer(c, InfoAnswer(c, n, Token[c]))
       \/ Answer(c, IF LetIn(Token[c]) THEN InfoAnswer(c, n, NoToken) ELSE "unauthenticated")
    /\ UNCHANGED <<graphs, staged, writes, disturbed>>

\* insert_graph, by the program that runs the service.
Insert(n, g) ==
    LET half(rows) == [write |-> Len(writes) + 1, rows |-> rows]
    IN /\ Len(writes) < MaxWrites
       /\ writes' = Append(writes, g)
       /\ graphs' = [graphs EXCEPT ![n] = [nodes |-> half(g.nodes), edges |-> half(g.edges)]]
       /\ UNCHANGED <<staged, clients, disturbed>>

Init ==
    /\ graphs = [n \in GraphNames |-> NoGraph] /\ staged = [n \in GraphNames |-> NoGraph]
    /\ clients = [c \in Clients |-> Idle("")]
    /\ writes = <<>> /\ disturbed = {}
Next ==
    \/ \E c \in Clients : WriteEdges(c) \/ Stop(c) \/ ExpandEdges(c)
    \/ \E c \in Clients, n \in GraphNames :
          \/ \E g \in Graphs : WriteNodes(c, n, g)
          \/ \E side \in {"nodes", "edges"} : Load(c, n, side)
          \/ ExpandNodes(c, n) \/ Delete(c, n) \/ Describe(c, n)
    \/ \E n \in GraphNames, g \in Graphs : Insert(n, g)
Spec == Init /\ [][Next]_vars

-----------------------------------------------------------------------------
(* Properties. *)

\* What do_put makes of the uploads of a name.  While none has overlapped with
\* another or been cut short, a stored graph is all of one upload, as far as its
\* first messages go, and nothing is left staged but the nodes of an upload that is
\* under way.  In any case the halves of a stored graph fit together, and none of
\* them is still staged, where it would make part of the next graph.
UploadsArriveWhole ==
    \A n \in GraphNames :
        /\ n \notin disturbed =>
              /\ Known(n) => /\ graphs[n].nodes.write = graphs[n].edges.write
                             /\ writes[graphs[n].nodes.write] =
                                    [nodes |-> graphs[n].nodes.rows, edges |-> graphs[n].edges.rows]
              /\ staged[n].edges = NoHalf
              /\ staged[n].nodes.write \in {clients[c].write : c \in Writing(n)} \cup {0}
        /\ Fits(graphs[n])
        /\ \A side \in {"nodes", "edges"} :
              staged[n][side] # NoHalf => staged[n][side] # graphs[n][side]
=============================================================================
