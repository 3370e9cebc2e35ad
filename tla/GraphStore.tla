----------------------------- MODULE GraphStore -----------------------------
(***************************************************************************)
(* What a mutable graph promises a client that never adds a deleted id     *)
(* again: a set of nodes and a set of edges between them, where removing a *)
(* node removes its edges, an edge once removed never returns, and closing *)
(* the store yields exactly the graph it held.  MutableGraphFrame is shown *)
(* to implement it until compact is first called.                          *)
(***************************************************************************)
EXTENDS Naturals

CONSTANTS
    Ids,        \* node ids
    InitNodes,  \* the nodes of the graph the store was opened on
    InitEdges,  \* its edges, as records [edge, src, dst]
    MaxSerial   \* bound: the largest edge name

VARIABLES
    nodes,  \* the nodes of the store
    edges,  \* its edges
    names,  \* the edge names used so far
    result  \* the graph that closing the store returned

storeVars == <<nodes, edges, names, result>>

Open == ~result.made

Touching(id) == {e \in edges : id \in {e.src, e.dst}}

StoreInit ==
    /\ nodes = InitNodes
    /\ edges = InitEdges
    /\ names = {e.edge : e \in InitEdges}
    /\ result = [made |-> FALSE, nodes |-> {}, edges |-> {}]

InsertNodes(batch) ==
    /\ Open /\ batch \cap nodes = {}
    /\ nodes' = nodes \cup batch
    /\ UNCHANGED <<edges, names, result>>

RemoveNode(id) ==
    /\ Open /\ id \in nodes
    /\ nodes' = nodes \ {id}
    /\ edges' = edges \ Touching(id)
    /\ UNCHANGED <<names, result>>

ReplaceNode(old, new) ==
    /\ Open /\ old \in nodes /\ new \notin nodes
    /\ nodes' = (nodes \ {old}) \cup {new}
    /\ edges' = edges \ Touching(old)
    /\ UNCHANGED <<names, result>>

InsertEdge(e) ==
    /\ Open /\ {e.src, e.dst} \subseteq nodes /\ e.edge \notin names
    /\ edges' = edges \cup {e}
    /\ names' = names \cup {e.edge}
    /\ UNCHANGED <<nodes, result>>

RemoveEdge(e) ==
    /\ Open /\ e \in edges
    /\ edges' = edges \ {e}
    /\ UNCHANGED <<nodes, names, result>>

ReplaceEdge(e, f) ==
    /\ Open /\ e \in edges /\ {f.src, f.dst} \subseteq nodes /\ f.edge \notin names
    /\ edges' = (edges \ {e}) \cup {f}
    /\ names' = names \cup {f.edge}
    /\ UNCHANGED <<nodes, result>>

Close ==
    /\ Open
    /\ result' = [made |-> TRUE, nodes |-> nodes, edges |-> edges]
    /\ UNCHANGED <<nodes, edges, names>>

NewEdges == [edge : 1..MaxSerial, src : nodes, dst : nodes]

StoreNext ==
    \/ \E batch \in SUBSET Ids : InsertNodes(batch)
    \/ \E id \in Ids : RemoveNode(id)
    \/ \E old, new \in Ids : ReplaceNode(old, new)
    \/ \E e \in NewEdges : InsertEdge(e)
    \/ \E e \in edges : RemoveEdge(e) \/ \E f \in NewEdges : ReplaceEdge(e, f)
    \/ Close

StoreSpec == StoreInit /\ [][StoreNext]_storeVars
=============================================================================
