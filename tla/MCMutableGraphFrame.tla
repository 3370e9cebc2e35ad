------------------------ MODULE MCMutableGraphFrame ------------------------
(* Small instances of MutableGraphFrame for TLC. *)
EXTENDS MutableGraphFrame

\* Two of the ids are nodes of the wrapped graph and one is new.
MCIds       == {"a", "b", "c"}
MCInitNodes == {"a", "b"}

\* a -> b, and the local indices in order of first appearance.
MCOneRow       == <<[src |-> "a", dst |-> "b"]>>
\* a -> b and back, so that each node has an in-edge and an out-edge.
MCTwoRows      == <<[src |-> "a", dst |-> "b"], [src |-> "b", dst |-> "a"]>>
MCInitLocalIds == <<"a", "b">>

Mutators == {"add_nodes", "delete_node", "update_node", "add_edge", "delete_edge",
             "update_edge", "update_edge_row"}
AllCalls == Mutators \cup {"compact", "freeze"}
\* update_edge is update_edge_row behind two lookups.
AllButUpdateEdge == AllCalls \ {"update_edge"}
=============================================================================
