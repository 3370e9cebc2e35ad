------------------------ MODULE MCMutableGraphShared ------------------------
(* Small instances of MutableGraphShared for TLC. *)
EXTENDS MutableGraphShared

MCIds          == {"a", "b"}
\* a -> b and b -> a, so that an edge appended from a is numbered before b's.
MCTwoRows      == <<[src |-> "a", dst |-> "b"], [src |-> "b", dst |-> "a"]>>
MCInitLocalIds == <<"a", "b">>

\* What the owner does between sharings: enough for deltas and tombstones.
OwnerCalls == {"add_edge", "delete_edge"}
=============================================================================
