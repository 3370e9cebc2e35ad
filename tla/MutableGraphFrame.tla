------------------------- MODULE MutableGraphFrame -------------------------
(***************************************************************************)
(* The mutable graph of lynxes-core (frame/mutable_graph_frame.rs): an     *)
(* immutable node frame, edge frame and base CSR, plus what was written    *)
(* since: a pending buffer of appended edges, the frozen chunks it is      *)
(* flushed into, and tombstones over the node rows and the original edge   *)
(* rows.  Calls are atomic here, as `&mut self` makes every mutator;       *)
(* MutableGraphShared interleaves the `&self` calls with each other.       *)
(*                                                                         *)
(* Rows, edge-local indices and CSR ids count from 1.  Every edge has a    *)
(* serial number that the code does not keep: an original edge its row, an *)
(* appended edge the numbers after those.  In `pending` and `frozen` it    *)
(* stands for the payload row stored there; in the base CSR it is a        *)
(* history variable, the field `edge` beside the `id` the code stores.     *)
(***************************************************************************)
EXTENDS Naturals, Sequences, FiniteSets

CONSTANTS
    Ids,            \* the `_id` values a client uses
    InitNodes,      \* the ids in the node frame of the wrapped GraphFrame
    Rows,           \* its edge rows, a sequence of [src, dst]
    InitLocalIds,   \* the ids of its edge endpoints, by edge-local index
    FlushThreshold, \* FLUSH_THRESHOLD: 2 in the tests, 1024 otherwise
    Calls,          \* the calls the client makes, by the names in Call(...)
    ReuseIds,       \* TRUE iff the client adds an id again after deleting it
    MaxSerial,      \* bound: the largest serial number
    MaxLocalIdx     \* bound: the largest edge-local index

RowIds == 1..Len(Rows)

ASSUME IdsAssumption == IsFiniteSet(Ids) /\ InitNodes \subseteq Ids
ASSUME RowsAssumption == Rows \in Seq([src : InitNodes, dst : InitNodes])
ASSUME LocalIdsAssumption ==
    /\ InitLocalIds \in Seq(InitNodes)
    /\ \A i, j \in DOMAIN InitLocalIds : InitLocalIds[i] = InitLocalIds[j] => i = j
    /\ \A r \in RowIds : \E i, j \in DOMAIN InitLocalIds :
          InitLocalIds[i] = Rows[r].src /\ InitLocalIds[j] = Rows[r].dst
ASSUME BoundsAssumption ==
    /\ FlushThreshold \in Nat /\ ReuseIds \in BOOLEAN
    /\ MaxSerial \in Nat /\ Len(Rows) <= MaxSerial
    /\ MaxLocalIdx \in Nat /\ Len(InitLocalIds) <= MaxLocalIdx

VARIABLES
    nodeLive,    \* node_frame and node_tombstones: the ids with a row, TRUE = live
    lookup,      \* keys of node_id_to_idx; the row is the only one with that id
    localOf,     \* edge_node_id_to_idx
    idAt,        \* edge_node_idx_to_id
    edgeLive,    \* edge_tombstones by edge row, TRUE = live
    baseCsr,     \* base_csr: its entries
    dataCsr,     \* the out CSR that edge_data carries
    stable,      \* base_snapshot_has_stable_edge_rows
    pending,     \* delta.pending: the appended edges not yet flushed
    frozen,      \* delta.frozen: a sequence of chunks, each a set of edges
    nextSerial,  \* serial number of the next appended edge
    status,      \* how the last call ended
    panicked,    \* history: some call has panicked half-way
    retired,     \* history: the ids deleted so far
    graph        \* NoGraph, or the GraphFrame that freeze returned

vars == <<nodeLive, lookup, localOf, idAt, edgeLive, baseCsr, dataCsr, stable,
          pending, frozen, nextSerial, status, panicked, retired, graph>>

NoGraph == [made |-> FALSE, nodes |-> {}, edges |-> {}]

Serials   == 1..MaxSerial
LocalIdxs == 1..MaxLocalIdx
DeltaEdge == [src : LocalIdxs, dst : LocalIdxs, edge : Serials]
CsrEntry  == [src : LocalIdxs, dst : LocalIdxs, id : Nat, edge : Serials]

TypeOK ==
    /\ DOMAIN nodeLive \subseteq Ids /\ nodeLive \in [DOMAIN nodeLive -> BOOLEAN]
    /\ lookup \subseteq Ids /\ retired \subseteq Ids
    /\ idAt \in Seq(Ids) /\ Len(idAt) <= MaxLocalIdx
    /\ DOMAIN localOf \subseteq Ids /\ localOf \in [DOMAIN localOf -> DOMAIN idAt]
    /\ edgeLive \in [RowIds -> BOOLEAN]
    /\ baseCsr \subseteq CsrEntry /\ dataCsr \subseteq CsrEntry
    /\ pending \subseteq DeltaEdge
    /\ frozen \in Seq(SUBSET DeltaEdge)
    /\ nextSerial \in (Len(Rows) + 1)..(MaxSerial + 1)
    /\ status \in {"ok", "err", "panic"}
    /\ stable \in BOOLEAN /\ panicked \in BOOLEAN
    /\ graph \in [made : BOOLEAN, nodes : SUBSET Ids,
                  edges : SUBSET [edge : Serials, src : Ids, dst : Ids]]

-----------------------------------------------------------------------------
(* Reading the tables. *)

\* An edge-local index is live iff the id it stands for is in the lookup and
\* that id's row has no tombstone.  The old index of a deleted node is live
\* again as soon as a node with its id is.
IdIsLive(id)    == id \in lookup /\ id \in DOMAIN nodeLive /\ nodeLive[id]
LocalIsLive(i)  == i \in DOMAIN idAt /\ IdIsLive(idAt[i])
BothEndsLive(e) == LocalIsLive(e.src) /\ LocalIsLive(e.dst)
RowIsLive(r)    == r \in RowIds /\ edgeLive[r]
LiveNodes       == {id \in DOMAIN nodeLive : nodeLive[id]}

FrozenEdges == UNION {frozen[c] : c \in DOMAIN frozen}
DeltaEdges  == FrozenEdges \cup pending

\* Mutant of Shown: the reader does not look at the edge tombstones.
ShownDeletedToo(csr, rowIds) == {e.edge : e \in {e \in csr : BothEndsLive(e)}}

\* What out_neighbors reports, for one node index and over all of them: the base
\* entries, whose tombstones count only while the CSR ids are edge rows, then
\* the chunks, then the pending edges, each with both ends live.
Shown(csr, rowIds) == {e.edge : e \in {e \in csr : BothEndsLive(e) /\ (rowIds => RowIsLive(e.id))}}
OutNeighbors(i) ==
    Shown({e \in baseCsr : e.src = i}, stable)
        \cup {e.edge : e \in {e \in DeltaEdges : e.src = i /\ BothEndsLive(e)}}
ReaderView == Shown(baseCsr, stable) \cup {e.edge : e \in {e \in DeltaEdges : BothEndsLive(e)}}

\* What freeze returns: the rows of the edge frame without a tombstone and the
\* delta edges of the chunks and the buffer, if both ends are live by id.
FreezeRows  == {r \in RowIds : /\ edgeLive[r]
                               /\ IdIsLive(Rows[r].src) /\ IdIsLive(Rows[r].dst)}
FreezeDelta == {e \in DeltaEdges : IdIsLive(idAt[e.src]) /\ IdIsLive(idAt[e.dst])}
FreezeEdges ==
    {[edge |-> r, src |-> Rows[r].src, dst |-> Rows[r].dst] : r \in FreezeRows}
        \cup {[edge |-> e.edge, src |-> idAt[e.src], dst |-> idAt[e.dst]] : e \in FreezeDelta}
FreezeView == FreezeRows \cup {e.edge : e \in FreezeDelta}

-----------------------------------------------------------------------------
(* The wrapped graph, as from_graph_frame takes it apart. *)

InitLocalOf == [id \in {InitLocalIds[i] : i \in DOMAIN InitLocalIds} |->
                    CHOOSE i \in DOMAIN InitLocalIds : InitLocalIds[i] = id]

Init ==
    /\ nodeLive = [id \in InitNodes |-> TRUE]
    /\ lookup = InitNodes
    /\ localOf = InitLocalOf
    /\ idAt = InitLocalIds
    /\ edgeLive = [r \in RowIds |-> TRUE]
    /\ baseCsr = {[src |-> InitLocalOf[Rows[r].src], dst |-> InitLocalOf[Rows[r].dst],
                   id |-> r, edge |-> r] : r \in RowIds}
    /\ dataCsr = baseCsr
    /\ stable = TRUE
    /\ pending = {}
    /\ frozen = <<>>
    /\ nextSerial = Len(Rows) + 1
    /\ status = "ok"
    /\ panicked = FALSE
    /\ retired = {}
    /\ graph = NoGraph

\* A call reaches the frame only until freeze has consumed it.
Call(name) == name \in Calls /\ ~graph.made

-----------------------------------------------------------------------------
(* Nodes. *)

\* The published frame is rebuilt from the live rows and the new ones, and the
\* lookup and the tombstones with it.
Publish(ids) ==
    /\ nodeLive' = [id \in ids |-> TRUE]
    /\ lookup' = ids

\* add_nodes_batch, and add_node for one row.  An empty batch returns early;
\* an id that is live already is a DuplicateNodeId.
AddNodes(batch) ==
    /\ Call("add_nodes")
    /\ ReuseIds \/ batch \cap retired = {}
    /\ \/ batch = {} /\ status' = "ok" /\ UNCHANGED <<nodeLive, lookup>>
       \/ batch \cap LiveNodes # {} /\ status' = "err" /\ UNCHANGED <<nodeLive, lookup>>
       \/ /\ batch # {} /\ batch \cap LiveNodes = {}
          /\ Publish(LiveNodes \cup batch)
          /\ status' = "ok"
    /\ UNCHANGED <<localOf, idAt, edgeLive, baseCsr, dataCsr, stable, pending, frozen,
                   nextSerial, panicked, retired, graph>>

\* The out CSR of edge_data at a local index, in the order the loop reads it.
OutEntries(i) == {e \in dataCsr : e.src = i}
NotAfter(e, f) == e.dst < f.dst \/ (e.dst = f.dst /\ e.id <= f.id)

\* The in CSR is built on first use from the edge frame's own rows and index,
\* whatever out CSR the frame carries by then.
InRowIds(i) == {r \in RowIds : i \in DOMAIN InitLocalIds /\ Rows[r].dst = InitLocalIds[i]}

\* edge_tombstones[edge_row as usize] panics on the first id that is no row:
\* the ids before it have been tombstoned, nothing after it happens.
DeletePanics(id) ==
    id \in DOMAIN localOf /\ \E e \in OutEntries(localOf[id]) : e.id \notin RowIds
TombstonedOut(i) ==
    {e.id : e \in {e \in OutEntries(i) :
                     \A f \in OutEntries(i) : NotAfter(f, e) => f.id \in RowIds}}
\* Mutant of TombstonedBy: only the out rows are looked up.
TombstonedByOut(id) ==
    IF id \in DOMAIN localOf THEN TombstonedOut(localOf[id]) ELSE {}
TombstonedBy(id) ==
    IF id \notin DOMAIN localOf THEN {}
    ELSE IF DeletePanics(id) THEN TombstonedOut(localOf[id])
    ELSE TombstonedOut(localOf[id]) \cup InRowIds(localOf[id])

\* Mutant of DropIncident: the local index of the node is not forgotten.
DropIncidentKeepsIndex(id) ==
    /\ edgeLive' = [r \in RowIds |-> edgeLive[r] /\ r \notin TombstonedBy(id)]
    /\ panicked' = (panicked \/ DeletePanics(id))
    /\ status' = IF DeletePanics(id) THEN "panic" ELSE "ok"
    /\ retired' = retired \cup {id}
    /\ UNCHANGED <<localOf, pending>>

\* Mutant of DropIncident: the pending buffer is not pruned.
DropIncidentKeepsPending(id) ==
    /\ localOf' = [x \in DOMAIN localOf \ {id} |-> localOf[x]]
    /\ edgeLive' = [r \in RowIds |-> edgeLive[r] /\ r \notin TombstonedBy(id)]
    /\ panicked' = (panicked \/ DeletePanics(id))
    /\ status' = IF DeletePanics(id) THEN "panic" ELSE "ok"
    /\ retired' = retired \cup {id}
    /\ UNCHANGED pending

\* What deleting a live node does to the edges: its local index is forgotten,
\* its base edges are tombstoned, its pending edges dropped.  Edges already
\* flushed into a chunk stay there.
DropIncident(id) ==
    /\ localOf' = [x \in DOMAIN localOf \ {id} |-> localOf[x]]
    /\ edgeLive' = [r \in RowIds |-> edgeLive[r] /\ r \notin TombstonedBy(id)]
    /\ pending' = IF id \notin DOMAIN localOf \/ DeletePanics(id) THEN pending
                  ELSE {e \in pending : e.src # localOf[id] /\ e.dst # localOf[id]}
    /\ panicked' = (panicked \/ DeletePanics(id))
    /\ status' = IF DeletePanics(id) THEN "panic" ELSE "ok"
    /\ retired' = retired \cup {id}

\* Mutant of Unlist: the node row gets no tombstone.
UnlistOnly(id) == lookup' = lookup \ {id} /\ UNCHANGED nodeLive

Unlist(id) ==
    /\ lookup' = lookup \ {id}
    /\ nodeLive' = [nodeLive EXCEPT ![id] = FALSE]

\* delete_node: a NodeNotFound unless the lookup has the id.
DeleteNode(id) ==
    /\ Call("delete_node")
    /\ \/ /\ id \notin lookup
          /\ status' = "err"
          /\ UNCHANGED <<nodeLive, lookup, localOf, edgeLive, pending, panicked, retired>>
       \/ id \in lookup /\ Unlist(id) /\ DropIncident(id)
    /\ UNCHANGED <<idAt, baseCsr, dataCsr, stable, frozen, nextSerial, graph>>

\* Mutant of UpdateNode: the old node is gone before the replacement is checked.
UpdateNodeUnchecked(old, new) ==
    /\ Call("update_node")
    /\ ReuseIds \/ new \notin retired \cup {old}
    /\ old \in LiveNodes
    /\ Unlist(old)
    /\ status' = IF new \in LiveNodes THEN "err" ELSE "ok"
    /\ retired' = retired \cup {old}
    /\ UNCHANGED <<localOf, edgeLive, pending, panicked, idAt, baseCsr, dataCsr, stable,
                   frozen, nextSerial, graph>>

\* update_node: the replacement is checked against the live rows without the
\* old one, then the old node is deleted and the replacement added.  A panic
\* in the deletion leaves the frame without either.
UpdateNode(old, new) ==
    /\ Call("update_node")
    /\ ReuseIds \/ new \notin retired \cup {old}
    /\ \/ /\ old \notin LiveNodes \/ new \in LiveNodes \ {old}
          /\ status' = "err"
          /\ UNCHANGED <<nodeLive, lookup, localOf, edgeLive, pending, panicked, retired>>
       \/ /\ old \in LiveNodes /\ new \notin LiveNodes \ {old}
          /\ DropIncident(old)
          /\ IF DeletePanics(old) THEN Unlist(old)
             ELSE Publish((LiveNodes \ {old}) \cup {new})
    /\ UNCHANGED <<idAt, baseCsr, dataCsr, stable, frozen, nextSerial, graph>>

-----------------------------------------------------------------------------
(* Edges. *)

\* resolve_edge_node_idx: the index an id has, or the next one if the id is a
\* node's; anything else is a NodeNotFound.
Resolvable(id) == id \in DOMAIN localOf \/ id \in lookup
\* Mutant of Indexed: the length is read after the push.
IndexedLate(table, id) ==
    IF id \in DOMAIN table.of THEN table
    ELSE [at |-> Append(table.at, id),
          of |-> [x \in DOMAIN table.of \cup {id} |->
                    IF x = id THEN Len(table.at) + 2 ELSE table.of[x]]]
Indexed(table, id) ==
    IF id \in DOMAIN table.of THEN table
    ELSE [at |-> Append(table.at, id),
          of |-> [x \in DOMAIN table.of \cup {id} |->
                    IF x = id THEN Len(table.at) + 1 ELSE table.of[x]]]
WithSrc(s)     == Indexed([at |-> idAt, of |-> localOf], s)
WithBoth(s, d) == Indexed(WithSrc(s), d)

\* Mutant of Push: a flushed buffer is not cleared.
PushKeepsBuffer(e) ==
    LET buffer == pending \cup {e}
    IN /\ pending' = buffer
       /\ frozen' = IF Cardinality(buffer) > FlushThreshold THEN Append(frozen, buffer) ELSE frozen

\* Mutant of Push: the buffer is flushed as it was before the push.
PushFlushesOld(e) ==
    IF Cardinality(pending \cup {e}) > FlushThreshold
    THEN frozen' = Append(frozen, pending) /\ pending' = {}
    ELSE pending' = pending \cup {e} /\ UNCHANGED frozen

\* The tail of add_edge_row: one more pending edge, and a flush of the whole
\* buffer into a chunk once it is longer than the threshold.
Push(e) ==
    LET buffer == pending \cup {e}
    IN IF Cardinality(buffer) > FlushThreshold
       THEN frozen' = Append(frozen, buffer) /\ pending' = {}
       ELSE pending' = buffer /\ UNCHANGED frozen

\* add_edge_row.  A row of another schema fails where an unknown source does;
\* an unknown destination fails after the source has got its index.
AppendEdge(s, d) ==
    /\ nextSerial <= MaxSerial /\ Len(WithBoth(s, d).at) <= MaxLocalIdx
    /\ \/ /\ ~Resolvable(s)
          /\ status' = "err"
          /\ UNCHANGED <<localOf, idAt, pending, frozen, nextSerial>>
       \/ /\ Resolvable(s) /\ ~Resolvable(d)
          /\ localOf' = WithSrc(s).of /\ idAt' = WithSrc(s).at
          /\ status' = "err"
          /\ UNCHANGED <<pending, frozen, nextSerial>>
       \/ /\ Resolvable(s) /\ Resolvable(d)
          /\ localOf' = WithBoth(s, d).of /\ idAt' = WithBoth(s, d).at
          /\ Push([src |-> WithBoth(s, d).of[s], dst |-> WithBoth(s, d).of[d],
                   edge |-> nextSerial])
          /\ nextSerial' = nextSerial + 1
          /\ status' = "ok"

\* add_edge_row, and add_edge with the default payload.
AddEdge(s, d) ==
    /\ Call("add_edge")
    /\ AppendEdge(s, d)
    /\ UNCHANGED <<nodeLive, lookup, edgeLive, baseCsr, dataCsr, stable, panicked, retired, graph>>

\* delete_edge: any row of the original frame, tombstoned already or not.
DeleteEdge(row) ==
    /\ Call("delete_edge")
    /\ \/ row \notin RowIds /\ status' = "err" /\ UNCHANGED edgeLive
       \/ /\ row \in RowIds
          /\ edgeLive' = [edgeLive EXCEPT ![row] = FALSE]
          /\ status' = "ok"
    /\ UNCHANGED <<nodeLive, lookup, localOf, idAt, baseCsr, dataCsr, stable, pending, frozen,
                   nextSerial, panicked, retired, graph>>

\* update_edge_row: the row is tombstoned before the replacement is appended,
\* and stays tombstoned when that fails.
UpdateEdgeRow(row, s, d) ==
    /\ Call("update_edge_row")
    /\ \/ /\ ~RowIsLive(row)
          /\ status' = "err"
          /\ UNCHANGED <<edgeLive, localOf, idAt, pending, frozen, nextSerial>>
       \/ /\ RowIsLive(row)
          /\ edgeLive' = [edgeLive EXCEPT ![row] = FALSE]
          /\ AppendEdge(s, d)
    /\ UNCHANGED <<nodeLive, lookup, baseCsr, dataCsr, stable, panicked, retired, graph>>

\* update_edge: replacement_edge_row looks both ends up before anything is
\* written, then update_edge_row runs on the copied payload.
UpdateEdge(row, s, d) ==
    /\ Call("update_edge")
    /\ \/ /\ {s, d} \subseteq lookup => ~RowIsLive(row)
          /\ status' = "err"
          /\ UNCHANGED <<edgeLive, localOf, idAt, pending, frozen, nextSerial>>
       \/ /\ {s, d} \subseteq lookup /\ RowIsLive(row)
          /\ edgeLive' = [edgeLive EXCEPT ![row] = FALSE]
          /\ AppendEdge(s, d)
    /\ UNCHANGED <<nodeLive, lookup, baseCsr, dataCsr, stable, panicked, retired, graph>>

-----------------------------------------------------------------------------
(* Compaction and freezing. *)

\* Mutant of Flushed: the pending edges are not flushed before the merge.
FlushedNothing == frozen

\* flush_pending_locked, as compact and freeze call it.
Flushed == IF pending = {} THEN frozen ELSE Append(frozen, pending)

\* Mutant of Merged: the base rows are merged without their tombstones.
MergedWithTombstoned(csr, chunks) ==
    {[src |-> e.src, part |-> 0, dst |-> e.dst, tie |-> e.id, edge |-> e.edge] :
        e \in {e \in csr : BothEndsLive(e)}}
    \cup
    UNION {{[src |-> e.src, part |-> c, dst |-> e.dst, tie |-> e.edge, edge |-> e.edge] :
                e \in {e \in chunks[c] : BothEndsLive(e)}} : c \in DOMAIN chunks}

\* The rows compact merges from a base CSR and a list of chunks, source by source: what survives of the base CSR
\* (`part` 0), whose ids are looked up in edge_tombstones whether or not they
\* still are edge rows, then the chunks in order (`part` 1, 2, ...).
Merged(csr, chunks) ==
    {[src |-> e.src, part |-> 0, dst |-> e.dst, tie |-> e.id, edge |-> e.edge] :
        e \in {e \in csr : RowIsLive(e.id) /\ BothEndsLive(e)}}
    \cup
    UNION {{[src |-> e.src, part |-> c, dst |-> e.dst, tie |-> e.edge, edge |-> e.edge] :
                e \in {e \in chunks[c] : BothEndsLive(e)}} : c \in DOMAIN chunks}

Before(x, y) ==
    \/ x.src < y.src
    \/ x.src = y.src /\ x.part < y.part
    \/ x.src = y.src /\ x.part = y.part /\ x.dst < y.dst
    \/ x.src = y.src /\ x.part = y.part /\ x.dst = y.dst /\ x.tie < y.tie

\* CsrIndex::build numbers its entries by their position in its arguments.
Renumbered(rows) ==
    {[src |-> x.src, dst |-> x.dst, edge |-> x.edge,
      id |-> 1 + Cardinality({y \in rows : Before(y, x)})] : x \in rows}

MergeDeltas ==
    /\ baseCsr' = Renumbered(Merged(baseCsr, Flushed))
    /\ dataCsr' = baseCsr'
    /\ stable' = FALSE
    /\ pending' = {}
    /\ frozen' = <<>>

Compact ==
    /\ Call("compact")
    /\ MergeDeltas
    /\ status' = "ok"
    /\ UNCHANGED <<nodeLive, lookup, localOf, idAt, edgeLive, nextSerial, panicked,
                   retired, graph>>

\* freeze: the chunks are copied, the frame is compacted, and the graph is put
\* together from the live node rows, the live rows of the original edge frame
\* and the copied chunks; GraphFrame::new_with_schema refuses a dangling edge.
Freeze ==
    /\ Call("freeze")
    /\ MergeDeltas
    /\ graph' = [made |-> TRUE, nodes |-> LiveNodes, edges |-> FreezeEdges]
    /\ status' = IF \A e \in FreezeEdges : {e.src, e.dst} \subseteq LiveNodes
                 THEN "ok" ELSE "err"
    /\ UNCHANGED <<nodeLive, lookup, localOf, idAt, edgeLive, nextSerial, panicked, retired>>

-----------------------------------------------------------------------------
Mutate ==
    \/ \E batch \in SUBSET Ids : AddNodes(batch)
    \/ \E id \in Ids : DeleteNode(id)
    \/ \E old, new \in Ids : UpdateNode(old, new)
    \/ \E s, d \in Ids : AddEdge(s, d)
    \/ \E row \in 1..(Len(Rows) + 1) : DeleteEdge(row)
    \/ \E row \in 1..(Len(Rows) + 1), s, d \in Ids : UpdateEdgeRow(row, s, d)
    \/ \E row \in 1..(Len(Rows) + 1), s, d \in Ids : UpdateEdge(row, s, d)

Next == Mutate \/ Compact \/ Freeze

Spec == Init /\ [][Next]_vars

-----------------------------------------------------------------------------
(* Safety. *)

\* node_id_to_idx holds exactly the rows without a tombstone, although deleting
\* a node edits the two in place and adding nodes rebuilds both.
LookupIsLiveRows == lookup = LiveNodes

\* A node that edges were resolved for has its newest edge-local index: the two
\* edge maps stay inverse through deletions, re-adding and half-failed appends.
LocalIndexIsNewest ==
    \A id \in DOMAIN localOf :
        /\ id \in lookup
        /\ idAt[localOf[id]] = id
        /\ \A i \in DOMAIN idAt : idAt[i] = id => i <= localOf[id]

\* A pending edge is held under the current indices of two live nodes: deleting
\* either end pruned it, so none can come back when the id does.
PendingUsesCurrentIndex ==
    ~panicked => \A e \in pending : \A i \in {e.src, e.dst} :
                    idAt[i] \in DOMAIN localOf /\ localOf[idAt[i]] = i

\* An edge is in one place: in one base entry, one chunk or the buffer, so that
\* a reader chaining the three reports it once.
OneHomePerEdge ==
    /\ \A e, f \in baseCsr : e.edge = f.edge => e = f
    /\ \A e \in baseCsr, f \in DeltaEdges : e.edge # f.edge
    /\ \A e \in pending, c \in DOMAIN frozen : \A f \in frozen[c] : e.edge # f.edge
    /\ \A c, d \in DOMAIN frozen : \A e \in frozen[c], f \in frozen[d] :
          e.edge = f.edge => c = d

\* Until the first compaction no original row outlives an end node, even when
\* the node's id is added again: delete_node found all its in and out rows.
RowsDieWithTheirNodes ==
    stable => \A r \in RowIds : edgeLive[r] => {Rows[r].src, Rows[r].dst} \subseteq lookup

\* Until the first compaction out_neighbors and freeze, which decide liveness
\* by index and by id, over CSR entries and over rows, agree on every edge.
ReadersSeeWhatFreezeKeeps == stable /\ ~graph.made => ReaderView = FreezeView

\* The first compaction moves the deltas into the base without a reader seeing
\* an edge come, go, or change.
FirstCompactKeepsView == [][stable /\ Compact => ReaderView' = ReaderView]_vars

\* A client that never adds a deleted id again never sees an edge come back: not
\* after a compaction, a flush or a panic, and not in what freeze would return.
NothingComesBack ==
    [][/\ ReaderView' \subseteq ReaderView \cup {nextSerial}
       /\ FreezeView' \subseteq FreezeView \cup {nextSerial}]_vars

\* With ids added again, edges come back only at a node this very call added,
\* and before the first compaction only appended edges do: frozen ones, which
\* delete_node cannot reach.
OnlyReAddedNodesReviveEdges ==
    [][\A x \in (ReaderView' \ ReaderView) \ {nextSerial} :
          /\ stable => x > Len(Rows)
          /\ \A e \in baseCsr' \cup DeltaEdges' : e.edge = x =>
                {idAt[e.src], idAt[e.dst]} \cap (lookup' \ lookup) # {}]_vars

\* A call that returns an error has changed no node and no edge, but for the row
\* that update_edge_row tombstones before its replacement is refused.
FailedCallLosesAtMostTheUpdatedRow ==
    [][status' = "err" =>
          /\ lookup' = lookup /\ ReaderView' \subseteq ReaderView
          /\ \/ FreezeView' = FreezeView /\ ReaderView' = ReaderView
             \/ \E row \in RowIds, s, d \in Ids :
                   /\ UpdateEdgeRow(row, s, d)
                   /\ FreezeView' = FreezeView \ {row}]_vars

-----------------------------------------------------------------------------
(* Refinement: with no id added again, the tables implement a plain set of  *)
(* nodes and edges until the first compaction.                              *)

Store == INSTANCE GraphStore WITH
    InitEdges <- {[edge |-> r, src |-> Rows[r].src, dst |-> Rows[r].dst] : r \in RowIds},
    nodes     <- lookup,
    edges     <- IF graph.made THEN graph.edges ELSE FreezeEdges,
    names     <- 1..(nextSerial - 1),
    result    <- graph

\* Until the first compaction tombstones, chunks, indices and the panic path are
\* invisible: every call is one step of the store or none, and freeze returns what
\* the store held.
ImplementsStore ==
    Store!StoreInit /\ [][stable => Store!StoreNext \/ Compact]_(Store!storeVars)

-----------------------------------------------------------------------------
(* What the documentation says and the code does not keep.                 *)

\* freeze: "delta edge rows keep the payload they were appended with".
FreezeKeepsDeltaEdges ==
    ~graph.made => {x \in ReaderView : x > Len(Rows)} \subseteq FreezeView
=============================================================================
