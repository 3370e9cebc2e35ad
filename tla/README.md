# Lynxes in TLA+

Lynxes is a graph engine in Rust: graphs are Arrow tables with a CSR index
beside them, queried through a lazy plan, changed through a mutable frame, and
analysed by graph algorithms. This directory holds its specifications, the TLC
configurations that check them on small instances, and proofs that TLAPS checks.
Paths below are relative to the repository (`src/` here); `core`, `lazy`, `io`,
`connect` and `python` stand for the crates `crates/lynxes-core/src`,
`crates/lynxes-lazy/src/query` and so on.

## 1. Inventory

| Component | State it keeps | Operations | What is hard | Correct means |
|---|---|---|---|---|
| Mutable graph (`core/frame/mutable_graph_frame.rs`) | node rows and tombstones, id lookup, two edge-local index maps, edge tombstones, base CSR, pending buffer, frozen chunks | add, delete, update of nodes and edges, `compact`, `freeze`, `out_neighbors` | five structures describe one graph; deletion and addition edit different ones; failures half-way | the structures agree, readers and `freeze` show the same graph, nothing returns or disappears |
| The same, shared behind an `Arc` | the `ArcSwap`s of CSR and edge data, an `AtomicBool`, a `Mutex`, an `RwLock` | `out_neighbors` and `compact` take `&self` | lock order, four separate publishing stores, a read of two cells at two moments | reads are exact, compaction looks atomic, every call returns |
| CSR index (`core/frame/csr.rs`) | offsets, neighbours, edge ids | `build`, `build_reverse`, neighbour slices | counting sort, renumbering of edge ids | a permutation of its input, grouped by source |
| Edge frame (`core/frame/edge_frame.rs`) | Arrow batch, local ids, type index, out-CSR, in-CSR built on first use | degree, neighbours, filter, select, concat, `with_out_csr` | the indexes and the rows may drift apart, the lazily built in-CSR and a swapped out-CSR may disagree | the indexes say what the rows say |
| Node and graph frame (`core/frame/node_frame.rs`, `graph_frame.rs`) | Arrow batch, id index; a pair of frames | validation, filter, select, concat, subgraphs, degrees, COO | translation between node rows and edge-local indices | no dangling edge, no duplicate id, subgraphs are induced |
| Logical plan and optimizer (`core/query/`) | plan trees, an expression language | passes: predicate and projection pushdown, traversal pruning, subgraph caching, partition parallelism, early termination | passes are rewrites of each other's results | every pass keeps the result of the plan |
| Executor (`lazy/executor/`) | none between queries; frontier, visited set and edge set inside an expansion | filter, expand (serial, partition-parallel, limit-aware), pattern matching, aggregation, sort, limit | workers each deduplicate only their own finds; hash order; stopping early | the hop semantics, whichever strategy runs |
| Expressions (`lazy/executor/expr_eval.rs`) | none | evaluation on rows, neighbours and pattern bindings; aggregates | one language, three readers and a second evaluator in `bfs` | the readers agree |
| Partitioning (`core/algo/partition.rs`) | shards, boundary edges | hash, range and label split, merge, distributed expansion | exchange of the frontier over shard borders | the union of the shards behaves as the whole |
| Traversal and paths (`core/algo/traversal.rs`, `shortest_path.rs`) | queue, heap, distances, predecessors | BFS, Dijkstra, A*, all shortest paths, Yen's k shortest paths | early stop, ties, edges side by side, weights of zero | shortest, complete, no repeats |
| Components and communities (`connected_components.rs`, `community.rs`) | labels, a weighted graph per level | weakly connected components, Louvain | random order of moves, renumbering from level to level | classes of connected nodes |
| PageRank and centralities (`pagerank.rs`, `centrality.rs`) | vectors of scores | power iteration, Brandes | dangling nodes, counting ways forwards and backwards | a distribution; exact shares |
| Sampling (`core/algo/sampling.rs`) | a random generator, frontier | walks, neighbourhood samples | parallel lists of a sample, repeated nodes | samples follow edges of the graph |
| Schema (`core/schema/`) | declarations | validation, inheritance | cycles and redefinitions in a chain of labels | a graph that is accepted is as declared |
| Display (`core/display/`) | none | projections and summaries of tables | width arithmetic | formatting only |
| Mojo runtime (`core/mojo_runtime.rs`, `kernels/mojo`) | a library handle in a `OnceLock` | load, call | one-time initialisation | falls back to Rust |
| File formats (`io/`) | files | `.gf` text, `.gfb` binary, Parquet pairs, CSV; read and write | round trips, cut files, two files for one graph | reading gives what was written, or an error |
| Connectors (`connect/`) | a client handle; the Flight service: graphs and staged uploads by name | Neo4j, ArangoDB, SPARQL, Arrow Flight, files | paging beside writers, uploads in two calls of several clients, dialects | every row once, an upload whole |
| Python bindings (`python/lib.rs`) | `Option` of the mutable graph | wrappers | use after `freeze` | an error, not a crash |
| Command line, WASM, web page | none | front ends | | |

The parts meet as follows. A `GraphFrame` is an immutable pair of frames; the
mutable graph takes one apart (`into_mutable_parts`), gives one back (`freeze`),
and shares its CSR with readers through atomic swaps. A lazy query is a plan
tree over such frames; the optimizer rewrites it and the executor interprets it,
calling the frames' neighbour slices. Algorithms and formats read and build
`GraphFrame`s and keep nothing; a connector runs the same queries on a graph it
has read, or writes them in a database's language. Threads exist in three places: in
whoever shares an `Arc<MutableGraphFrame>`, inside the executor's
partition-parallel expansion, and in the Flight service. A save writes its file
or files front to back with no log and no renaming, so all a crash can leave behind
is a cut file, or one file of two.

## 2. What is modelled now

| Module | Models | Proved about in |
|---|---|---|
| `GraphStore` | what a mutable graph promises: a set of nodes and a set of edges, one action per call | `MutableGraphFrameProofs` (that the frame implements it) |
| `MutableGraphFrame` | `mutable_graph_frame.rs`, one action per call, `&mut self` calls and single-threaded `&self` calls | `MutableGraphFrameProofs` |
| `MutableGraphShared` | the same frame behind an `Arc`: `out_neighbors` and `compact` step by step | `MutableGraphSharedProofs` |
| `Expand` | the executor's expansion, `expand_graph` and its limit-aware and partition-parallel forms in `lazy/executor/traversal.rs` | `ExpandProofs` |
| `Hops` | what an expansion is, without a search; `Expand` and `Optimizer` extend it | |
| `Optimizer` | the plans that `LazyGraphFrame` builds, the optimizer's passes over them and what the executor makes of the result | `OptimizerProofs` |
| `Frames` | the immutable frames: `node_frame.rs`, `edge_frame.rs`, `graph_frame.rs`, `csr.rs` | `FramesProofs` (what indexes, operations and subgraphs are), `LibraryProofs` (chains of operations) |
| `Expressions` | expressions and their evaluation: `expr.rs`, `expr_eval.rs`, the neighbour and pattern readers, `bfs`'s evaluator | |
| `Traversal`, `ShortestPaths`, `Rankings`, `Communities`, `Sampling` | the files of `core/algo` | `FramesProofs` (`Traversal`: hops and components; `Sampling`: draws and walks), `LibraryProofs` (`Sampling`: samples) |
| `Partitioning` | `core/algo/partition.rs` | `FramesProofs` |
| `Patterns` | pattern matching, aggregation of neighbours, `traverse_graph` | |
| `Schemas` | `core/schema`: types, inheritance, validation | |
| `Documents`, `Files` | `.gf` texts, and the `.gfb`, Parquet and CSV files beside them | |
| `Storage` | files on a disk, saved block by block, crashes, loads | |
| `Connectors` | what each connector makes of a request: files, Flight, Cypher, AQL, SPARQL | |
| `Paging` | a load from a database, page by page, beside its writers | `PagingProofs` |
| `Flight` | the Flight service and its clients | `FlightProofs` |
| `Library` | the library's calls over all of these | `LibraryProofs` |
| `MCMutableGraphFrame`, `MCMutableGraphShared`, `MCExpand`, `MCOptimizer`, `MCLibrary` | the small instances | |

### MutableGraphFrame

The state follows the struct (lines 110-130). `nodeLive` joins the node batch
and its tombstones: the ids that have a row, TRUE for a live one. `lookup` is
`node_id_to_idx`, `localOf` and `idAt` are the two directions of the edge-local
index, `edgeLive` the edge tombstones, `baseCsr` and `dataCsr` the CSR in
`base_csr` and the one that `edge_data` carries (they are swapped separately),
`stable` the flag `base_snapshot_has_stable_edge_rows`, `pending` and `frozen`
the delta. Payload columns are abstracted to a serial number per edge, which
tells apart any two edges that the properties need told apart, parallel edges
included; the CSR id the code stores is kept beside it, because the code uses
that id as a row number after it has stopped being one. `graph` is the
`GraphFrame` that `freeze` returns; `freeze` consumes the frame, so no call
follows it.

Each public call is one action, with its error paths as disjuncts and its
half-done failures as the code leaves them: `AppendEdge` gives an unknown source
its local index before it refuses the destination, `UpdateEdgeRow` has
tombstoned the row by then, `DeleteNode` can panic on an out-of-range edge id
after the lookup and the node tombstone were written. `Renumbered` and `Merged`
are the CSR that `compact` rebuilds, numbered as `CsrIndex::build` numbers it.

`out_neighbors` changes nothing when it runs alone; it is the operator
`OutNeighbors`, and `ReaderView` is what it reports over all nodes. `FreezeView`
is what `freeze` would keep now. The two are computed from different
structures, by index and CSR entry on one side, by id and row on the other,
and most properties compare them with each other or across a step.

### MutableGraphShared

Readers and compactors are threads, each with a program counter, that call once
per sharing. A step ends where another thread could notice: a lock acquisition,
a load or a store of a shared cell. `pendingOwner` is the mutex of
`delta.pending`, `frozenReaders` the readers of the `RwLock` of `delta.frozen`; the
writers of that lock hold it within one step. `Exclusive` is an owner who has
the frame to itself between sharings and calls a mutator. The flag is a Relaxed
atomic: a reader's loads are one per entry, so `ReadScan` judges a prefix of the
entries by an earlier value and `ReadReturn` the rest by a later one; the
other orders Relaxed permits cannot be told apart from these, since the base
swap before the flag's store releases, and the lock after it orders the rest.

### Expand

A query plan of one `Expand` over one source graph is chosen in the initial
state and never changes. Nodes and rows are numbered in the order of their frames.
An edge type is a member of a set and the plan's `edge_type` the set of those it
matches; a `pre_filter` is the set of nodes it is true for and the set of nodes
whose evaluation is an error.

A search is a worker, with the locals of `expand_graph_raw` (lines 71-218) as its
state: `visited`, `todo` (what is left of `frontier`), `next`, `rows`, and `hop`.
`ScanNode` is one iteration of the loop over the frontier, `EndLevel` the end of
an iteration over the hops, `Merge` is `build_expand_result`. The frontier is a hash
set, so a level's nodes are scanned in any order; the entries of one node come
in the order of the CSRs, outgoing first, which matters only where a scan is cut
short, by an error (`Ends`) or a full limit (`Enough`). A plain or limited
expansion has one worker; a partition-parallel one has as many as
`execute_partition_parallel` cuts chunks, and they share nothing before `Merge`.

`Reach`, `RowsWithin` and `Expanded`, in `Hops`, say what an expansion is, without a search:
the ends of paths of at most so many hops, the rows such hops are over, and an
error if a scanned edge leads to a node the filter fails on.

### Optimizer

Every node of a plan but the `Scan` has one input, so a plan is a sequence of
operators. `Build` is a call of the builder, `Collect` one of the four ways to
collect: it optimizes what was asked for, executes that, and ends the query.

`Outcome` executes a plan: a fold of `Apply`, which has one operator per arm of
`execute`. A value is a graph, a node or edge frame with the columns it has left, or
pattern rows; a row is the number of a node or edge, in an order that sorts and
limits depend on. A predicate is a set of atoms, each with the rows it holds for, the
rows it is an error for, and the columns it names: `And` evaluates both sides, so
order and nesting do not matter, and a column that a projection has dropped is an error
for every row. A pattern has one step, `(a)-[]->(b)`, and a `where` is a set of atoms,
each about one of the aliases. An expansion means what `Hops` says; under
a `LimitAware` hint it has more than one result, and such plans are left to
`Expand` (`StopsShort`).

Each pass is a fold too: it goes up the plan and puts each operator on the rewrite of what
is below it, which is the order in which the code's recursion builds the new
tree (`Pushed`, `Collapsed`, `Pruned`, `Shortened`, `Rooted` are the
`rewrite_` and `collapse_` functions). `Optimized` runs the enabled ones in the order of
`Optimizer::new`.

### Library and what it composes

A behaviour of `Library` is about one topic, `work`. For the immutable half of the program a
call is one step: `Make...` puts another graph in the place of the present one (and can be
chained, `MaxSteps` times), `Ask...` leaves an answer beside the arguments it was asked
with. What such a call computes is an operator of the module for its file, written as the code computes it,
in its order and with its early returns; a failure is a status beside a value. The
operators have the code's loops as folds and recursive functions whose state is the loop's
variables (`Relaxed`, `Explore`, `Spurred` and `Yen` in `ShortestPaths`, `Round` in
`Partitioning`, `MoveNode`, `Pass` and `Phase1` in `Communities`). Randomness is a choice:
`CommunityDetection` returns what every order of the shuffle gives, and a step of a sample takes
every draw (`SampleSteps`).

`Frames` keeps the indexes of a frame as fields beside its batch, built by `NodesOf` and `EdgesOf`
where the code builds them and carried over where it clones them, so that an
operation that forgets to rebuild one can be told from one that does not.
An id or a string is a number, a column type a name, a float the number it is equal
to. `Expressions` has one evaluation for rows, neighbours and pattern bindings, which differ
only in `ReadColumn`.

`Storage`, `Paging` and `Flight` are state machines of their own, which `Library` instantiates.

* `Storage`: `disk` holds the blocks of each file. `Save` computes the writes of a format
  (`SaveWrites`), `WriteBlock` does the next, `Crash` ends a save in the middle of one, with
  any prefix of it written, and `ReadBack` is a load at any moment. `saved` remembers the graph
  of a save that went through.
* `Paging`: `load` is the loop of `load_nodes` or `load_edges`, one `FetchPage` per request.
  `remote` is the database, external, in the order it happens to have; `InsertRow`, `RemoveRow`
  and `MoveRow` are other clients. The queries name no order, which is why the order is state and a row comes in
  at any place of it. That the order stays as it is without a change is assumed of the database; one that orders its
  rows anew between two pages does so by moves, each of which counts as a change.
* `Flight`: `graphs` and `staged` are the two maps of `FlightGraphService`. A client's `write` is two
  `do_put`s (`WriteNodes`, `WriteEdges`) and may stop in between; an expansion is two `do_get`s;
  `Delete`, `Load`, `Describe` and the service's own `insert_graph` come in any order. Messages are as
  arrow-flight's encoder makes them: none of an empty batch, several of a long one.

## 3. Runs

| Run | Instance | Shows |
|---|---|---|
| `mutable_all` | three ids, one edge row, threshold 1, re-adding allowed, all calls but `update_edge` | type correctness and the agreement of all tables, readers and `freeze`, and when an edge may come back |
| `mutable_no_reuse` | three ids, two rows there and back, all calls, no id re-added | nothing comes back; the first compaction is invisible; what a failed call may change; until that compaction the tables implement `GraphStore` |
| `shared_compaction` | two ids, two rows, one reader, one compactor, mutators in between | locks, exact reads, atomic compaction, termination when nothing is pending |
| `expand_hops` | eight graphs of six nodes and four rows, seven frontiers and plans, four filters, 0 to 3 hops, three directions | every expansion returns what its hops lead to, or under a limit enough of it |
| `optimizer` | a graph of four nodes and five rows, plans of up to three of seventeen calls, the default passes and all passes | which plans keep their result, and by how much a pruned expansion differs |
| `library` | thirteen topics over graphs of up to five nodes, texts, files, databases and clients | each part keeps its promise, below |
| `freeze_after_compact` | as `mutable_no_reuse` | violation: `freeze` loses what `compact` merged |
| `shared_deadlock` | as `shared_compaction` | violation: reader and compactor wait for each other |
| `shared_torn_read` | as `shared_compaction` | violation: a read misses an edge |
| `expand_hint` | as `expand_hops` | violation: a hint changes what a limit returns |
| `optimizer_semantics` | the same graph, three calls, the default passes | violation: a filter that moves into an expansion changes the result |
| `gf_round_trip` | a graph with an edge of each direction on the disk of `library` | violation: a text that is read is not the graph that was written |

The properties, by the question they answer:

* *Do the tables stay together?* `LookupIsLiveRows`, `LocalIndexIsNewest`,
  `PendingUsesCurrentIndex`, `OneHomePerEdge`.
* *Do the two readers of them agree?* `ReadersSeeWhatFreezeKeeps`,
  `RowsDieWithTheirNodes`.
* *Does a step change what it should not?* `FirstCompactKeepsView`,
  `NothingComesBack`, `OnlyReAddedNodesReviveEdges`,
  `FailedCallLosesAtMostTheUpdatedRow`.
* *Is the whole what it promises?* `ImplementsStore`.
* *Can threads share it?* `LocksFollowCalls`, `UntornReadsAreExact`,
  `CompactIsAtomic`, `FlushedCallsReturn`.
* *Does a search, whichever it is, return the hops?* `ExpandsByHops`,
  `LimitFindsEnough`, `OnlyTheFilterFails`.
* *Do the passes keep what a query means?* `CarefulPlansKeepTheirResult`,
  `AnswersAgree`, `PruningAddsOnlyTheFrontier`.

* *Does an immutable graph stay one?* `SubgraphsAreInduced`: after any two operations every index
  agrees with the rows, and subgraphs are exactly the induced ones.
* *Do the algorithms find what there is?* `PathsAreCheapest`, `SearchesReachTheSame`,
  `RankingsAreExact`, `CommunitiesStayConnected`, `SamplesFollowEdges` and `ShardsCoverOnce` compare each
  with a definition that does not search: simple paths and their costs, what so many hops reach
  (`WithinHops`), the ways that pass a node, modularity.
* *Do queries row by row?* `PatternsAreHomomorphisms`: the bindings of a pattern are all
  assignments that satisfy it, and no other; aggregates are those over the rows.
* *Does data survive its way in and out?* `DeclaredSchemasHold`, `LoadsReturnWhatWasSaved` and
  `SourcesAgree`: a document that is accepted is as it declares, a load returns what
  a save put out, with the exceptions of section 4, and a file and a database give the same rows.
* *Do remote calls add up?* `EachChangeCostsAtMostARow` and `LoadEnds` (the only one of these that needs
  fairness), `UploadsArriveWhole`.

### Bounds, and why they are enough

`MaxSerial` bounds the edges ever appended and `MaxLocalIdx` the indices ever
given out; a call that would exceed one of them is not taken. With
`FlushThreshold = 1` two appended edges suffice to fill a chunk, and
`MaxSerial` leaves room for them beside the wrapped rows: every mixture of base,
chunk and buffer occurs. (The tests of the repository run with 2, a release
build with 1024; the code compares only with the buffer's length.) One row is
enough for a node to have an original edge, and two rows there and back give
each node an edge in each direction and the CSR an order that renumbering
disturbs. Three ids give an edge that a deletion must spare and, with one of
them absent at the start, an endpoint that is unknown, one that becomes known,
and one with an index of its own. With re-adding allowed, an id can be deleted
and added again without bound, and `MaxLocalIdx = 3` lets one id hold two
indices. `mutable_all` leaves `update_edge` out, which is `update_edge_row` behind
two lookups and is called in the other runs. One reader and one compactor
suffice for the races of section 4; readers do not write any cell that another
reader looks at.

The graphs of `MCExpand` have a chain that takes all three hops, a row between two
frontier nodes, a self-loop or a second way into the chain's end, and rows of every
direction and both types. With `NumThreads = 2` a frontier of five ids is cut into
chunks of three and two, and one of two ids is below the threshold and is not cut; the chain
starts in one chunk and is entered half-way from the other, so two workers find
the same nodes at different levels. The limits lie below, at and above the size of the
frontier and of the whole result. The filters pass everything, cut the chain in the
middle, or fail at its end.

Each rewrite of the optimizer looks at an operator and what it meets on its way down, so
three calls bring about each of them alone and each pair: a filter that passes a
projection and then joins a filter or enters an expansion, a limit over a limit over a
sort, a pattern over projected anchors. The calls name both columns of the nodes, one of the
edges, one that an aggregate adds, and have a predicate that is an error for one node; the
limits are 0, 1 and 2. The enabled passes matter only by what they rewrite, and both sets
run all those of the default; the second adds the others, of which
`partition_parallel` keeps `StopsShort` from applying.

`MCLibrary` names its instances by what they are for. Paths are searched on twelve weightings of a graph with two
ways round and a pair of opposite edges, weights of zero included, so that ties, detours and
paths that share a root occur; edges side by side and a loop are in `MCDouble`; null and negative weights, which are errors where they are met, are not in this instance. Communities are
found on every graph over six pairs, one of them doubled and one a loop, in every order of the shuffle.
`MCMixed` has edges of all four directions and a node apart, `MCNull` missing values, `MCLonely` no
edges and a node of two labels, `MCTail` a cycle with a tail. The three shard counts put the ends of an edge together and
apart under each method, and two hops cross a border twice. Patterns take two steps, an
alias that comes back, a step of up to two hops, a step both ways, optional steps, and a condition over
two aliases. Texts pair every two of five field lists on a label and the label that extends it.
A page has one or two rows of at most three, so that a change in front of the skip shifts rows over its edge, and two changes
are what it takes to lose a row and to see another twice. Three clients, one of which has the wrong token,
write one name twice; messages have two rows, so that an upload can be of none, one and several. Two
saves and three graphs are enough for a new file beside an old one, of which `MCPlain` is one that text keeps (`TextKeeps`),
`MCArrows` has the directions that it does not, and `MCLonely` two labels and no edge. Larger
graphs repeat these cases: every property is about pairs of nodes, paths or rows, and the instances hold every
relation of two of them.

`CHECK_DEADLOCK FALSE` is set where the system does stop: `freeze` consumes the
frame, a thread calls once, a query ends, a question has been answered, and the deadlock of `shared_deadlock` is
itself a state of `MutableGraphShared`.

### Fairness

`FairSpec` assumes weak fairness of each thread's steps once its call has
begun: the operating system schedules a runnable thread. Nobody is assumed to
begin a call. Weak fairness of a lock acquisition is enough because each thread
calls once, so a lock that is released is not taken again for ever; which of
the waiting threads `std`'s locks prefer does not matter for the same reason.
`LoadEnds` assumes weak fairness of `Fetching`, the connector's loop: the task that runs it is
polled, and a request is answered or fails. The database's other clients are under no
assumption; that they change it a bounded number of times (`MaxChanges`) is one the code
cannot do without, since a database that grows faster than it is read is never read to its end.
`Expand` has no liveness property: its steps are iterations of loops whose ends
`ExpandsByHops` already depends on.

## 4. Where the code departs from its documentation

1. **An edge appended before `compact` is not in the frozen graph.** `compact`
   moves the delta into the CSR and clears the chunks with their payload rows;
   `freeze` builds its edges from the original rows and the chunks. The
   comment of `freeze` promises that delta edges keep their payload. Run
   `freeze_after_compact`.
2. **A reader and a compactor can deadlock.** `out_neighbors` locks `frozen`, then
   `pending`; `compact` locks `pending`, then `frozen` for writing. The comment
   of `compact` says readers keep working during the swap. Run `shared_deadlock`.
   `FlushedCallsReturn` shows that this is the only way to hang: with an empty
   buffer everyone returns.
3. **A read can miss an edge during a compaction.** `out_neighbors` loads the base
   before it locks the chunks; a compaction in between empties the chunks into
   a base the reader does not hold. Run `shared_torn_read`;
   `UntornReadsAreExact` shows that nothing else goes wrong.
4. **A hint changes a result.** `ExecutionHint` is documented as not changing the
   meaning of a plan. A limit above an expansion keeps the first nodes in the
   order of the node frame; an expansion under `LimitAware` stops at the first
   nodes its search meets, which are others, and without the rows it has not
   scanned. Run `expand_hint`; `LimitFindsEnough` shows what is kept: the number
   of nodes. The optimizer adds the hint only with `early_termination`, which is
   off by default.

5. **A filter over an expansion changes its meaning.** `OptimizerPass` is documented
   as semantics-preserving. `traversal_pruning`, which is on by default, makes of
   `expand().filter_nodes()` an expansion that does not walk through the nodes that the
   filter rejects, does not apply the filter to the frontier, and yields a graph
   where the filter yielded nodes. So `collect()` accepts what it would refuse,
   `collect_nodes()` returns other nodes, and a `sort` above the filter fails. Run
   `optimizer_semantics`; `PruningAddsOnlyTheFrontier` shows the one direction that is kept:
   every node returned passes the filter and is reached, or is one of the frontier.

6. **A text that is written is not always read as it was.** The doc of `write_gf` calls its output
   round-trippable (`gf_writer.rs:3`). The writer puts an edge whose direction is In as
   `src <-[TYPE]- dst`; the parser takes the right of that arrow for the source, so that the edge comes
   back with its ends exchanged, still of direction In. An edge that leads both ways comes back as two, and several
   labels are written with a separator that the grammar does not read. Run `gf_round_trip`;
   `LoadsReturnWhatWasSaved` shows what is kept: a graph of which no node has two labels and no edge
   leads in or both ways comes back row by row, and of any other, if it is read, the nodes do and the same pairs are joined.

Beside these six, which a run shows, modelling met departures and limits that the
`library` run keeps out of its properties' claims by name:

* **Paths.** With a cycle of edges that cost nothing, equal costs can make two nodes each other's
  predecessor, and the walk back of `reconstruct_path` and `enumerate_rec` does not end
  (`HasFreeCycle`). Yen's search bans one row of edges side by side, so that `k_shortest_paths` can
  return fewer paths than there are (`Parallel`). With weights of zero, weighted
  betweenness counts ways before all are known (`Positive`).
* **Communities.** `compress` counts the weight inside a community twice in its degree; later levels move by other
  gains than modularity's.
* **Sampling.** A configuration without a direction has no candidates; a node is drawn from again
  each time it is met.
* **Shards.** `distributed_expand` returns the edges of a shard between found nodes whatever their type,
  but of the border only those by which a node was found; the edge rows it records inside shards are not used.
* **Schemas.** A node that lists a label twice violates its own unique field; a unique field is unique per
  label, not over the labels that inherit it; nothing is validated where no label (or type) is declared; a default never
  fills in a missing value; a column that is declared `Any` must be of strings.
* **`.gf`.** A cut file can be a smaller graph. Columns of nulls are lost.
* **Parquet and `.gfb`.** A graph without edges cannot be read back from Parquet; a crash between the two files leaves frames
  of different saves, which load when they fit: nothing in the files tells that they are not of one save, and
  `LoadsReturnWhatWasSaved` asks only that each is the whole of one. The schema in a `.gfb` file is never read back, and inspecting
  one ignores the minor version.
* **Expressions.** `bfs` has its own evaluator, in which null equals null, an error is false and string
  operations are false; `SearchesReachTheSame` speaks of filters that compare values of one kind (`Plain`).
* **Connectors.** Pages have no order, so rows can be lost or, for edges, doubled under concurrent changes,
  and nodes refused as duplicates under insertions alone; each change costs at most one row beside its own (`EachChangeCostsAtMostARow`). Cypher's expansion names a variable that its pattern does not bind when a predicate is
  given; AQL's types only the last edge of a path; SPARQL's path range is no SPARQL. Nulls mean other things to
  databases than to the executor, so `SourcesAgree` compares plain predicates only.
* **Flight.** Uploads of one name that overlap are joined half by half, and half an upload that was left poisons the
  next one (`disturbed`); a delete leaves what is staged; an upload longer than one message is cut to the first, which
  `UploadsArriveWhole` takes for the upload, and one without rows is refused; `poll_flight_info` drops the token; `list_flights`
  reads the names and then each graph, so that a delete in between fails the whole listing (not modelled: it changes nothing).

Where a plan is not careful, in the sense of `CarefulPlansKeepTheirResult`, passes change
whether it is an error, and by `AnswersAgree` no more than that: a predicate joined to the
filter below it is evaluated on rows that the filter had removed; a root conjunct of a
pattern's `where` is evaluated on projected anchors, or shields the other conjuncts from
a row; two projections become one, and a column that only the first had dropped is dropped
silently instead of being missed; and `limit(0)` above a `sort` panics under
`early_termination` (`top_k_batch` selects position `k - 1`).

Once a compaction has renumbered the CSR ids (`stable` false), the code goes on
using them as row numbers. Exploring the model shows what follows: a second
`compact` drops entries whose id is no live row; `delete_edge` no longer hides a
row from readers; `delete_node` tombstones other rows than the node's, or
panics on an id past the end; two compactors at once can duplicate the delta;
and a reader that overlaps the fall of the flag can see a deleted row. No
documentation speaks of these states, so they are no findings; the properties that the
code keeps only before the first compaction say so with `stable`.

## 5. Proofs

Every theorem is about all values of the constants, under the assumptions that the
modules state beside their `CONSTANTS` and that TLC evaluates on every run.
Where a theorem has a hypothesis of its own, it says what the code does not
promise otherwise, or what it establishes elsewhere:

| Hypothesis | Of | Why |
|---|---|---|
| `ReuseIds = FALSE` | `NoReuseCorrect`, `StoreRefinement`, `StoreImplemented` | a client that adds an id again brings back what it had deleted; what then comes back, and no more, is `RevivalCorrect` |
| `"compact" \notin Calls` | `StoreImplemented` | what `compact` merges `freeze` loses (section 4, 1) |
| `OneCompactor` | `AtomicCorrect`, `UntornCorrect` | two compactions at once can merge a delta twice (section 4); the run has one, too |
| `BatchSizes \subseteq Nat` | `LoadTypeCorrect`, `LoadCorrect` | `batch_size` is a `usize` |
| `GraphsAreFrames` | `UploadsCorrect` | a client uploads a `GraphFrame`, whose constructor refuses an edge without its ends |
| `IsFrame(g)`, `AllIds(g) \subseteq DOMAIN Hash` | the theorems about partitions | what the constructors of frames establish; the hasher takes any string |
| `FramesGiven` | `SubgraphsCorrect` | the graph that operations begin with is as the constructors build it: a batch has a value in each column of each row, the indexes are those of the rows, ids are unique and no edge dangles (`WellBuilt`). A projection names a list of columns and `gather` a list of row numbers. TLC confirms it of the graphs of the instance |
| `ShardsGiven` | `ShardsCorrect` | the graphs that are cut up are built as well and have the reserved columns (`FullGraph`); the hasher takes any id, and ids can be ordered, as strings are (here numbers stand for them); a number of shards is a `usize`. TLC confirms it of the instance |
| `SamplingGiven` | `SamplesCorrect` | the graphs that are sampled are built as well (`WellBuilt`); seeds are a list; hops and fan-outs are `usize`s. TLC confirms it of the instance |

### The mutable graph

| Theorem | Property | Module |
|---|---|---|
| `TypeCorrect` | `TypeOK` | `MutableGraphFrameProofs` |
| `LookupCorrect` | `LookupIsLiveRows` | |
| `LocalIndexCorrect` | `LocalIndexIsNewest` | |
| `PendingCorrect` | `PendingUsesCurrentIndex` | |
| `RowsCorrect` | `RowsDieWithTheirNodes` | |
| `ReadersCorrect` | `ReadersSeeWhatFreezeKeeps` | |
| `FirstCompactCorrect` | `FirstCompactKeepsView` | |
| `HomesCorrect` | `OneHomePerEdge` | |
| `RevivalCorrect` | `OnlyReAddedNodesReviveEdges` | |
| `NoReuseCorrect` | `NothingComesBack` | |
| `FailuresCorrect` | `FailedCallLosesAtMostTheUpdatedRow` | |
| `StoreRefinement` | `ImplementsStore` | |
| `StoreImplemented` | all of `GraphStore`, for a client that does not compact | |

The assumptions are about the wrapped graph: finitely many ids, edges between
its nodes, and a local index table that has each endpoint once. `GraphFrame`'s
constructors establish them.

The argument is a tower of invariants, each proved inductive with the help of
those below it.

* `IndTypes` is `TypeOK` and a finite base CSR. `TypeOK` alone is not
  inductive: `Renumbered` numbers an entry by the cardinality of what precedes it,
  which is a number only for a finite set.
* `LookupIsLiveRows` is inductive by itself once types are known.
* `IndIndices` joins `LocalIndexIsNewest` and `PendingUsesCurrentIndex`. An append can
  give out a new index, so that an id's index is its newest is what keeps the
  indices of the pending edges current.
* `IndRows` adds that, until the first compaction, the base CSR is the
  wrapped one, and the first `Len(InitLocalIds)` indices still stand for the ids
  they stood for at the start. Without the latter, a step could let the in-CSR,
  which is built from the original rows, look up another node than the one deleted.
* `IndHomes` is `OneHomePerEdge` and `Numbered`: base entries and deltas are numbered
  below the next serial, and hold indices that the table has. Only so does a new
  serial have no home yet.
* `IndRetired`, for a client that adds no id again: every index stands for an id that is
  listed or was deleted, and no id is both. An edge that a step would bring back
  has an end that the step lists, which such a client cannot have deleted.

`ReadersCorrect` and `FirstCompactCorrect` then follow in each state or step: a base
entry's ends live by index exactly if the row's ends live by id, and
renumbering keeps the set of edges (`RenumberedKeepsEdges`). For the action properties
and the refinement the dozen calls fall into three kinds: those that change nodes or
tombstones only (`NodeStep`), those that end in `add_edge_row` (`EdgeStep`), and
compactions (`MergeStep`), and one lemma of each kind says which edges it takes, adds or
moves. `StoreRefinement` maps the frame's nodes to `lookup` and its edges to
`FreezeEdges`; a call that fails maps to a stutter, or to the store's own failure. It speaks of the steps until the
first compaction (`stable`), after which `freeze` loses what was merged; `StoreImplemented` is the same of all
steps where there is no compaction.

### The mutable graph, shared

`MutableGraphSharedProofs`, for any graph, readers and compactors:

| Theorem | Property |
|---|---|
| `SharedTypeCorrect` | `SharedTypeOK` |
| `LocksCorrect` | `LocksFollowCalls` |
| `AtomicCorrect` | `CompactIsAtomic` |
| `UntornCorrect` | `UntornReadsAreExact` |

* `Progress` says, site by site, which of the cells a compaction has already stored and
  that the others are as it found them (`before`). The refinement shows the cells as
  they were found until the last store, which maps to the atomic `Compact`.
* `Reading` says of a reader what it has collected and what it holds: a base that is
  the one of before or the merged one, chunks of before or none, and
  the deltas. A read that took base and chunks from the same side of the compaction (`OneSided`) has
  every edge in what it has collected and has still to look at, and ends with each once.
* `KeepsFound`: what a sharing began with is not written but by its compaction.

### The expansion

`ExpandProofs` proves, for any number of nodes, threads and types and any plans
that satisfy the assumptions of `Expand` (the frontier lists a node once, and a
filter is not both true and an error):

| Theorem | Property |
|---|---|
| `TypeCorrect` | `TypeOK` |
| `HopsCorrect` | `ExpandsByHops` |
| `FailuresCorrect` | `OnlyTheFilterFails` |
| `LimitCorrect` | `LimitFindsEnough` |

Everything is said of one worker, from its chunk, and put together at the end:
the chunks cover the frontier and nothing else, and `Reach`, `RowsWithin` and
`FailsWithin` distribute over the union of the chunks.

* `AllSound`, for every plan: what a worker has visited and the rows it has
  retained are within the plan's hops, what it has still to scan and what it has
  just found (`Frontiers`) are within the hops of this level and the next, and each
  row it retained has both its ends visited. This alone gives `OnlyTheFilterFails`.
* `AllComplete`, without a limit: while a worker scans (`Levelled`), what it found
  before this level is exactly what so many hops reach, and every node outside
  `todo` and `next` has all its entries taken (`Exhausted`). A worker that stops
  after its last hop, or because a level was empty, has `Finished`: in the second
  case no hop leaves what it visited, and `ReachClosed` says that such a set holds
  what any number of hops reaches.
* `Reach` speaks of paths, so a path is extended by a hop and its last hop taken
  off (`ReachNext`, `ReachLast`); `ReachClosed` needs induction on the number of hops, which
  is had from the well-foundedness of `<` on the naturals, applied to a set.

* `AllKept`, under a limit: a worker that scans is `Levelled`, as without one, and has less than the limit, or
  only the nodes it began with, since the code looks at the limit only when it takes an entry; a worker that is done is `Finished` or
  `Filled`: it stopped at an entry at which it first had as many as the limit asks for. The entries
  of a node are linearly ordered, so a scan that stops has a last entry taken (`LastEntry`) and one
  before it that was not enough.

### Frames and their parts

`LibraryProofs` proves of `Library`, beside everything else that its behaviors are about:

| Theorem | Property |
|---|---|
| `SubgraphsCorrect` | `SubgraphsAreInduced` |
| `ShardsCorrect` | `ShardsCoverOnce` |
| `SamplesCorrect` | `SamplesFollowEdges` |

The invariant of the first is `FramesBuilt`: the graph that operations work on is `WellBuilt` at any time, that is, each of its frames
is the one that the constructors make of its batch. It is more than agreement of indexes and rows, which alone is not
inductive: a slice of the out-CSR lists its entries in the order of the rows, and an operation that carries an
index over from one frame to the next needs that it is the very index of the new rows. Each of the thirteen operations of `MakeGraph` keeps it, by a
lemma of its own (`SubgraphMade`, ... `FeaturesMade`). The facts behind them are in `FramesProofs`, for any frames:

* `CsrIs` and `FrameSlices`: sorting the entries and cutting them where `Csr` does gives each
  source its rows, once and in order (`RowsSorted`, `FirstEntries`), so that what a slice leads to is what the rows say (`NeighborsAre`).
  `LocalIs`, `IdsIndexed` and `TypesIndexed` say the same of the other indexes, `CooLength` and `CooEnds` of the COO lists.
* `AscendingLists`: numbering the members of a set by how many are no greater lists them all, once and in
  order; so a mask keeps its rows (`FilterRowsKeep`), and a part of a graph is one (`CutOut`, `SubgraphBuilt`).
* `WithinHopsIs` and `KHopIs`: searching hop by hop along the slices finds what paths of so many rows
  lead to (`Within`). `ComponentsAgree`: as many rounds as there are nodes close a component, which every one of its
  nodes then has in common, so that numbering nodes row by row gives two nodes one number exactly if they are in one component
  (`ComponentsNumbered`), and the largest is one of greatest size (`LargestIs`).
* `UpToIs` and its neighbours (`WithNewFolds`, `FlattenSteps`, `RoundsExist`, `PartsExist`): what a fold or a recursive function of the model
  computes is what its steps say, from the existence of a function that takes these steps, which is had by induction on
  the naturals, applied to a set.

The invariant of the second is `ShardsAsked`: an answer is what the call makes of the graph it was asked of. That these
answers are right rests on theorems about operators, for any frame, any number of shards above 0 and the three methods:

| Theorem | Says |
|---|---|
| `SubgraphCorrect` | a subgraph on any ids is a frame, with the rows of these ids and the edges between them, each once and in order |
| `PartitionCorrect` | every node has one shard, every edge is in the shard of its ends or in the boundary, each once and in order; no shard has an edge that dangles |
| `DistributedSearchCorrect` | so many rounds find exactly the ends of paths of so many edges of the whole graph (`Within`); a boundary edge that is recorded is between found nodes; each shard puts out its found nodes and the edges between them |

* `AssignedTotal`: each method gives every node a number from 1 to `n`; for bands that needs that a band is not empty and
  that the last one takes what is left.
* `Searched` is the invariant of the rounds: what is found is `Within` the hops, and only the frontier has
  neighbours that are not found. `LeadsSomewhere` is why a round loses nothing: an edge of the graph is one of the
  shard of its ends, or of the boundary.

* `merge` and `distributed_expand` join parts by a concatenation that merges their schemas: parts of one graph have
  its fields (`InParts`, `LikeGraph`), so that their rows come through as they are (`ConcatIs`, `JoinedIs`), and since no
  node is in two of them the joined frame is built again (`FlatColumn`, `MergeIs`).
* `Parted` says that lists keep the rows of another between them, each in one of them. Where each row went is a
  function that loses and doubles none (`TakenFrom`), so that equal rows are as often in the parts as in the whole
  (`PartedTimes`), and lengths add up (`PartedLength`, `LengthsAdd`), which gives the sums of `stats` (`StatsAdd`).
* A shard by range has no id between those of another, since a band is a quotient of an id's rank
  (`QuotientsGrow`, `BandsInOrder`).

The invariant of the third is `SamplesGrow`: unlike the other calls, a sample is built over many steps, and what is true of
it at the end needs more than that of the steps between (`SampleGrows`). A node's rows are bounded by the times that it
was *met*, but between two draws it may have been met and not have drawn yet; so the invariant counts the times that
it has had its draws (`Used`: met, less what is in the frontier and in the next one), bounds the rows drawn from it by that count
times the largest fan-out, and says that the count is never negative. Nodes of the frontier are within one hop less
than the others, and what is listed beside a node is its row. `HopOver` and `FrontierDraws`, in `FramesProofs`, keep it over the two kinds of steps,
`Drawing` between the draws of one node, which are a fold.

* `DrawableLeads`: the candidates of a node are rows that lead on, and there are some where any row does. The second half is
  why a walk that stops has nowhere to go (`FurtherGoes`, `WalksGo`).
* `GrownFollows` takes the property from the invariant: `Used` is no more than `met`, and `Within` is what `WithinHops` finds.

### Paged loads and uploads

| Theorem | Property | Module |
|---|---|---|
| `LoadTypeCorrect` | `Paging`'s `TypeOK` | `PagingProofs` |
| `LoadCorrect` | `EachChangeCostsAtMostARow` | |
| `UploadsCorrect` | `UploadsArriveWhole` | `FlightProofs` |
| `PagedLoadsCorrect` | `EachChangeCostsAtMostARow`, of `Library` | `LibraryProofs` |
| `UploadsCorrect` | `UploadsArriveWhole`, of `Library` | `LibraryProofs` |

* `IndPaging`: as long as nothing changes, what has come is the start of the database up to the skip
  (`ComeIsTheStart`). Otherwise it keeps account (`Costs`): the rows that have come and will come again, because
  they lie behind the skip or came twice, are no more than the insertions and moves; the rows in front of the skip that no
  change was about and that have not come are no more than the removals and moves. A change shifts one row over the skip
  at most (`RemovalShifts`, `InsertionShifts`), and a page moves the skip over the rows it brings (`PageShifts`, `PageCosts`).
* `IndFlight`: halves are numbered by the upload they are of, and each upload is of one client (`EdgesComeLast`); as long as nothing
  `disturbed` a name, its stored halves are of one upload (`StoredWhole`), none of them is staged (`StoredApart`), and the nodes
  of the one upload under way are all that is staged (`StagedAlone`).
* What holds of `Paging` and `Flight` alone holds of them in `Library`, among its other calls: a step of `Library` is one of
  theirs or leaves their variables alone (`LoadsStay`, `UploadsStep`), so that a behavior of `Library` is one of `Flight`,
  and one of `Paging` where it is about a load (`IndLoads`).

### The optimizer

`OptimizerProofs`, for any graph, columns and values in them, any operators that the builder may be called
with, any set of passes, and plans of any length:

| Theorem | Property | Says |
|---|---|---|
| `TypeCorrect` | `Optimizer`'s `TypeOK` | no operator and no pass makes up a row or a column |
| `PassesKeepTheMeaning` | | any set of passes keeps what a plan means, unless `traversal_pruning` is among them and a node filter reaches an expansion |
| `AnswersAgreeCorrect` | `AnswersAgree` | so two answers are the same |
| `CarefulCorrect` | `CarefulPlansKeepTheirResult` | and so are results, errors included, of plans that name columns where they are |
| `PruningCorrect` | `PruningAddsOnlyTheFrontier` | where `traversal_pruning` does take a filter in, it adds only nodes that the expansion starts from |

The inductive invariant `IInv` is small, because a query is built and then collected once: the result is not
there yet or is what the executor makes of the optimized plan. The work is in the plans.

* The executor's results cannot be compared pass by pass: moving a filter can turn an error into an answer
  and back, in one pass and then in another. So the passes are compared by what a plan means (`M`): its
  execution without the errors of predicates and of missing columns, which no order of filters
  changes. The executor returns that meaning whenever it returns something, or the plan is careful (`OutcomeMeans`).
  Errors of the wrong kind of frame belong to the meaning; the panic of an empty `TopK` does not, and a plan that
  meets it is not careful. A `LimitAware` hint means nothing here: what it does to an expansion is
  `LimitCorrect`, and a plan in which it would is not collected (`StopsShort`).
* Beside a value, `M` keeps whether a node filter has met an expansion (`met`), whether one would
  now (`open`), and whether every operator was careful. Two plans are `Alike` if they agree on the value, and the
  second is careful if the first is. Each pass keeps plans `Alike`, by a lemma of its own that goes up the plan as
  the pass does (`PredicatePushdownAgrees`, ... `PatternExpansionAlike`).
* What a pass does to one operator rests on an equation of the executor: a filter passes a projection
  that keeps its columns (`FilterPastProject`), filters and projections join (`FiltersJoin`, `ProjectsCollapse`),
  two cuts are the smaller one (`LimitsJoin`), a cut of a cut sort is a cut of the sort
  (`ToppedMeans`), and the conjuncts about the root of a pattern filter its anchors (`RootsFilter`).
* Two facts about what the passes put out are needed on the way: `early_termination` takes away the hint below a
  limit, which is right only because a hint under a limit is one that it has put there itself (`PairedAppend`); and
  `traversal_pruning` changes nothing unless a filter meets an expansion (`TraversalPruningIs`). That
  the earlier passes neither make such a meeting nor hide one is part of what they keep (`met`).

`PruningCorrect` is about the plans that the others except. The pushdowns leave a filter right above an expansion where
it is, and the later passes keep the meaning as ever (`LateAlike`), so that the pruned plan means either what it did or the expansion
with the filter in its `pre_filter` (`PruningMeans`). Every path of that expansion is one of the wider expansion,
and ends in a node that passes the filter unless it has no hop (`PrunedReach`).

Induction over lists cannot be had from the library, whose theorems on it take an operator. `ListInduction` says
the same of a set of lists, and follows from the well-foundedness of `<`. The folds are written as functions of
the length of a prefix, and `FoldAppend` gives each its value at one operator more.

The proof found two faults of the model, now mended. `Careful` let a pattern's `where` name the column that only an
aggregate has: `pattern_expansion` makes of that conjunct a filter above the aggregate, where the column
exists, and of an error an answer. TLC finds it, once a call of the instance names that column; it has one now. And
arms of `CASE` overlapped in the executor's `Apply` (and in `Schemas` and `Connectors`), where
TLC takes the first and the language does not say which: a failure below is now decided first.

### What is only checked

* `FlushedCallsReturn` and `LoadEnds`: liveness under fairness is beyond the prover.
* Of the properties of `Library`: what the algorithms compute (`PathsAreCheapest`, `SearchesReachTheSame`, `RankingsAreExact`,
  `CommunitiesStayConnected`), `PatternsAreHomomorphisms`,
  and what schemas, formats and sources agree on (`DeclaredSchemasHold`, `LoadsReturnWhatWasSaved`,
  `SourcesAgree`). What these say is not about a behavior but about a computation: an answer is computed in one step (a save
  and a load in a few, with the conversions of a format between them), and to prove
  one is to prove a fold or a recursive function over lists and trees correct for every input. That is induction over
  data, for which the library's theorems take an operator. The facts about frames above show what it takes
  without them, a set of lengths or numbers of rounds at a time; a heap of paths, a tree of expressions, a text or a chain
  of labels has no such length at hand. No module declares a `RECURSIVE` operator; recursion is by functions, so that none of these is out of
  the prover's reach for want of its backend.

## 6. What is left out, and why

Within the mutable graph: payload columns, schema widening and label columns of
the batches (data the properties do not tell apart); the reserved-column checks
of `add_nodes_batch` and the schema comparison of `add_edge_row`, which fail
before anything is written and so coincide with the failures that are modelled;
poisoned locks (a thread that panics while it holds a lock does not occur
in the two shared calls).

Within `Library`: the text of queries and of expressions' serialized form, JSON, compression and
bytes; the grammar's lexing (a text is a sequence of items, and an id or value that
it cannot read is a member of `NotIdent` or `Unreadable`, the latter empty in the instance);
floating point (weights are integers, scores exact fractions on a common scale, and `cost`s are compared without
`COST_EPS`); threads inside `brandes_parallel`, whose sums do not depend on their order; dates beyond a few texts. Of the database
connectors, what a backend answers is external: rows that satisfy the query as the text of it says.
A list of other than strings, which makes the `.gf` writer panic, is not saved in the instance.

Other components, and the reason, are in `PROJECT.json`; in short, `display` formats, the Mojo runtime loads a
library whose kernels are not Rust, the command line, WASM and web page are front ends, and the
Python bindings enter as the calls of `Library` without their conversions.

## 7. Plan

The parts that keep state or search are modelled, and what has an inductive invariant is proved. What is left:

1. `SearchesReachTheSame`, of which `WithinHopsIs` is the half that does not search.
2. The counting construction of a CSR's offsets, which `Csr` states by the rank of an entry among the others.
