------------------------- MODULE MutableGraphShared -------------------------
(***************************************************************************)
(* A mutable graph behind an Arc: out_neighbors and compact take `&self`,  *)
(* so threads that share the frame interleave their steps.  Mutators take  *)
(* `&mut self` and run only while no shared call is under way.             *)
(*                                                                         *)
(* A thread's steps are its lock acquisitions and its loads and stores of  *)
(* the shared cells: base_csr and edge_data (ArcSwap), the stable-rows     *)
(* flag (AtomicBool), delta.pending (Mutex) and delta.frozen (RwLock).     *)
(* The tombstones and the id tables cannot change during a shared call.    *)
(* The flag is stored and loaded Relaxed; every other order it allows is   *)
(* ruled out by the base_csr swap before it and the frozen lock after it.  *)
(***************************************************************************)
EXTENDS MutableGraphFrame

CONSTANTS
    Readers,     \* threads that call out_neighbors
    Compactors,  \* threads that call compact
    NoThread     \* nobody, as the owner of a lock

Threads == Readers \cup Compactors

ASSUME ThreadsAssumption == Readers \cap Compactors = {} /\ NoThread \notin Threads

VARIABLES
    at,            \* where each thread is in its call
    pendingOwner,  \* the thread that holds the pending mutex
    frozenReaders, \* the threads that hold the frozen lock for reading
    held,          \* the base entries a thread has loaded and not used yet
    chunks,        \* the chunks a compactor has cloned
    node,          \* the node index a reader asked for
    got,           \* what a reader has collected
    seen,          \* history: the neighbours when the last exclusive call ended
    seenStable,    \* history: whether the CSR ids were edge rows then
    newBase,       \* history: the reader loaded a base that a compactor stored
    newChunks,     \* history: the reader locked chunks that a compactor cleared
    before         \* history: the edge cells when the running compaction began

threadVars == <<at, pendingOwner, frozenReaders, held, chunks, node, got, newBase, newChunks>>
historyVars == <<seen, seenStable, before>>
sharedVars == <<vars, threadVars, historyVars>>

Idle(t) == at[t] \in {"idle", "done"}
Quiet   == \A t \in Threads : Idle(t)
Cells   == [base |-> baseCsr, data |-> dataCsr, stable |-> stable,
            pending |-> pending, frozen |-> frozen]
Nothing == [edges |-> {}, twice |-> {}]

Stored(c)  == at[c] \in {"store_flag", "clear", "done"}
Cleared(c) == at[c] = "done"

-----------------------------------------------------------------------------
AllIdle      == [t \in Threads |-> "idle"]
NothingHeld  == [t \in Threads |-> {}]
NoChunks     == [c \in Compactors |-> <<>>]
NothingAsked == [r \in Readers |-> 1]
NothingGot   == [r \in Readers |-> Nothing]
NotYet       == [r \in Readers |-> FALSE]

SharedInit ==
    /\ Init
    /\ at = AllIdle /\ held = NothingHeld /\ chunks = NoChunks
    /\ node = NothingAsked /\ got = NothingGot
    /\ newBase = NotYet /\ newChunks = NotYet
    /\ pendingOwner = NoThread /\ frozenReaders = {}
    /\ seen = [i \in DOMAIN idAt |-> OutNeighbors(i)]
    /\ seenStable = stable /\ before = Cells

\* The owner has the frame to itself again: the threads of the last sharing are
\* gone, and new ones may be started after its call.
Exclusive ==
    /\ Quiet
    /\ Mutate
    /\ at' = AllIdle /\ held' = NothingHeld /\ chunks' = NoChunks
    /\ node' = NothingAsked /\ got' = NothingGot
    /\ newBase' = NotYet /\ newChunks' = NotYet
    /\ UNCHANGED <<pendingOwner, frozenReaders>>
    /\ seen' = [i \in DOMAIN idAt' |-> OutNeighbors(i)']
    /\ seenStable' = stable' /\ before' = Cells'

-----------------------------------------------------------------------------
(* out_neighbors. *)

\* A live index, and the base snapshot as it is now.  (A dead one returns an
\* empty list without touching the shared cells.)
ReadStart(r, i) ==
    /\ at[r] = "idle"
    /\ LocalIsLive(i)
    /\ at' = [at EXCEPT ![r] = "read_frozen"]
    /\ node' = [node EXCEPT ![r] = i]
    /\ held' = [held EXCEPT ![r] = {e \in baseCsr : e.src = i}]
    /\ newBase' = [newBase EXCEPT ![r] = \E c \in Compactors : Stored(c)]
    /\ UNCHANGED <<vars, historyVars, pendingOwner, frozenReaders, chunks, got, newChunks>>

ReadLockFrozen(r) ==
    /\ at[r] = "read_frozen"
    /\ at' = [at EXCEPT ![r] = "read_pending"]
    /\ frozenReaders' = frozenReaders \cup {r}
    /\ newChunks' = [newChunks EXCEPT ![r] = \E c \in Compactors : Cleared(c)]
    /\ UNCHANGED <<vars, historyVars, pendingOwner, held, chunks, node, got, newBase>>

ReadLockPending(r) ==
    /\ at[r] = "read_pending"
    /\ pendingOwner = NoThread
    /\ pendingOwner' = r
    /\ at' = [at EXCEPT ![r] = "scan"]
    /\ UNCHANGED <<vars, historyVars, frozenReaders, held, chunks, node, got, newBase, newChunks>>

\* The flag is loaded once per base entry.  It only ever falls, so a prefix of
\* the entries is judged by one value of it and the rest by a later one.
Prefixes(entries) == {p \in SUBSET entries : \A e \in entries, f \in p : NotAfter(e, f) => e \in p}

ReadScan(r) ==
    /\ at[r] = "scan"
    /\ \E p \in Prefixes(held[r]) :
          /\ got' = [got EXCEPT ![r].edges = Shown(p, stable)]
          /\ held' = [held EXCEPT ![r] = @ \ p]
    /\ at' = [at EXCEPT ![r] = "scan_rest"]
    /\ UNCHANGED <<vars, historyVars, pendingOwner, frozenReaders, chunks, node, newBase, newChunks>>

ReadReturn(r) ==
    /\ at[r] = "scan_rest"
    /\ LET base  == got[r].edges \cup Shown(held[r], stable)
           delta == {e.edge : e \in {e \in DeltaEdges : e.src = node[r] /\ BothEndsLive(e)}}
       IN got' = [got EXCEPT ![r] = [edges |-> base \cup delta, twice |-> base \cap delta]]
    /\ held' = [held EXCEPT ![r] = {}]
    /\ at' = [at EXCEPT ![r] = "done"]
    /\ pendingOwner' = NoThread
    /\ frozenReaders' = frozenReaders \ {r}
    /\ UNCHANGED <<vars, historyVars, chunks, node, newBase, newChunks>>

-----------------------------------------------------------------------------
(* compact. *)

CompactCall(c) ==
    /\ at[c] = "idle"
    /\ at' = [at EXCEPT ![c] = "lock_pending"]
    /\ before' = IF \E d \in Compactors : ~Idle(d) THEN before ELSE Cells
    /\ UNCHANGED <<vars, seen, seenStable, pendingOwner, frozenReaders, held, chunks, node,
                   got, newBase, newChunks>>

CompactLockPending(c) ==
    /\ at[c] = "lock_pending"
    /\ pendingOwner = NoThread
    /\ pendingOwner' = c
    /\ at' = [at EXCEPT ![c] = "flush"]
    /\ UNCHANGED <<vars, historyVars, frozenReaders, held, chunks, node, got, newBase, newChunks>>

\* Mutant of CompactFlush: an empty buffer returns with the mutex held.
CompactFlushKeepsLock(c) ==
    /\ at[c] = "flush"
    /\ pending # {} => frozenReaders = {}
    /\ frozen' = Flushed
    /\ pending' = {}
    /\ pendingOwner' = IF pending = {} THEN c ELSE NoThread
    /\ at' = [at EXCEPT ![c] = "load"]
    /\ UNCHANGED <<nodeLive, lookup, localOf, idAt, edgeLive, baseCsr, dataCsr, stable,
                   nextSerial, status, panicked, retired, graph, historyVars,
                   frozenReaders, held, chunks, node, got, newBase, newChunks>>

\* With the mutex held, a non-empty buffer is pushed as a chunk under the frozen
\* lock for writing, which no reader may hold; then the mutex is released.
CompactFlush(c) ==
    /\ at[c] = "flush"
    /\ pending # {} => frozenReaders = {}
    /\ frozen' = Flushed
    /\ pending' = {}
    /\ pendingOwner' = NoThread
    /\ at' = [at EXCEPT ![c] = "load"]
    /\ UNCHANGED <<nodeLive, lookup, localOf, idAt, edgeLive, baseCsr, dataCsr, stable,
                   nextSerial, status, panicked, retired, graph, historyVars,
                   frozenReaders, held, chunks, node, got, newBase, newChunks>>

CompactLoad(c) ==
    /\ at[c] = "load"
    /\ held' = [held EXCEPT ![c] = baseCsr]
    /\ at' = [at EXCEPT ![c] = "clone"]
    /\ UNCHANGED <<vars, historyVars, pendingOwner, frozenReaders, chunks, node, got, newBase, newChunks>>

CompactClone(c) ==
    /\ at[c] = "clone"
    /\ chunks' = [chunks EXCEPT ![c] = frozen]
    /\ at' = [at EXCEPT ![c] = "store_data"]
    /\ UNCHANGED <<vars, historyVars, pendingOwner, frozenReaders, held, node, got, newBase, newChunks>>

\* Mutant of CompactStoreData: the merged rows are kept, not the CSR built of them.
CompactStoreUnbuilt(c) ==
    /\ at[c] = "store_data"
    /\ dataCsr' = Renumbered(Merged(held[c], chunks[c]))
    /\ held' = [held EXCEPT ![c] = Merged(held[c], chunks[c])]
    /\ chunks' = [chunks EXCEPT ![c] = <<>>]
    /\ at' = [at EXCEPT ![c] = "store_base"]
    /\ UNCHANGED <<nodeLive, lookup, localOf, idAt, edgeLive, baseCsr, stable, pending,
                   frozen, nextSerial, status, panicked, retired, graph, historyVars,
                   pendingOwner, frozenReaders, node, got, newBase, newChunks>>

\* The rows are merged from the copies; edge_data is swapped before base_csr.
CompactStoreData(c) ==
    /\ at[c] = "store_data"
    /\ dataCsr' = Renumbered(Merged(held[c], chunks[c]))
    /\ held' = [held EXCEPT ![c] = dataCsr']
    /\ chunks' = [chunks EXCEPT ![c] = <<>>]
    /\ at' = [at EXCEPT ![c] = "store_base"]
    /\ UNCHANGED <<nodeLive, lookup, localOf, idAt, edgeLive, baseCsr, stable, pending,
                   frozen, nextSerial, status, panicked, retired, graph, historyVars,
                   pendingOwner, frozenReaders, node, got, newBase, newChunks>>

CompactStoreBase(c) ==
    /\ at[c] = "store_base"
    /\ baseCsr' = held[c]
    /\ held' = [held EXCEPT ![c] = {}]
    /\ at' = [at EXCEPT ![c] = "store_flag"]
    /\ UNCHANGED <<nodeLive, lookup, localOf, idAt, edgeLive, dataCsr, stable, pending,
                   frozen, nextSerial, status, panicked, retired, graph, historyVars,
                   pendingOwner, frozenReaders, chunks, node, got, newBase, newChunks>>

\* Mutant of CompactStoreFlag: the ids of the new base still count as edge rows.
CompactKeepsFlag(c) ==
    /\ at[c] = "store_flag"
    /\ at' = [at EXCEPT ![c] = "clear"]
    /\ UNCHANGED <<vars, historyVars, pendingOwner, frozenReaders, held, chunks, node,
                   got, newBase, newChunks>>

CompactStoreFlag(c) ==
    /\ at[c] = "store_flag"
    /\ stable' = FALSE
    /\ at' = [at EXCEPT ![c] = "clear"]
    /\ UNCHANGED <<nodeLive, lookup, localOf, idAt, edgeLive, baseCsr, dataCsr, pending,
                   frozen, nextSerial, status, panicked, retired, graph, historyVars,
                   pendingOwner, frozenReaders, held, chunks, node, got, newBase, newChunks>>

\* Mutant of CompactClear: the merged chunks stay in the delta.
CompactClearsNothing(c) ==
    /\ at[c] = "clear"
    /\ status' = "ok"
    /\ at' = [at EXCEPT ![c] = "done"]
    /\ UNCHANGED <<nodeLive, lookup, localOf, idAt, edgeLive, baseCsr, dataCsr, stable, frozen,
                   pending, nextSerial, panicked, retired, graph, historyVars,
                   pendingOwner, frozenReaders, held, chunks, node, got, newBase, newChunks>>

CompactClear(c) ==
    /\ at[c] = "clear"
    /\ frozenReaders = {}
    /\ frozen' = <<>>
    /\ status' = "ok"
    /\ at' = [at EXCEPT ![c] = "done"]
    /\ UNCHANGED <<nodeLive, lookup, localOf, idAt, edgeLive, baseCsr, dataCsr, stable,
                   pending, nextSerial, panicked, retired, graph, historyVars,
                   pendingOwner, frozenReaders, held, chunks, node, got, newBase, newChunks>>

-----------------------------------------------------------------------------
ReadStep(r) == ReadLockFrozen(r) \/ ReadLockPending(r) \/ ReadScan(r) \/ ReadReturn(r)

CompactStep(c) ==
    \/ CompactLockPending(c) \/ CompactFlush(c) \/ CompactLoad(c) \/ CompactClone(c)
    \/ CompactStoreData(c) \/ CompactStoreBase(c) \/ CompactStoreFlag(c) \/ CompactClear(c)

SharedNext ==
    \/ Exclusive
    \/ \E r \in Readers : ReadStep(r) \/ \E i \in DOMAIN idAt : ReadStart(r, i)
    \/ \E c \in Compactors : CompactCall(c) \/ CompactStep(c)

SharedSpec == SharedInit /\ [][SharedNext]_sharedVars

\* A thread inside a call is scheduled until the call returns; nobody is made
\* to call.  Each thread calls once, so a lock is not contended for ever and
\* weak fairness is enough for whoever waits for it.
FairSpec ==
    /\ SharedSpec
    /\ \A r \in Readers : WF_sharedVars(ReadStep(r))
    /\ \A c \in Compactors : WF_sharedVars(CompactStep(c))

-----------------------------------------------------------------------------
SharedTypeOK ==
    /\ TypeOK
    /\ at \in [Threads -> {"idle", "done", "read_frozen", "read_pending", "scan", "scan_rest",
                           "lock_pending", "flush", "load", "clone", "store_data",
                           "store_base", "store_flag", "clear"}]
    /\ pendingOwner \in Threads \cup {NoThread}
    /\ frozenReaders \subseteq Readers
    /\ held \in [Threads -> SUBSET CsrEntry]
    /\ chunks \in [Compactors -> Seq(SUBSET DeltaEdge)]
    /\ node \in [Readers -> Nat]
    /\ got \in [Readers -> [edges : SUBSET Serials, twice : SUBSET Serials]]

\* The mutex is held exactly through a scan or a flush, and the frozen lock from
\* its acquisition to the return: no path leaves a lock behind.
LocksFollowCalls ==
    /\ \A t \in Threads : pendingOwner = t <=> at[t] \in {"scan", "scan_rest", "flush"}
    /\ frozenReaders = {r \in Readers : at[r] \in {"read_pending", "scan", "scan_rest"}}

\* A read during the first compaction is exact, each edge reported once, if it
\* took the base and the chunks from the same side of it: both old (and no row
\* tombstoned, since the flag may fall under it), or both new.
UntornReadsAreExact ==
    \A r \in Readers :
        /\ at[r] = "done" /\ seenStable /\ newBase[r] = newChunks[r]
        /\ newBase[r] \/ \A row \in RowIds : edgeLive[row]
        => got[r] = [edges |-> seen[node[r]], twice |-> {}]

\* One compactor among readers is as good as the atomic Compact: with the cells
\* it works on hidden until it is done, every step is a call or nothing.
Compacting == \E c \in Compactors : ~Idle(c)
Cell       == IF Compacting THEN before ELSE Cells
Atomic == INSTANCE MutableGraphFrame WITH
    Calls <- Calls \cup {"compact"},
    baseCsr <- Cell.base, dataCsr <- Cell.data, stable <- Cell.stable,
    pending <- Cell.pending, frozen <- Cell.frozen
CompactIsAtomic == Atomic!Spec

\* Once the pending buffer is empty, every call under way returns: readers and
\* compactors then never wait for each other in a circle.
FlushedCallsReturn == \A t \in Threads : (~Idle(t) /\ pending = {}) ~> Idle(t)

-----------------------------------------------------------------------------
(* What the documentation says of sharing and the code does not keep. *)

\* compact: "readers that already hold the old Arc<CsrIndex> keep working during
\* the swap": a read beside a compaction returns, whatever is pending.
EveryCallReturns == \A t \in Threads : ~Idle(t) ~> Idle(t)

\* "New readers observe the rebuilt snapshot", and old ones the old: with the
\* deltas of either, no read loses an edge to the first compaction.
ReadsMissNoEdge ==
    \A r \in Readers : at[r] = "done" /\ seenStable => seen[node[r]] \subseteq got[r].edges
=============================================================================
