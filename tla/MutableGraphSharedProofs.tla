---------------------- MODULE MutableGraphSharedProofs ----------------------
(***************************************************************************)
(* Proofs about MutableGraphShared, for any graph, any number of readers   *)
(* and, where nothing else is said, of compactors.                         *)
(***************************************************************************)
EXTENDS MutableGraphShared, MutableGraphFrameProofs

-----------------------------------------------------------------------------
(* Types. *)

Sites == {"idle", "done", "read_frozen", "read_pending", "scan", "scan_rest",
          "lock_pending", "flush", "load", "clone", "store_data",
          "store_base", "store_flag", "clear"}

IndShared ==
    /\ IndTypes /\ SharedTypeOK
    /\ \A t \in Threads : IsFiniteSet(held[t])

\* Reading entries of a CSR and of chunks gives serial numbers.
LEMMA ShownType ==
    ASSUME NEW csr \in SUBSET CsrEntry, NEW rowIds
    PROVE  Shown(csr, rowIds) \subseteq Serials
BY DEF Shown, CsrEntry

LEMMA DeltaEdgesType ==
    ASSUME TypeOK
    PROVE  DeltaEdges \subseteq DeltaEdge
BY DEF TypeOK, DeltaEdges, FrozenEdges

LEMMA SharedInitTyped == SharedInit => IndShared
<1> SUFFICES ASSUME SharedInit PROVE IndShared
    OBVIOUS
<1>1. IndTypes
      BY InitTyped DEF SharedInit
<1>2. held = [t \in Threads |-> {}] /\ \A t \in Threads : IsFiniteSet(held[t])
      BY FS_EmptySet DEF SharedInit, NothingHeld
<1>3. /\ at \in [Threads -> Sites] /\ held \in [Threads -> SUBSET CsrEntry]
      /\ chunks \in [Compactors -> Seq(SUBSET DeltaEdge)]
      /\ node \in [Readers -> Nat]
      BY <1>2 DEF SharedInit, AllIdle, NoChunks, NothingAsked, Sites
<1>4. got \in [Readers -> [edges : SUBSET Serials, twice : SUBSET Serials]]
      BY DEF SharedInit, NothingGot, Nothing
<1>5. pendingOwner \in Threads \cup {NoThread} /\ frozenReaders \subseteq Readers
      BY DEF SharedInit
<1>6. QED BY <1>1, <1>2, <1>3, <1>4, <1>5 DEF IndShared, SharedTypeOK, Sites, IndTypes

\* A call of the owner keeps the tables typed and starts the threads afresh.
LEMMA ExclusiveTyped ==
    ASSUME IndShared, Exclusive
    PROVE  IndShared'
<1>1. IndTypes'
      BY NextTyped DEF IndShared, Exclusive, Next
<1>2. held' = [t \in Threads |-> {}] /\ \A t \in Threads : IsFiniteSet(held'[t])
      BY FS_EmptySet DEF Exclusive, NothingHeld
<1>3. /\ at' \in [Threads -> Sites] /\ held' \in [Threads -> SUBSET CsrEntry]
      /\ chunks' \in [Compactors -> Seq(SUBSET DeltaEdge)]
      /\ node' \in [Readers -> Nat]
      BY <1>2 DEF Exclusive, AllIdle, NoChunks, NothingAsked, Sites
<1>4. got' \in [Readers -> [edges : SUBSET Serials, twice : SUBSET Serials]]
      BY DEF Exclusive, NothingGot, Nothing
<1>5. pendingOwner' \in Threads \cup {NoThread} /\ frozenReaders' \subseteq Readers
      BY DEF Exclusive, IndShared, SharedTypeOK
<1>6. QED BY <1>1, <1>2, <1>3, <1>4, <1>5 DEF IndShared, SharedTypeOK, Sites, IndTypes

\* What a reader collects is serial numbers; it writes no shared cell.
LEMMA ReadTyped ==
    ASSUME IndShared, NEW r \in Readers,
           ReadStep(r) \/ \E i \in DOMAIN idAt : ReadStart(r, i)
    PROVE  IndShared'
<1> USE DEF IndShared, SharedTypeOK
<1>1. r \in Threads
      BY DEF Threads
<1>2. ASSUME UNCHANGED vars PROVE IndTypes'
      BY <1>2 DEF vars, IndTypes, TypeOK
<1>3. ASSUME NEW i \in DOMAIN idAt, ReadStart(r, i) PROVE IndShared'
  <2>1. i \in Nat
        BY DEF IndTypes, TypeOK
  <2>2. {e \in baseCsr : e.src = i} \subseteq CsrEntry /\ IsFiniteSet({e \in baseCsr : e.src = i})
        BY FS_Subset DEF IndTypes, TypeOK
  <2>3. held' = [held EXCEPT ![r] = {e \in baseCsr : e.src = i}]
        BY <1>3 DEF ReadStart
  <2>4. held' \in [Threads -> SUBSET CsrEntry] /\ \A t \in Threads : IsFiniteSet(held'[t])
        BY <1>1, <2>2, <2>3
  <2>5. QED BY <1>1, <1>2, <1>3, <2>1, <2>4 DEF ReadStart, IndTypes
<1>4. CASE ReadLockFrozen(r)
      BY <1>1, <1>2, <1>4 DEF ReadLockFrozen, IndTypes
<1>5. CASE ReadLockPending(r)
      BY <1>1, <1>2, <1>5 DEF ReadLockPending, IndTypes
<1>6. CASE ReadScan(r)
  <2>1. PICK p \in Prefixes(held[r]) : /\ got' = [got EXCEPT ![r].edges = Shown(p, stable)]
                                       /\ held' = [held EXCEPT ![r] = @ \ p]
        BY <1>6 DEF ReadScan
  <2>2. p \in SUBSET CsrEntry
        BY <1>1, <2>1 DEF Prefixes
  <2>3. Shown(p, stable) \subseteq Serials
        BY <2>2, ShownType
  <2>4. got' \in [Readers -> [edges : SUBSET Serials, twice : SUBSET Serials]]
        BY <2>1, <2>3
  <2>5. held' \in [Threads -> SUBSET CsrEntry] /\ \A t \in Threads : IsFiniteSet(held'[t])
        BY <1>1, <2>1, FS_Subset
  <2>6. QED BY <1>1, <1>2, <1>6, <2>4, <2>5 DEF ReadScan, IndTypes
<1>7. CASE ReadReturn(r)
  <2> DEFINE base == got[r].edges \cup Shown(held[r], stable)
             delta == {e.edge : e \in {e \in DeltaEdges : e.src = node[r] /\ BothEndsLive(e)}}
  <2>1. got' = [got EXCEPT ![r] = [edges |-> base \cup delta, twice |-> base \cap delta]]
        BY <1>7 DEF ReadReturn
  <2>2. base \subseteq Serials
    <3>1. Shown(held[r], stable) \subseteq Serials
          BY <1>1, ShownType
    <3>2. QED BY <3>1
  <2>3. delta \subseteq Serials
        BY DeltaEdgesType DEF IndTypes, DeltaEdge
  <2> HIDE DEF base, delta
  <2>4. got' \in [Readers -> [edges : SUBSET Serials, twice : SUBSET Serials]]
        BY <2>1, <2>2, <2>3
  <2>5. held' = [held EXCEPT ![r] = {}]
        BY <1>7 DEF ReadReturn
  <2>6. held' \in [Threads -> SUBSET CsrEntry] /\ \A t \in Threads : IsFiniteSet(held'[t])
        BY <1>1, <2>5, FS_EmptySet
  <2>7. QED BY <1>1, <1>2, <1>7, <2>4, <2>6 DEF ReadReturn, IndTypes
<1>8. QED BY <1>3, <1>4, <1>5, <1>6, <1>7 DEF ReadStep

\* What a compactor writes to the shared cells is what it copied from them.
LEMMA CompactTyped ==
    ASSUME IndShared, NEW c \in Compactors, CompactCall(c) \/ CompactStep(c)
    PROVE  IndShared'
<1> USE DEF IndShared, SharedTypeOK, IndTypes
<1>1. c \in Threads
      BY DEF Threads
<1>2. ASSUME UNCHANGED vars PROVE IndTypes'
      BY <1>2 DEF vars, TypeOK
<1>3. CASE CompactCall(c)
      BY <1>1, <1>2, <1>3 DEF CompactCall
<1>4. CASE CompactLockPending(c)
      BY <1>1, <1>2, <1>4 DEF CompactLockPending
<1>5. CASE CompactFlush(c)
  <2>1. Flushed \in Seq(SUBSET DeltaEdge)
        BY DEF Flushed, TypeOK
  <2>2. QED BY <1>1, <1>5, <2>1 DEF CompactFlush, TypeOK
<1>6. CASE CompactLoad(c)
  <2>1. held' = [held EXCEPT ![c] = baseCsr] /\ baseCsr \in SUBSET CsrEntry
        BY <1>6 DEF CompactLoad, TypeOK
  <2>2. held' \in [Threads -> SUBSET CsrEntry] /\ \A t \in Threads : IsFiniteSet(held'[t])
        BY <1>1, <2>1
  <2>3. QED BY <1>1, <1>2, <1>6, <2>2 DEF CompactLoad
<1>7. CASE CompactClone(c)
      BY <1>1, <1>2, <1>7 DEF CompactClone, TypeOK
<1>8. CASE CompactStoreData(c)
  <2> DEFINE csr == Renumbered(Merged(held[c], chunks[c]))
  <2>1. csr \subseteq CsrEntry /\ IsFiniteSet(csr)
        BY <1>1, RenumberedType
  <2>2. dataCsr' = csr /\ held' = [held EXCEPT ![c] = csr]
        BY <1>8 DEF CompactStoreData
  <2> HIDE DEF csr
  <2>3. held' \in [Threads -> SUBSET CsrEntry] /\ \A t \in Threads : IsFiniteSet(held'[t])
        BY <1>1, <2>1, <2>2
  <2>4. QED BY <1>1, <1>8, <2>1, <2>2, <2>3 DEF CompactStoreData, TypeOK
<1>9. CASE CompactStoreBase(c)
  <2>1. held' = [held EXCEPT ![c] = {}] /\ baseCsr' = held[c]
        BY <1>9 DEF CompactStoreBase
  <2>2. held' \in [Threads -> SUBSET CsrEntry] /\ \A t \in Threads : IsFiniteSet(held'[t])
        BY <1>1, <2>1, FS_EmptySet
  <2>3. QED BY <1>1, <1>9, <2>1, <2>2 DEF CompactStoreBase, TypeOK
<1>10. CASE CompactStoreFlag(c)
       BY <1>1, <1>10 DEF CompactStoreFlag, TypeOK
<1>11. CASE CompactClear(c)
       BY <1>1, <1>11 DEF CompactClear, TypeOK
<1>12. QED BY <1>3, <1>4, <1>5, <1>6, <1>7, <1>8, <1>9, <1>10, <1>11 DEF CompactStep

LEMMA SharedTyped ==
    ASSUME IndShared, [SharedNext]_sharedVars
    PROVE  IndShared'
<1>1. CASE UNCHANGED sharedVars
      BY <1>1 DEF sharedVars, vars, threadVars, IndShared, SharedTypeOK, IndTypes, TypeOK
<1>2. QED BY <1>1, ExclusiveTyped, ReadTyped, CompactTyped DEF SharedNext

LEMMA SharedInvariant == SharedSpec => []IndShared
<1>1. IndShared /\ [SharedNext]_sharedVars => IndShared'
      BY SharedTyped
<1>2. QED BY <1>1, SharedInitTyped, PTL DEF SharedSpec

\* Every shared cell and every thread's copy keeps its type, however the calls
\* of out_neighbors and compact interleave.
THEOREM SharedTypeCorrect == SharedSpec => []SharedTypeOK
<1>1. IndShared => SharedTypeOK
      BY DEF IndShared
<1>2. QED BY <1>1, SharedInvariant, PTL

-----------------------------------------------------------------------------
(* Locks. *)

\* Where one thread moves from and to settles both locks.
LEMMA LocksNext ==
    ASSUME IndShared, LocksFollowCalls, [SharedNext]_sharedVars
    PROVE  LocksFollowCalls'
<1> USE DEF LocksFollowCalls
<1>1. /\ at \in [Threads -> Sites] /\ NoThread \notin Threads
      /\ \A r \in Readers : r \in Threads
      /\ \A c \in Compactors : c \in Threads /\ c \notin Readers
      BY ThreadsAssumption DEF IndShared, SharedTypeOK, Sites, Threads
<1>2. CASE UNCHANGED <<at, pendingOwner, frozenReaders>>
      BY <1>2
<1>3. CASE Exclusive
  <2>1. \A t \in Threads : at[t] \in {"idle", "done"} /\ at'[t] = "idle"
        BY <1>3 DEF Exclusive, Quiet, Idle, AllIdle
  <2>2. UNCHANGED <<pendingOwner, frozenReaders>>
        BY <1>3 DEF Exclusive
  <2>3. QED BY <1>1, <2>1, <2>2
<1>4. ASSUME NEW r \in Readers, NEW i \in DOMAIN idAt, ReadStart(r, i) PROVE LocksFollowCalls'
      BY <1>1, <1>4 DEF ReadStart
<1>5. ASSUME NEW r \in Readers, ReadStep(r) PROVE LocksFollowCalls'
  <2>1. CASE ReadLockFrozen(r)
        BY <1>1, <2>1 DEF ReadLockFrozen
  <2>2. CASE ReadLockPending(r)
        BY <1>1, <2>2 DEF ReadLockPending
  <2>3. CASE ReadScan(r)
        BY <1>1, <2>3 DEF ReadScan
  <2>4. CASE ReadReturn(r)
        BY <1>1, <2>4 DEF ReadReturn
  <2>5. QED BY <1>5, <2>1, <2>2, <2>3, <2>4 DEF ReadStep
<1>6. ASSUME NEW c \in Compactors, CompactCall(c) \/ CompactStep(c) PROVE LocksFollowCalls'
  <2>1. CASE CompactLockPending(c)
        BY <1>1, <2>1 DEF CompactLockPending
  <2>2. CASE CompactFlush(c)
        BY <1>1, <2>2 DEF CompactFlush
  <2>3. CASE /\ UNCHANGED <<pendingOwner, frozenReaders>>
             /\ at[c] \notin {"scan", "scan_rest", "flush"}
             /\ \E site \in Sites \ {"scan", "scan_rest", "flush"} : at' = [at EXCEPT ![c] = site]
        BY <1>1, <2>3
  <2>4. QED
    <3>1. ASSUME CompactCall(c) \/ CompactLoad(c) \/ CompactClone(c) \/ CompactStoreData(c)
                 \/ CompactStoreBase(c) \/ CompactStoreFlag(c) \/ CompactClear(c)
          PROVE  /\ UNCHANGED <<pendingOwner, frozenReaders>>
                 /\ at[c] \notin {"scan", "scan_rest", "flush"}
                 /\ \E site \in Sites \ {"scan", "scan_rest", "flush"} :
                       at' = [at EXCEPT ![c] = site]
          BY <3>1 DEF CompactCall, CompactLoad, CompactClone, CompactStoreData, CompactStoreBase,
                      CompactStoreFlag, CompactClear, Sites
    <3>2. QED BY <1>6, <2>1, <2>2, <2>3, <3>1 DEF CompactStep
<1>7. QED BY <1>2, <1>3, <1>4, <1>5, <1>6 DEF SharedNext, sharedVars, threadVars

\* Every path through a read or a compaction gives back the locks it took, and
\* two calls are never inside the mutex together.
THEOREM LocksCorrect == SharedSpec => []LocksFollowCalls
<1>1. SharedInit => LocksFollowCalls
  <2>1. ASSUME SharedInit PROVE LocksFollowCalls
        BY <2>1, ThreadsAssumption DEF SharedInit, AllIdle, LocksFollowCalls, Threads
  <2>2. QED BY <2>1
<1>2. IndShared /\ LocksFollowCalls /\ [SharedNext]_sharedVars => LocksFollowCalls'
      BY LocksNext
<1>3. QED BY <1>1, <1>2, SharedInvariant, PTL DEF SharedSpec

-----------------------------------------------------------------------------
(* One compaction. *)

OneCompactor == \A c, d \in Compactors : c = d

\* What the running compaction makes of the cells it found.
FoundFlushed == IF before.pending = {} THEN before.frozen ELSE Append(before.frozen, before.pending)
FoundMerged  == Renumbered(Merged(before.base, FoundFlushed))

\* How far each step of compact has got with the cells it found.
Progress ==
    /\ (\A c \in Compactors : at[c] = "idle") => before = Cells
    /\ \A c \in Compactors :
        /\ at[c] \in {"lock_pending", "flush"} => before = Cells
        /\ at[c] \in {"load", "clone", "store_data", "store_base", "store_flag", "clear"} =>
              pending = {} /\ frozen = FoundFlushed
        /\ at[c] \in {"load", "clone", "store_data", "store_base"} => baseCsr = before.base
        /\ at[c] \in {"load", "clone", "store_data"} => dataCsr = before.data
        /\ at[c] \in {"load", "clone", "store_data", "store_base", "store_flag"} =>
              stable = before.stable
        /\ at[c] \in {"clone", "store_data"} => held[c] = before.base
        /\ at[c] = "store_data" => chunks[c] = FoundFlushed
        /\ at[c] = "store_base" => held[c] = FoundMerged
        /\ at[c] \in {"store_base", "store_flag", "clear", "done"} => dataCsr = FoundMerged
        /\ at[c] \in {"store_flag", "clear", "done"} => baseCsr = FoundMerged
        /\ at[c] \in {"clear", "done"} => stable = FALSE
        /\ at[c] = "done" => pending = {} /\ frozen = <<>>
    /\ graph = NoGraph

\* A compactor is at one of the sites of compact.
CompactSites ==
    \A c \in Compactors : at[c] \in {"idle", "done", "lock_pending", "flush", "load", "clone",
                                     "store_data", "store_base", "store_flag", "clear"}

IndCompact == CompactSites /\ Progress

LEMMA FoundCells ==
    ASSUME before = Cells
    PROVE  /\ before.base = baseCsr /\ before.data = dataCsr /\ before.stable = stable
           /\ before.pending = pending /\ before.frozen = frozen
           /\ FoundFlushed = Flushed
BY DEF Cells, FoundFlushed, Flushed

\* The steps of a reader move no compactor and no cell.
LEMMA ReadKeepsProgress ==
    ASSUME IndShared, IndCompact, NEW r \in Readers,
           ReadStep(r) \/ \E i \in DOMAIN idAt : ReadStart(r, i)
    PROVE  IndCompact'
<1>1. UNCHANGED <<vars, historyVars, chunks>>
      BY DEF ReadStep, ReadStart, ReadLockFrozen, ReadLockPending, ReadScan, ReadReturn
<1>2. \A c \in Compactors : at'[c] = at[c] /\ held'[c] = held[c]
  <2>1. \A c \in Compactors : c # r /\ c \in Threads
        BY ThreadsAssumption DEF Threads
  <2>2. r \in Threads
        BY DEF Threads
  <2>3. QED BY <2>1, <2>2 DEF IndShared, SharedTypeOK, ReadStep, ReadStart, ReadLockFrozen,
               ReadLockPending, ReadScan, ReadReturn
<1>3. FoundFlushed' = FoundFlushed /\ FoundMerged' = FoundMerged /\ Cells' = Cells
      BY <1>1 DEF vars, historyVars, FoundFlushed, FoundMerged, Cells, Merged, Renumbered, Before,
                  RowIsLive, BothEndsLive, LocalIsLive, IdIsLive
<1>4. QED BY <1>1, <1>2, <1>3 DEF IndCompact, CompactSites, Progress, vars, historyVars

LEMMA ExclusiveKeepsProgress ==
    ASSUME IndCompact, Exclusive
    PROVE  IndCompact'
<1>1. \A c \in Compactors : at'[c] = "idle"
      BY DEF Exclusive, AllIdle, Threads
<1>2. before' = Cells'
      BY DEF Exclusive
<1>3. graph' = graph
      BY DEF Exclusive, Mutate, AddNodes, DeleteNode, UpdateNode, AddEdge, DeleteEdge,
             UpdateEdgeRow, UpdateEdge
<1>4. QED BY <1>1, <1>2, <1>3 DEF IndCompact, CompactSites, Progress

\* Each step of compact does its part with the cells as it found them.
LEMMA CompactProgresses ==
    ASSUME IndShared, IndCompact, OneCompactor,
           NEW c \in Compactors, CompactCall(c) \/ CompactStep(c)
    PROVE  IndCompact'
<1> USE DEF IndCompact
<1>1. c \in Threads /\ Compactors = {c} /\ at \in [Threads -> Sites]
      /\ held \in [Threads -> SUBSET CsrEntry]
      /\ chunks \in [Compactors -> Seq(SUBSET DeltaEdge)]
      BY DEF OneCompactor, Threads, IndShared, SharedTypeOK, Sites
<1>2. UNCHANGED <<nodeLive, lookup, localOf, idAt, edgeLive, graph>>
      BY DEF CompactStep, CompactCall, CompactLockPending, CompactFlush, CompactLoad, CompactClone,
             CompactStoreData, CompactStoreBase, CompactStoreFlag, CompactClear, vars
<1>4. ASSUME UNCHANGED before
      PROVE  FoundFlushed' = FoundFlushed /\ FoundMerged' = FoundMerged
      BY <1>2, <1>4 DEF FoundFlushed, FoundMerged, Merged, Renumbered, Before, RowIsLive,
                        BothEndsLive, LocalIsLive, IdIsLive
<1>5. CASE CompactCall(c)
  <2>1. at[c] = "idle" /\ at'[c] = "lock_pending" /\ UNCHANGED vars
        BY <1>1, <1>5 DEF CompactCall
  <2>2. before' = Cells'
    <3>1. ~(\E d \in Compactors : ~Idle(d))
          BY <1>1, <2>1 DEF Idle
    <3>2. before' = Cells
          BY <1>5, <3>1 DEF CompactCall
    <3>3. QED BY <2>1, <3>2 DEF Cells, vars
  <2>3. QED BY <1>1, <1>2, <2>1, <2>2 DEF CompactSites, Progress
<1>6. CASE CompactLockPending(c)
  <2>1. at[c] = "lock_pending" /\ at'[c] = "flush" /\ UNCHANGED <<vars, before>>
        BY <1>1, <1>6 DEF CompactLockPending, historyVars
  <2>2. Cells' = Cells
        BY <2>1 DEF Cells, vars
  <2>3. QED BY <1>1, <1>2, <2>1, <2>2 DEF CompactSites, Progress
<1>7. CASE CompactFlush(c)
  <2>1. /\ at[c] = "flush" /\ at'[c] = "load" /\ frozen' = Flushed /\ pending' = {}
        /\ UNCHANGED <<baseCsr, dataCsr, stable, before>>
        BY <1>1, <1>7 DEF CompactFlush, historyVars
  <2>2. before = Cells
        BY <2>1 DEF Progress
  <2>3. QED BY <1>1, <1>2, <1>4, <2>1, <2>2, FoundCells DEF CompactSites, Progress
<1>8. CASE CompactLoad(c)
  <2>1. /\ at[c] = "load" /\ at'[c] = "clone" /\ held'[c] = baseCsr
        /\ UNCHANGED <<vars, before>>
        BY <1>1, <1>8 DEF CompactLoad, historyVars
  <2>2. QED BY <1>1, <1>2, <1>4, <2>1 DEF CompactSites, Progress, vars
<1>9. CASE CompactClone(c)
  <2>1. /\ at[c] = "clone" /\ at'[c] = "store_data" /\ chunks'[c] = frozen
        /\ UNCHANGED <<vars, before, held>>
        BY <1>1, <1>9 DEF CompactClone, historyVars
  <2>2. QED BY <1>1, <1>2, <1>4, <2>1 DEF CompactSites, Progress, vars
<1>10. CASE CompactStoreData(c)
  <2>1. /\ at[c] = "store_data" /\ at'[c] = "store_base"
        /\ dataCsr' = Renumbered(Merged(held[c], chunks[c])) /\ held'[c] = dataCsr'
        /\ UNCHANGED <<baseCsr, stable, pending, frozen, before>>
        BY <1>1, <1>10 DEF CompactStoreData, historyVars
  <2>2. dataCsr' = FoundMerged
        BY <2>1 DEF Progress, FoundMerged
  <2>3. QED BY <1>1, <1>2, <1>4, <2>1, <2>2 DEF CompactSites, Progress
<1>11. CASE CompactStoreBase(c)
  <2>1. /\ at[c] = "store_base" /\ at'[c] = "store_flag" /\ baseCsr' = held[c]
        /\ UNCHANGED <<dataCsr, stable, pending, frozen, before>>
        BY <1>1, <1>11 DEF CompactStoreBase, historyVars
  <2>2. QED BY <1>1, <1>2, <1>4, <2>1 DEF CompactSites, Progress
<1>12. CASE CompactStoreFlag(c)
  <2>1. /\ at[c] = "store_flag" /\ at'[c] = "clear" /\ stable' = FALSE
        /\ UNCHANGED <<baseCsr, dataCsr, pending, frozen, before>>
        BY <1>1, <1>12 DEF CompactStoreFlag, historyVars
  <2>2. QED BY <1>1, <1>2, <1>4, <2>1 DEF CompactSites, Progress
<1>13. CASE CompactClear(c)
  <2>1. /\ at[c] = "clear" /\ at'[c] = "done" /\ frozen' = <<>>
        /\ UNCHANGED <<baseCsr, dataCsr, stable, pending, before>>
        BY <1>1, <1>13 DEF CompactClear, historyVars
  <2>2. QED BY <1>1, <1>2, <1>4, <2>1 DEF CompactSites, Progress
<1>14. QED BY <1>5, <1>6, <1>7, <1>8, <1>9, <1>10, <1>11, <1>12, <1>13 DEF CompactStep

LEMMA CompactNext ==
    ASSUME IndShared, IndCompact, OneCompactor, [SharedNext]_sharedVars
    PROVE  IndCompact'
<1>1. CASE UNCHANGED sharedVars
  <2>1. FoundFlushed' = FoundFlushed /\ FoundMerged' = FoundMerged /\ Cells' = Cells
        BY <1>1 DEF sharedVars, vars, threadVars, historyVars, FoundFlushed, FoundMerged, Cells,
                    Merged, Renumbered, Before, RowIsLive, BothEndsLive, LocalIsLive, IdIsLive
  <2>2. QED BY <1>1, <2>1 DEF sharedVars, vars, threadVars, historyVars, IndCompact, CompactSites,
                              Progress
<1>2. QED BY <1>1, ReadKeepsProgress, ExclusiveKeepsProgress, CompactProgresses DEF SharedNext

LEMMA CompactInvariant == OneCompactor => (SharedSpec => []IndCompact)
<1> SUFFICES ASSUME OneCompactor PROVE SharedSpec => []IndCompact
    OBVIOUS
<1>1. SharedInit => IndCompact
  <2>1. ASSUME SharedInit PROVE IndCompact
        BY <2>1 DEF SharedInit, Init, AllIdle, Threads, IndCompact, CompactSites, Progress
  <2>2. QED BY <2>1
<1>2. IndShared /\ IndCompact /\ [SharedNext]_sharedVars => IndCompact'
      BY CompactNext
<1>3. QED BY <1>1, <1>2, SharedInvariant, PTL DEF SharedSpec

-----------------------------------------------------------------------------
(* The refinement: the atomic graph has the cells as they are between       *)
(* compactions, and as the running one found them.                          *)

CellIs(base, data, flag, buffer, list) ==
    /\ Cell.base = base /\ Cell.data = data /\ Cell.stable = flag
    /\ Cell.pending = buffer /\ Cell.frozen = list

LEMMA QuietCell ==
    ASSUME ~Compacting
    PROVE  CellIs(baseCsr, dataCsr, stable, pending, frozen)
BY DEF Cell, Cells, CellIs

\* Operators that read no cell are the same ones, and the others where the cells are.
LEMMA AtomicTables ==
    /\ Atomic!LiveNodes = LiveNodes
    /\ \A ids : Atomic!Publish(ids) <=> Publish(ids)
    /\ \A id : Atomic!Unlist(id) <=> Unlist(id)
    /\ \A id : Atomic!Resolvable(id) <=> Resolvable(id)
    /\ \A s : Atomic!WithSrc(s) = WithSrc(s)
    /\ \A s, d : Atomic!WithBoth(s, d) = WithBoth(s, d)
    /\ \A row : Atomic!RowIsLive(row) <=> RowIsLive(row)
    /\ \A name : Call(name) => Atomic!Call(name)
    /\ Atomic!RowIds = RowIds
BY DEF Atomic!LiveNodes, LiveNodes, Atomic!Publish, Publish, Atomic!Unlist, Unlist,
       Atomic!Resolvable, Resolvable, Atomic!WithSrc, WithSrc, Atomic!WithBoth, WithBoth,
       Atomic!Indexed, Indexed, Atomic!RowIsLive, RowIsLive, Atomic!RowIds, RowIds,
       Atomic!Call, Call

LEMMA AtomicDrop ==
    ASSUME CellIs(baseCsr, dataCsr, stable, pending, frozen),
           CellIs(baseCsr, dataCsr, stable, pending, frozen)', NEW id, DropIncident(id)
    PROVE  Atomic!DropIncident(id) /\ (Atomic!DeletePanics(id) <=> DeletePanics(id))
<1>1. \A i : Atomic!OutEntries(i) = OutEntries(i) /\ Atomic!InRowIds(i) = InRowIds(i)
      BY DEF CellIs, Atomic!OutEntries, OutEntries, Atomic!InRowIds, InRowIds, Atomic!RowIds, RowIds
<1>2. \A i : Atomic!TombstonedOut(i) = TombstonedOut(i)
      BY <1>1 DEF Atomic!TombstonedOut, TombstonedOut, Atomic!NotAfter, NotAfter, Atomic!RowIds,
                  RowIds
<1>3. Atomic!DeletePanics(id) <=> DeletePanics(id)
      BY <1>1 DEF Atomic!DeletePanics, DeletePanics, Atomic!RowIds, RowIds
<1>4. Atomic!TombstonedBy(id) = TombstonedBy(id)
      BY <1>1, <1>2, <1>3 DEF Atomic!TombstonedBy, TombstonedBy
<1>5. QED BY <1>3, <1>4 DEF Atomic!DropIncident, DropIncident, CellIs, Atomic!RowIds, RowIds

LEMMA AtomicAppend ==
    ASSUME CellIs(baseCsr, dataCsr, stable, pending, frozen),
           CellIs(baseCsr, dataCsr, stable, pending, frozen)',
           NEW s, NEW d, AppendEdge(s, d)
    PROVE  Atomic!AppendEdge(s, d)
<1>1. \A S : Atomic!Cardinality(S) = Cardinality(S)
      BY DEF Atomic!Cardinality, Cardinality
<1>2. \A e : Push(e) => Atomic!Push(e)
      BY <1>1 DEF Push, Atomic!Push, CellIs
<1>3. QED BY <1>2, AtomicTables DEF AppendEdge, Atomic!AppendEdge, CellIs

\* A call of the owner is the same call.
LEMMA AtomicMutate ==
    ASSUME CellIs(baseCsr, dataCsr, stable, pending, frozen),
           CellIs(baseCsr, dataCsr, stable, pending, frozen)', Mutate
    PROVE  Atomic!Mutate
<1>1. ASSUME NEW batch, AddNodes(batch) PROVE Atomic!AddNodes(batch)
      BY <1>1, AtomicTables DEF AddNodes, Atomic!AddNodes, CellIs
<1>2. ASSUME NEW id, DeleteNode(id) PROVE Atomic!DeleteNode(id)
      BY <1>2, AtomicTables, AtomicDrop DEF DeleteNode, Atomic!DeleteNode, CellIs
<1>3. ASSUME NEW old, NEW new, UpdateNode(old, new) PROVE Atomic!UpdateNode(old, new)
      BY <1>3, AtomicTables, AtomicDrop DEF UpdateNode, Atomic!UpdateNode, CellIs
<1>4. ASSUME NEW s, NEW d, AddEdge(s, d) PROVE Atomic!AddEdge(s, d)
      BY <1>4, AtomicTables, AtomicAppend DEF AddEdge, Atomic!AddEdge, CellIs
<1>5. ASSUME NEW row, DeleteEdge(row) PROVE Atomic!DeleteEdge(row)
      BY <1>5, AtomicTables DEF DeleteEdge, Atomic!DeleteEdge, CellIs
<1>6. ASSUME NEW row, NEW s, NEW d, UpdateEdgeRow(row, s, d) PROVE Atomic!UpdateEdgeRow(row, s, d)
      BY <1>6, AtomicTables, AtomicAppend DEF UpdateEdgeRow, Atomic!UpdateEdgeRow, CellIs
<1>7. ASSUME NEW row, NEW s, NEW d, UpdateEdge(row, s, d) PROVE Atomic!UpdateEdge(row, s, d)
      BY <1>7, AtomicTables, AtomicAppend DEF UpdateEdge, Atomic!UpdateEdge, CellIs
<1>8. QED BY <1>1, <1>2, <1>3, <1>4, <1>5, <1>6, <1>7 DEF Mutate, Atomic!Mutate

\* The wrapped graph, before anything runs.
LEMMA AtomicInit == ASSUME SharedInit PROVE Atomic!Init
<1>1. ~Compacting
      BY DEF SharedInit, AllIdle, Compacting, Idle, Threads
<1>2. CellIs(baseCsr, dataCsr, stable, pending, frozen)
      BY <1>1, QuietCell
<1>3. QED BY <1>2 DEF CellIs, SharedInit, Init, Atomic!Init, Atomic!RowIds, RowIds, Atomic!InitLocalOf,
             InitLocalOf, Atomic!NoGraph, NoGraph

\* The atomic frame's Compact, of the cells that the running compaction found.
LEMMA AtomicMerge ==
    Atomic!Flushed = (IF Cell.pending = {} THEN Cell.frozen ELSE Append(Cell.frozen, Cell.pending))
    /\ \A csr, seq : Atomic!Renumbered(Atomic!Merged(csr, seq)) = Renumbered(Merged(csr, seq))
<1>1. \A S : Atomic!Cardinality(S) = Cardinality(S)
      BY DEF Atomic!Cardinality, Cardinality
<1>2. \A rows : Atomic!Renumbered(rows) = Renumbered(rows)
      BY <1>1 DEF Atomic!Renumbered, Renumbered, Atomic!Before, Before
<1>3. \A csr, seq : Atomic!Merged(csr, seq) = Merged(csr, seq)
      BY DEF Atomic!Merged, Merged, Atomic!RowIsLive, RowIsLive, Atomic!BothEndsLive, BothEndsLive,
             Atomic!LocalIsLive, LocalIsLive, Atomic!IdIsLive, IdIsLive, Atomic!RowIds, RowIds
<1>4. QED BY <1>2, <1>3 DEF Atomic!Flushed

\* The tables and flags that no shared call writes.
Untouched == UNCHANGED <<nodeLive, lookup, localOf, idAt, edgeLive, nextSerial, panicked,
                         retired, graph>>

LEMMA AtomicStutter ==
    ASSUME Untouched, status' = status, Cell' = Cell
    PROVE  UNCHANGED Atomic!vars
BY DEF Untouched, Atomic!vars

\* A read changes nothing that the atomic frame has.
LEMMA AtomicRead ==
    ASSUME IndShared, NEW r \in Readers,
           ReadStep(r) \/ \E i \in DOMAIN idAt : ReadStart(r, i)
    PROVE  UNCHANGED Atomic!vars
<1>1. UNCHANGED <<vars, historyVars>>
      BY DEF ReadStep, ReadStart, ReadLockFrozen, ReadLockPending, ReadScan, ReadReturn
<1>2. \A c \in Compactors : at'[c] = at[c]
  <2>1. \A c \in Compactors : c # r /\ c \in Threads
        BY ThreadsAssumption DEF Threads
  <2>2. QED BY <2>1 DEF IndShared, SharedTypeOK, ReadStep, ReadStart, ReadLockFrozen,
               ReadLockPending, ReadScan, ReadReturn
<1>3. Cell' = Cell
  <2>1. Compacting' <=> Compacting
        BY <1>2 DEF Compacting, Idle
  <2>2. Cells' = Cells /\ before' = before
        BY <1>1 DEF Cells, vars, historyVars
  <2>3. QED BY <2>1, <2>2 DEF Cell
<1>4. QED BY <1>1, <1>3, AtomicStutter DEF Untouched, vars

\* A compaction is invisible until its last step, which is the atomic Compact.
LEMMA AtomicCompact ==
    ASSUME IndShared, IndCompact, OneCompactor,
           NEW c \in Compactors, CompactCall(c) \/ CompactStep(c)
    PROVE  Atomic!Compact \/ UNCHANGED Atomic!vars
<1>1. c \in Threads /\ Compactors = {c} /\ at \in [Threads -> Sites]
      BY DEF OneCompactor, Threads, IndShared, SharedTypeOK, Sites
<1>2. (Compacting <=> ~Idle(c)) /\ (Compacting' <=> ~Idle(c)')
      BY <1>1 DEF Compacting
<1>3. CASE CompactCall(c)
  <2>1. at[c] = "idle" /\ at'[c] = "lock_pending" /\ UNCHANGED vars
        BY <1>1, <1>3 DEF CompactCall
  <2>2. before' = Cells
    <3>1. ~(\E d \in Compactors : ~Idle(d))
          BY <1>1, <2>1 DEF Idle
    <3>2. QED BY <1>3, <3>1 DEF CompactCall
  <2>3. Cell' = Cell
        BY <1>2, <2>1, <2>2 DEF Cell, Idle
  <2>4. QED BY <2>1, <2>3, AtomicStutter DEF Untouched, vars
<1>4. CASE CompactClear(c)
  <2>1. /\ at[c] = "clear" /\ at'[c] = "done" /\ frozen' = <<>> /\ status' = "ok"
        /\ UNCHANGED <<baseCsr, dataCsr, stable, pending, before>> /\ Untouched
        BY <1>1, <1>4 DEF CompactClear, historyVars, Untouched
  <2>2. /\ baseCsr = FoundMerged /\ dataCsr = FoundMerged /\ stable = FALSE /\ pending = {}
        /\ graph = NoGraph
        BY <2>1 DEF IndCompact, Progress
  <2>3. Cell = before /\ CellIs(baseCsr, dataCsr, stable, pending, frozen)'
    <3>1. Compacting /\ ~Compacting'
          BY <1>2, <2>1 DEF Idle
    <3>2. QED BY <3>1 DEF Cell, Cells, CellIs
  <2>4. /\ Cell'.base = FoundMerged /\ Cell'.data = FoundMerged /\ Cell'.stable = FALSE
        /\ Cell'.pending = {} /\ Cell'.frozen = <<>>
        BY <2>1, <2>2, <2>3 DEF CellIs
  <2>5. Atomic!Renumbered(Atomic!Merged(Cell.base, Atomic!Flushed)) = FoundMerged
        BY <2>3, AtomicMerge DEF FoundMerged, FoundFlushed
  <2>6. Atomic!MergeDeltas
        BY <2>4, <2>5 DEF Atomic!MergeDeltas
  <2>7. Atomic!Call("compact")
        BY <2>2 DEF Atomic!Call, NoGraph
  <2>8. QED BY <2>1, <2>6, <2>7 DEF Atomic!Compact, Untouched
<1>5. CASE CompactLockPending(c) \/ CompactFlush(c) \/ CompactLoad(c) \/ CompactClone(c)
           \/ CompactStoreData(c) \/ CompactStoreBase(c) \/ CompactStoreFlag(c)
  <2>1. Untouched /\ status' = status /\ before' = before /\ ~Idle(c) /\ ~Idle(c)'
        BY <1>1, <1>5 DEF CompactLockPending, CompactFlush, CompactLoad, CompactClone, CompactStoreData,
                          CompactStoreBase, CompactStoreFlag, vars, historyVars, Untouched, Idle
  <2>2. Cell' = Cell
        BY <1>2, <2>1 DEF Cell
  <2>3. QED BY <2>1, <2>2, AtomicStutter
<1>6. QED BY <1>3, <1>4, <1>5 DEF CompactStep

\* A call of the owner finds and leaves nothing hidden.
LEMMA AtomicExclusive == ASSUME Exclusive PROVE Atomic!Mutate
<1>1. ~Compacting /\ ~Compacting'
      BY DEF Exclusive, Quiet, AllIdle, Compacting, Idle, Threads
<1>2. CellIs(baseCsr, dataCsr, stable, pending, frozen)
      BY <1>1, QuietCell
<1>3. CellIs(baseCsr, dataCsr, stable, pending, frozen)'
      BY <1>1 DEF Cell, Cells, CellIs
<1>4. QED BY <1>2, <1>3, AtomicMutate DEF Exclusive

LEMMA AtomicSteps ==
    ASSUME IndShared, IndCompact, OneCompactor, [SharedNext]_sharedVars
    PROVE  [Atomic!Next]_Atomic!vars
<1>1. CASE UNCHANGED sharedVars
  <2>1. Cell' = Cell
        BY <1>1 DEF sharedVars, vars, threadVars, historyVars, Cell, Cells, Compacting, Idle
  <2>2. QED BY <1>1, <2>1, AtomicStutter DEF sharedVars, vars, Untouched
<1>2. CASE Exclusive
      BY <1>2, AtomicExclusive DEF Atomic!Next
<1>3. ASSUME NEW r \in Readers, ReadStep(r) \/ \E i \in DOMAIN idAt : ReadStart(r, i)
      PROVE  UNCHANGED Atomic!vars
      BY <1>3, AtomicRead
<1>4. ASSUME NEW c \in Compactors, CompactCall(c) \/ CompactStep(c)
      PROVE  Atomic!Next \/ UNCHANGED Atomic!vars
      BY <1>4, AtomicCompact DEF Atomic!Next
<1>5. QED BY <1>1, <1>2, <1>3, <1>4 DEF SharedNext

\* With one compactor, compact is atomic for the owner of the frame: whatever
\* reads run beside it, the frame goes through the states it goes through when
\* the compaction is a single step.
THEOREM AtomicCorrect == OneCompactor => (SharedSpec => CompactIsAtomic)
<1> SUFFICES ASSUME OneCompactor PROVE SharedSpec => CompactIsAtomic
    OBVIOUS
<1>1. SharedInit => Atomic!Init
      BY AtomicInit
<1>2. IndShared /\ IndCompact /\ [SharedNext]_sharedVars => [Atomic!Next]_Atomic!vars
      BY AtomicSteps
<1>3. SharedSpec => []IndCompact
      BY CompactInvariant
<1>4. QED BY <1>1, <1>2, <1>3, SharedInvariant, PTL DEF SharedSpec, CompactIsAtomic, Atomic!Spec

-----------------------------------------------------------------------------
(* Reads. *)

\* The id tables, which shared calls only read.
LEMMA SharedIndices == SharedSpec => [](LookupIsLiveRows /\ IndIndices)
<1>1. SharedInit => LookupIsLiveRows /\ IndIndices
      BY InitIndices DEF SharedInit, Init, LookupIsLiveRows, LiveNodes
<1>2. ASSUME IndShared, LookupIsLiveRows, IndIndices, [SharedNext]_sharedVars
      PROVE  LookupIsLiveRows' /\ IndIndices'
  <2>1. TypeOK
        BY <1>2 DEF IndShared, IndTypes
  <2>2. CASE Exclusive
        BY <1>2, <2>1, <2>2, NextLookup, NextIndices DEF Exclusive, Next
  <2>3. CASE UNCHANGED <<nodeLive, lookup, localOf, idAt, panicked>> /\ pending' \subseteq pending
        BY <1>2, <2>3 DEF IndIndices, LookupIsLiveRows, LiveNodes, LocalIndexIsNewest,
                          PendingUsesCurrentIndex
  <2>4. CASE ~Exclusive
    <3>1. UNCHANGED <<nodeLive, lookup, localOf, idAt, panicked>> /\ pending' \subseteq pending
          BY <1>2, <2>4 DEF SharedNext, sharedVars, vars, ReadStep, ReadStart, ReadLockFrozen,
             ReadLockPending, ReadScan, ReadReturn, CompactStep, CompactCall, CompactLockPending,
             CompactFlush, CompactLoad, CompactClone, CompactStoreData, CompactStoreBase,
             CompactStoreFlag, CompactClear
    <3>2. QED BY <2>3, <3>1
  <2>5. QED BY <2>2, <2>4
<1>3. IndShared /\ (LookupIsLiveRows /\ IndIndices) /\ [SharedNext]_sharedVars
         => (LookupIsLiveRows /\ IndIndices)'
      BY <1>2
<1>4. QED BY <1>1, <1>3, SharedInvariant, PTL DEF SharedSpec

\* The deltas that the sharing began with, and what they and the base of then
\* give a reader.
FoundDeltas == (UNION {before.frozen[k] : k \in DOMAIN before.frozen}) \cup before.pending
FoundNeighbors(i) ==
    Shown({e \in before.base : e.src = i}, before.stable)
        \cup {e.edge : e \in {e \in FoundDeltas : e.src = i /\ BothEndsLive(e)}}

Found ==
    /\ before.frozen \in Seq(SUBSET DeltaEdge) /\ before.pending \in SUBSET DeltaEdge
    /\ before.stable => before.base = WrappedCsr
    /\ \A e \in FoundDeltas : Len(Rows) < e.edge
    /\ seen = [i \in DOMAIN idAt |-> FoundNeighbors(i)] /\ seenStable = before.stable

LEMMA FoundAtInit == ASSUME SharedInit PROVE Found
<1>1. before = Cells /\ frozen = <<>> /\ pending = {} /\ stable = TRUE
      BY DEF SharedInit, Init
<1>2. /\ before.frozen = frozen /\ before.pending = pending /\ before.stable = stable
      /\ before.base = baseCsr
      BY <1>1, FoundCells
<1>3. FoundDeltas = DeltaEdges
      BY <1>2 DEF FoundDeltas, DeltaEdges, FrozenEdges
<1>4. \A i : FoundNeighbors(i) = OutNeighbors(i)
      BY <1>2, <1>3 DEF FoundNeighbors, OutNeighbors
<1>5. DeltaEdges = {}
      BY <1>1 DEF DeltaEdges, FrozenEdges
<1>6. baseCsr = WrappedCsr
      BY DEF SharedInit, Init, WrappedCsr
<1>7. QED BY <1>1, <1>2, <1>3, <1>4, <1>5, <1>6 DEF Found, SharedInit

\* When the owner has the frame back, its cells are the ones found or the merged
\* ones: a base that still has the rows' ids, and deltas numbered after the rows.
LEMMA QuietFound ==
    ASSUME Quiet, IndCompact, Found, OneCompactor
    PROVE  /\ stable => baseCsr = WrappedCsr
           /\ \A e \in DeltaEdges : Len(Rows) < e.edge
<1>1. CASE \A c \in Compactors : at[c] = "idle"
  <2>1. before = Cells
        BY <1>1 DEF IndCompact, Progress
  <2>2. FoundDeltas = DeltaEdges /\ before.base = baseCsr /\ before.stable = stable
        BY <2>1, FoundCells DEF FoundDeltas, DeltaEdges, FrozenEdges
  <2>3. QED BY <2>2 DEF Found
<1>2. ASSUME NEW c \in Compactors, at[c] # "idle"
      PROVE  stable = FALSE /\ DeltaEdges = {}
  <2>1. at[c] = "done"
        BY <1>2 DEF Quiet, Idle, Threads
  <2>2. QED BY <2>1 DEF IndCompact, Progress, DeltaEdges, FrozenEdges
<1>3. QED BY <1>1, <1>2

LEMMA FoundAtCall ==
    ASSUME TypeOK, LocalIndexIsNewest, TypeOK', IndCompact, Found, OneCompactor, Exclusive
    PROVE  Found'
<1>1. /\ stable => baseCsr = WrappedCsr
      /\ \A e \in DeltaEdges : Len(Rows) < e.edge
      BY QuietFound DEF Exclusive
<1>2. stable' = stable /\ baseCsr' = baseCsr
      BY DEF Exclusive, Mutate, AddNodes, DeleteNode, UpdateNode, AddEdge, DeleteEdge,
             UpdateEdgeRow, UpdateEdge
<1>3. \A e \in DeltaEdges' : Len(Rows) < e.edge
  <2>1. NodeStep \/ EdgeStep \/ MergeStep
        BY StepKinds DEF Exclusive, Next
  <2>2. CASE NodeStep
        BY <1>1, <2>2 DEF NodeStep, DeltaEdges, FrozenEdges
  <2>3. CASE EdgeStep
    <3>1. CASE UNCHANGED <<pending, frozen, nextSerial>>
          BY <1>1, <3>1 DEF DeltaEdges, FrozenEdges
    <3>2. ASSUME NEW e \in DeltaEdge, e.edge = nextSerial, Push(e)
          PROVE  \A f \in DeltaEdges' : Len(Rows) < f.edge
      <4>1. DeltaEdges' = DeltaEdges \cup {e}
            BY <3>2, PushAdds
      <4>2. Len(Rows) < nextSerial
        <5>1. Len(Rows) \in Nat
              BY RowsAssumption
        <5>2. QED BY <5>1, BoundsAssumption DEF TypeOK
      <4>3. QED BY <1>1, <3>2, <4>1, <4>2
    <3>3. QED BY <2>3, <3>1, <3>2 DEF EdgeStep
  <2>4. CASE MergeStep
        BY <2>4 DEF MergeStep, MergeDeltas, DeltaEdges, FrozenEdges
  <2>5. QED BY <2>1, <2>2, <2>3, <2>4
<1>4. /\ before' = Cells' /\ seenStable' = stable'
      /\ seen' = [i \in DOMAIN idAt' |-> OutNeighbors(i)']
      BY DEF Exclusive
<1>5. /\ before'.frozen = frozen' /\ before'.pending = pending' /\ before'.stable = stable'
      /\ before'.base = baseCsr'
      BY <1>4 DEF Cells
<1>6. FoundDeltas' = DeltaEdges'
      BY <1>5 DEF FoundDeltas, DeltaEdges, FrozenEdges
<1>7. \A i : FoundNeighbors(i)' = OutNeighbors(i)'
      BY <1>5, <1>6 DEF FoundNeighbors, OutNeighbors
<1>8. frozen' \in Seq(SUBSET DeltaEdge) /\ pending' \in SUBSET DeltaEdge
      BY DEF TypeOK
<1>9. seen' = [i \in DOMAIN idAt' |-> FoundNeighbors(i)'] /\ seenStable' = before'.stable
      BY <1>4, <1>5, <1>7
<1>10. before'.stable => before'.base = WrappedCsr
       BY <1>1, <1>2, <1>5
<1>11. WrappedCsr' = WrappedCsr
       BY DEF WrappedCsr, InitLocalOf, RowIds
<1>12. QED BY <1>3, <1>5, <1>6, <1>8, <1>9, <1>10, <1>11 DEF Found

\* The entries of one node, and the edges that some entries show by their ends alone.
From(entries, i) == {e \in entries : e.src = i}
EndsShow(entries) == {e.edge : e \in {e \in entries : BothEndsLive(e)}}

\* The base that a reader took, and whether it has to be exact.
BaseOf(r) == IF newBase[r] THEN FoundMerged ELSE before.base
OneSided(r) ==
    /\ before.stable /\ newBase[r] = newChunks[r]
    /\ newBase[r] \/ \A row \in RowIds : edgeLive[row]

\* What a reader holds, has collected and still has to look at.
ReadingAt(r) ==
    /\ at[r] \in {"idle", "done", "read_frozen", "read_pending", "scan", "scan_rest"}
    /\ at[r] # "idle" => node[r] \in DOMAIN idAt
    /\ at[r] \in {"read_frozen", "read_pending", "scan"} => held[r] = From(BaseOf(r), node[r])
    /\ at[r] \in {"read_pending", "scan", "scan_rest"} =>
          (newChunks[r] <=> \E c \in Compactors : Cleared(c))
    /\ at[r] = "scan_rest" /\ OneSided(r) =>
          /\ held[r] \subseteq From(BaseOf(r), node[r])
          /\ got[r].edges \cup EndsShow(held[r]) = EndsShow(From(BaseOf(r), node[r]))
    /\ at[r] = "done" /\ OneSided(r) =>
          got[r] = [edges |-> FoundNeighbors(node[r]), twice |-> {}]

Reading ==
    /\ newBase \in [Readers -> BOOLEAN] /\ newChunks \in [Readers -> BOOLEAN]
    /\ \A r \in Readers : ReadingAt(r)

\* The chunks that compact merges are the deltas found.
LEMMA FlushedFound ==
    ASSUME Found
    PROVE  /\ \A e : (\E k \in DOMAIN FoundFlushed : e \in FoundFlushed[k]) <=> e \in FoundDeltas
           /\ FoundFlushed \in Seq(SUBSET DeltaEdge)
<1>1. before.frozen \in Seq(SUBSET DeltaEdge) /\ before.pending \in SUBSET DeltaEdge
      BY DEF Found
<1>2. CASE before.pending = {}
      BY <1>1, <1>2 DEF FoundFlushed, FoundDeltas
<1>3. CASE before.pending # {}
  <2> DEFINE n == Len(before.frozen) + 1
  <2>1. /\ FoundFlushed \in Seq(SUBSET DeltaEdge)
        /\ DOMAIN FoundFlushed = DOMAIN before.frozen \cup {n}
        /\ FoundFlushed[n] = before.pending
        /\ \A k \in DOMAIN before.frozen : FoundFlushed[k] = before.frozen[k]
        BY <1>1, <1>3 DEF FoundFlushed
  <2>2. QED BY <2>1 DEF FoundDeltas
<1>4. QED BY <1>2, <1>3

\* The merged base shows, without row tombstones, what the cells found show with
\* them: what compact left out was not to be seen.
LEMMA MergedNeighbors ==
    ASSUME Found, before.stable, NEW i
    PROVE  EndsShow(From(FoundMerged, i)) = FoundNeighbors(i)
<1> DEFINE rows == Merged(before.base, FoundFlushed)
           n(f) == 1 + Cardinality({y \in rows : Before(y, f)})
           new(f) == [src |-> f.src, dst |-> f.dst, edge |-> f.edge, id |-> n(f)]
           old(e) == [src |-> e.src, part |-> 0, dst |-> e.dst, tie |-> e.id, edge |-> e.edge]
           delta(k, e) == [src |-> e.src, part |-> k, dst |-> e.dst, tie |-> e.edge,
                           edge |-> e.edge]
<1>1. \A x : x \in FoundMerged <=> \E f \in rows : x = new(f)
      BY DEF FoundMerged, Renumbered
<1>2. \A f : /\ new(f).edge = f.edge /\ new(f).src = f.src
             /\ BothEndsLive(new(f)) <=> BothEndsLive(f)
      BY DEF BothEndsLive
<1>3. \A x : x \in rows <=>
         \/ \E e \in before.base : RowIsLive(e.id) /\ BothEndsLive(e) /\ x = old(e)
         \/ \E k \in DOMAIN FoundFlushed : \E e \in FoundFlushed[k] :
               BothEndsLive(e) /\ x = delta(k, e)
      BY DEF Merged
<1>4. \A e : /\ old(e).edge = e.edge /\ old(e).src = e.src
             /\ BothEndsLive(old(e)) <=> BothEndsLive(e)
      BY DEF BothEndsLive
<1>5. \A k, e : /\ delta(k, e).edge = e.edge /\ delta(k, e).src = e.src
                /\ BothEndsLive(delta(k, e)) <=> BothEndsLive(e)
      BY DEF BothEndsLive
<1> HIDE DEF rows, new, old, delta
<1>6. \A x : x \in EndsShow(From(FoundMerged, i)) <=>
         \E f \in rows : x = f.edge /\ f.src = i /\ BothEndsLive(f)
      BY <1>1, <1>2 DEF EndsShow, From
<1>7. \A x : (\E f \in rows : x = f.edge /\ f.src = i /\ BothEndsLive(f)) <=>
         \/ \E e \in before.base : RowIsLive(e.id) /\ BothEndsLive(e) /\ x = e.edge /\ e.src = i
         \/ \E e \in FoundDeltas : BothEndsLive(e) /\ x = e.edge /\ e.src = i
      BY <1>3, <1>4, <1>5, FlushedFound
<1>8. \A x : x \in FoundNeighbors(i) <=>
         \/ \E e \in before.base : RowIsLive(e.id) /\ BothEndsLive(e) /\ x = e.edge /\ e.src = i
         \/ \E e \in FoundDeltas : BothEndsLive(e) /\ x = e.edge /\ e.src = i
      BY DEF FoundNeighbors, Shown
<1>9. QED BY <1>6, <1>7, <1>8

\* With every row live, the flag does not matter to the base found.
LEMMA FlagDoesNotMatter ==
    ASSUME Found, before.stable, \A row \in RowIds : edgeLive[row],
           NEW entries, entries \subseteq before.base, NEW flag
    PROVE  Shown(entries, flag) = EndsShow(entries)
<1>1. \A e \in entries : e.id \in RowIds
      BY DEF Found, WrappedCsr
<1>2. QED BY <1>1 DEF Shown, EndsShow, RowIsLive

LEMMA FoundShown ==
    ASSUME Found, before.stable, \A row \in RowIds : edgeLive[row], NEW i
    PROVE  /\ FoundNeighbors(i) = EndsShow(From(before.base, i)) \cup EndsShow(From(FoundDeltas, i))
           /\ EndsShow(From(before.base, i)) \cap EndsShow(From(FoundDeltas, i)) = {}
<1>1. From(before.base, i) \subseteq before.base
      BY DEF From
<1>2. Shown(From(before.base, i), before.stable) = EndsShow(From(before.base, i))
      BY <1>1, FlagDoesNotMatter
<1>3. FoundNeighbors(i) = EndsShow(From(before.base, i)) \cup EndsShow(From(FoundDeltas, i))
      BY <1>2 DEF FoundNeighbors, EndsShow, From
<1>4. \A e \in before.base : e.edge \in 1..Len(Rows)
      BY DEF Found, WrappedCsr, RowIds
<1>5. \A e \in FoundDeltas : Len(Rows) < e.edge /\ e.edge \in Nat
      BY DEF Found, FoundDeltas, DeltaEdge, Serials
<1>6. Len(Rows) \in Nat
      BY RowsAssumption
<1>7. QED BY <1>3, <1>4, <1>5, <1>6 DEF EndsShow, From

\* Until the chunks are cleared a reader who locks them finds the deltas found,
\* flushed or not; afterwards it finds none.
LEMMA DeltasRead ==
    ASSUME IndCompact, Found
    PROVE  /\ (~\E c \in Compactors : Cleared(c)) => DeltaEdges = FoundDeltas
           /\ (\E c \in Compactors : Cleared(c)) => DeltaEdges = {} /\ stable = FALSE
<1>1. ASSUME before = Cells PROVE DeltaEdges = FoundDeltas
      BY <1>1, FoundCells DEF DeltaEdges, FrozenEdges, FoundDeltas
<1>2. ASSUME pending = {}, frozen = FoundFlushed PROVE DeltaEdges = FoundDeltas
      BY <1>2, FlushedFound DEF DeltaEdges, FrozenEdges
<1>3. ASSUME ~\E c \in Compactors : Cleared(c) PROVE DeltaEdges = FoundDeltas
  <2>1. CASE \A c \in Compactors : at[c] = "idle"
        BY <1>1, <2>1 DEF IndCompact, Progress
  <2>2. ASSUME NEW c \in Compactors, at[c] # "idle" PROVE DeltaEdges = FoundDeltas
        BY <1>1, <1>2, <1>3, <2>2 DEF IndCompact, CompactSites, Progress, Cleared
  <2>3. QED BY <2>1, <2>2
<1>4. ASSUME NEW c \in Compactors, Cleared(c) PROVE DeltaEdges = {} /\ stable = FALSE
      BY <1>4 DEF IndCompact, Progress, Cleared, DeltaEdges, FrozenEdges
<1>5. QED BY <1>3, <1>4

\* What the sharing began with stays as it was until the owner calls again.
KeepsFound ==
    /\ UNCHANGED <<nodeLive, lookup, idAt, edgeLive, before, seen, seenStable>>
    /\ FoundMerged' = FoundMerged

LEMMA SharingKeepsFound ==
    ASSUME IndShared, IndCompact, OneCompactor, [SharedNext]_sharedVars, ~Exclusive
    PROVE  KeepsFound
<1>1. UNCHANGED <<nodeLive, lookup, idAt, edgeLive, seen, seenStable>>
      BY DEF SharedNext, sharedVars, vars, historyVars, ReadStep, ReadStart, ReadLockFrozen,
             ReadLockPending, ReadScan, ReadReturn, CompactStep, CompactCall, CompactLockPending,
             CompactFlush, CompactLoad, CompactClone, CompactStoreData, CompactStoreBase,
             CompactStoreFlag, CompactClear
<1>2. before' = before
  <2>1. ASSUME NEW c \in Compactors, CompactCall(c) PROVE before' = before
    <3>1. \A d \in Compactors : at[d] = "idle"
          BY <2>1 DEF CompactCall, OneCompactor
    <3>2. before = Cells
          BY <3>1 DEF IndCompact, Progress
    <3>3. QED BY <2>1, <3>2 DEF CompactCall
  <2>2. CASE ~\E c \in Compactors : CompactCall(c)
        BY <2>2 DEF SharedNext, sharedVars, historyVars, ReadStep, ReadStart, ReadLockFrozen,
             ReadLockPending, ReadScan, ReadReturn, CompactStep, CompactLockPending, CompactFlush,
             CompactLoad, CompactClone, CompactStoreData, CompactStoreBase, CompactStoreFlag,
             CompactClear
  <2>3. QED BY <2>1, <2>2
<1>3. FoundMerged' = FoundMerged
      BY <1>1, <1>2 DEF FoundMerged, FoundFlushed, Merged, Renumbered, Before, RowIsLive,
                        BothEndsLive, LocalIsLive, IdIsLive
<1>4. QED BY <1>1, <1>2, <1>3 DEF KeepsFound

LEMMA FoundStays ==
    ASSUME KeepsFound
    PROVE  /\ Found => Found'
           /\ \A i : FoundNeighbors(i)' = FoundNeighbors(i)
           /\ \A e : BothEndsLive(e)' <=> BothEndsLive(e)
<1>1. \A e : BothEndsLive(e)' <=> BothEndsLive(e)
      BY DEF KeepsFound, BothEndsLive, LocalIsLive, IdIsLive
<1>2. \A i : FoundNeighbors(i)' = FoundNeighbors(i)
      BY <1>1 DEF KeepsFound, FoundNeighbors, FoundDeltas, Shown, RowIsLive
<1>3. Found => Found'
      BY <1>2 DEF KeepsFound, Found, FoundDeltas, WrappedCsr, InitLocalOf, RowIds
<1>4. QED BY <1>1, <1>2, <1>3

\* A reader that does not move keeps what it has, unless the chunks are cleared
\* under it.
LEMMA ReaderStays ==
    ASSUME KeepsFound, NEW r \in Readers, ReadingAt(r),
           at'[r] = at[r], node'[r] = node[r], got'[r] = got[r], held'[r] = held[r],
           newBase'[r] = newBase[r], newChunks'[r] = newChunks[r],
           \/ \A c \in Compactors : Cleared(c)' <=> Cleared(c)
           \/ at[r] \notin {"read_pending", "scan", "scan_rest"}
    PROVE  ReadingAt(r)'
<1>1. /\ \A i : FoundNeighbors(i)' = FoundNeighbors(i)
      /\ \A e : BothEndsLive(e)' <=> BothEndsLive(e)
      BY FoundStays
<1>2. BaseOf(r)' = BaseOf(r) /\ (OneSided(r)' <=> OneSided(r)) /\ idAt' = idAt
      BY DEF BaseOf, OneSided, KeepsFound, RowIds
<1>3. EndsShow(held[r])' = EndsShow(held[r])
      BY <1>1 DEF EndsShow
<1>4. EndsShow(From(BaseOf(r), node[r]))' = EndsShow(From(BaseOf(r), node[r]))
      BY <1>1, <1>2 DEF EndsShow, From
<1>5. FoundNeighbors(node[r])' = FoundNeighbors(node[r])
  <2> DEFINE i == node[r]
  <2>1. FoundNeighbors(i)' = FoundNeighbors(i)
        BY <1>1
  <2>2. QED BY <2>1
<1>6. From(BaseOf(r), node[r])' = From(BaseOf(r), node[r])
      BY <1>2 DEF From
<1>7. QED BY <1>2, <1>3, <1>4, <1>5, <1>6 DEF ReadingAt

\* The base that a reader loads is the one found, or the merged one.
LEMMA StartReads ==
    ASSUME IndShared, IndCompact, Found, Reading, KeepsFound,
           NEW r \in Readers, NEW i \in DOMAIN idAt, ReadStart(r, i)
    PROVE  ReadingAt(r)'
<1>1. r \in Threads /\ at \in [Threads -> Sites] /\ held \in [Threads -> SUBSET CsrEntry]
      /\ node \in [Readers -> Nat]
      BY DEF Threads, IndShared, SharedTypeOK, Sites
<1>2. /\ at'[r] = "read_frozen" /\ node'[r] = i /\ held'[r] = From(baseCsr, i)
      /\ newBase'[r] = (\E c \in Compactors : Stored(c)) /\ UNCHANGED vars
      BY <1>1 DEF ReadStart, From, Reading
<1>3. baseCsr = IF \E c \in Compactors : Stored(c) THEN FoundMerged ELSE before.base
  <2>1. ASSUME NEW c \in Compactors, Stored(c) PROVE baseCsr = FoundMerged
        BY <2>1 DEF IndCompact, Progress, Stored
  <2>2. ASSUME ~\E c \in Compactors : Stored(c) PROVE baseCsr = before.base
    <3>1. CASE \A c \in Compactors : at[c] = "idle"
          BY <3>1, FoundCells DEF IndCompact, Progress
    <3>2. ASSUME NEW c \in Compactors, at[c] # "idle" PROVE baseCsr = before.base
      <4>1. before = Cells \/ baseCsr = before.base
            BY <2>2, <3>2 DEF IndCompact, CompactSites, Progress, Stored
      <4>2. QED BY <4>1, FoundCells
    <3>3. QED BY <3>1, <3>2
  <2>3. QED BY <2>1, <2>2
<1>4. BaseOf(r)' = baseCsr
      BY <1>2, <1>3 DEF BaseOf, KeepsFound
<1>5. From(BaseOf(r), node[r])' = From(baseCsr, i)
      BY <1>2, <1>4 DEF From
<1>6. QED BY <1>2, <1>5 DEF ReadingAt, vars

LEMMA LockReads ==
    ASSUME IndShared, Reading, KeepsFound, NEW r \in Readers, ReadLockFrozen(r)
    PROVE  ReadingAt(r)'
<1>1. r \in Threads /\ at \in [Threads -> Sites]
      BY DEF Threads, IndShared, SharedTypeOK, Sites
<1>2. /\ at[r] = "read_frozen" /\ at'[r] = "read_pending"
      /\ newChunks'[r] = (\E c \in Compactors : Cleared(c))
      /\ UNCHANGED <<vars, held, node, newBase>>
      BY <1>1 DEF ReadLockFrozen, Reading
<1>3. \A c \in Compactors : at'[c] = at[c]
  <2>1. \A c \in Compactors : c # r /\ c \in Threads
        BY ThreadsAssumption DEF Threads
  <2>2. QED BY <1>1, <2>1 DEF ReadLockFrozen
<1>4. \A c \in Compactors : Cleared(c)' <=> Cleared(c)
      BY <1>3 DEF Cleared
<1>5. BaseOf(r)' = BaseOf(r)
      BY <1>2 DEF BaseOf, KeepsFound
<1>6. From(BaseOf(r), node[r])' = From(BaseOf(r), node[r])
      BY <1>2, <1>5 DEF From
<1>7. held'[r] = From(BaseOf(r), node[r])' /\ node'[r] \in DOMAIN idAt'
      BY <1>2, <1>6 DEF Reading, ReadingAt, vars
<1>8. newChunks'[r] <=> \E c \in Compactors : Cleared(c)'
      BY <1>2, <1>4
<1>9. QED BY <1>2, <1>7, <1>8 DEF ReadingAt

\* A scan of part of the entries shows those with live ends, if the read is one
\* that has to be exact.
LEMMA ScanReads ==
    ASSUME IndShared, IndCompact, Found, Reading, KeepsFound, NEW r \in Readers, ReadScan(r)
    PROVE  ReadingAt(r)'
<1>1. r \in Threads /\ at \in [Threads -> Sites] /\ held \in [Threads -> SUBSET CsrEntry]
      /\ got \in [Readers -> [edges : SUBSET Serials, twice : SUBSET Serials]]
      BY DEF Threads, IndShared, SharedTypeOK, Sites
<1>2. PICK p \in Prefixes(held[r]) : /\ got' = [got EXCEPT ![r].edges = Shown(p, stable)]
                                     /\ held' = [held EXCEPT ![r] = @ \ p]
      BY DEF ReadScan
<1>3. /\ at[r] = "scan" /\ at'[r] = "scan_rest" /\ p \subseteq held[r]
      /\ got'[r].edges = Shown(p, stable) /\ held'[r] = held[r] \ p
      /\ UNCHANGED <<vars, historyVars, node, newBase, newChunks>>
      BY <1>1, <1>2 DEF ReadScan, Prefixes
<1>4. held[r] = From(BaseOf(r), node[r]) /\ (newChunks[r] <=> \E c \in Compactors : Cleared(c))
      /\ node[r] \in DOMAIN idAt
      BY <1>3 DEF Reading, ReadingAt
<1>5. \A c \in Compactors : Cleared(c)' <=> Cleared(c)
  <2>1. \A c \in Compactors : c # r /\ c \in Threads
        BY ThreadsAssumption DEF Threads
  <2>2. QED BY <1>1, <2>1 DEF ReadScan, Cleared
<1>6. BaseOf(r)' = BaseOf(r) /\ (OneSided(r)' <=> OneSided(r))
      BY <1>3 DEF BaseOf, OneSided, KeepsFound, RowIds
<1>7. From(BaseOf(r), node[r])' = From(BaseOf(r), node[r])
      BY <1>3, <1>6 DEF From
<1>8. \A e : BothEndsLive(e)' <=> BothEndsLive(e)
      BY FoundStays
<1>9. EndsShow(held[r])' = EndsShow(held[r] \ p)
      BY <1>3, <1>8 DEF EndsShow
<1>10. EndsShow(From(BaseOf(r), node[r]))' = EndsShow(held[r])
  <2>1. From(BaseOf(r), node[r])' = held[r]
        BY <1>4, <1>7
  <2>2. QED BY <1>8, <2>1 DEF EndsShow
<1>11. ASSUME OneSided(r) PROVE Shown(p, stable) = EndsShow(p)
  <2>1. CASE newBase[r]
    <3>1. stable = FALSE
          BY <1>4, <1>11, <2>1, DeltasRead DEF OneSided
    <3>2. QED BY <3>1 DEF Shown, EndsShow
  <2>2. CASE ~newBase[r]
    <3>1. p \subseteq before.base
          BY <1>3, <1>4, <2>2 DEF BaseOf, From
    <3>2. QED BY <1>11, <2>2, <3>1, FlagDoesNotMatter DEF OneSided
  <2>3. QED BY <2>1, <2>2
<1>12. EndsShow(p) \cup EndsShow(held[r] \ p) = EndsShow(held[r])
       BY <1>3 DEF EndsShow
<1>13. ASSUME OneSided(r)'
       PROVE  /\ held'[r] \subseteq From(BaseOf(r), node[r])'
              /\ got'[r].edges \cup EndsShow(held[r])' = EndsShow(From(BaseOf(r), node[r]))'
       BY <1>3, <1>4, <1>6, <1>7, <1>9, <1>10, <1>11, <1>12, <1>13
<1>14. at'[r] = "scan_rest" /\ node'[r] \in DOMAIN idAt'
       /\ (newChunks'[r] <=> \E c \in Compactors : Cleared(c)')
       BY <1>3, <1>4, <1>5 DEF vars
<1>15. QED BY <1>13, <1>14 DEF ReadingAt

\* The rest of the entries and the deltas make up the neighbours found.
LEMMA ReturnReads ==
    ASSUME IndShared, IndCompact, Found, Reading, KeepsFound, NEW r \in Readers, ReadReturn(r)
    PROVE  ReadingAt(r)'
<1> DEFINE i == node[r]
           base == got[r].edges \cup Shown(held[r], stable)
           delta == {e.edge : e \in {e \in DeltaEdges : e.src = i /\ BothEndsLive(e)}}
<1>1. r \in Threads /\ at \in [Threads -> Sites]
      /\ got \in [Readers -> [edges : SUBSET Serials, twice : SUBSET Serials]]
      BY DEF Threads, IndShared, SharedTypeOK, Sites
<1>2. /\ at[r] = "scan_rest" /\ at'[r] = "done"
      /\ got'[r] = [edges |-> base \cup delta, twice |-> base \cap delta]
      /\ UNCHANGED <<vars, node, newBase, newChunks>>
      BY <1>1 DEF ReadReturn
<1>3. /\ node[r] \in DOMAIN idAt
      /\ newChunks[r] <=> \E c \in Compactors : Cleared(c)
      BY <1>2 DEF Reading, ReadingAt
<1>4. OneSided(r)' <=> OneSided(r)
      BY <1>2 DEF OneSided, KeepsFound, RowIds
<1>5. FoundNeighbors(node[r])' = FoundNeighbors(i)
  <2>1. \A j : FoundNeighbors(j)' = FoundNeighbors(j)
        BY FoundStays
  <2>2. QED BY <1>2, <2>1
<1>6. delta = EndsShow(From(DeltaEdges, i))
      BY DEF EndsShow, From
<1> HIDE DEF delta
<1>7. ASSUME OneSided(r)
      PROVE  base \cup delta = FoundNeighbors(i) /\ base \cap delta = {}
  <2>1. /\ held[r] \subseteq From(BaseOf(r), i)
        /\ got[r].edges \cup EndsShow(held[r]) = EndsShow(From(BaseOf(r), i))
        BY <1>2, <1>7 DEF Reading, ReadingAt
  <2>2. CASE newBase[r]
    <3>1. stable = FALSE /\ DeltaEdges = {}
          BY <1>3, <1>7, <2>2, DeltasRead DEF OneSided
    <3>2. base = EndsShow(From(FoundMerged, i))
          BY <2>1, <2>2, <3>1 DEF Shown, EndsShow, BaseOf
    <3>3. delta = {}
          BY <1>6, <3>1 DEF EndsShow, From
    <3>4. base = FoundNeighbors(i)
          BY <1>7, <3>2, MergedNeighbors DEF OneSided
    <3> HIDE DEF base
    <3>5. QED BY <3>3, <3>4
  <2>3. CASE ~newBase[r]
    <3>1. DeltaEdges = FoundDeltas
      <4>1. ~\E c \in Compactors : Cleared(c)
            BY <1>3, <1>7, <2>3 DEF OneSided
      <4>2. QED BY <4>1, DeltasRead
    <3>2. /\ before.stable /\ \A row \in RowIds : edgeLive[row]
          /\ held[r] \subseteq before.base /\ BaseOf(r) = before.base
          BY <1>7, <2>1, <2>3 DEF OneSided, BaseOf, From
    <3>3. Shown(held[r], stable) = EndsShow(held[r])
          BY <3>2, FlagDoesNotMatter
    <3>4. base = EndsShow(From(before.base, i))
          BY <2>1, <3>2, <3>3
    <3>5. delta = EndsShow(From(FoundDeltas, i))
          BY <1>6, <3>1
    <3> HIDE DEF base
    <3>6. QED BY <3>2, <3>4, <3>5, FoundShown
  <2>4. QED BY <2>2, <2>3
<1> HIDE DEF base
<1>8. OneSided(r)' => got'[r] = [edges |-> FoundNeighbors(node[r])', twice |-> {}]
      BY <1>2, <1>4, <1>5, <1>7
<1>9. node'[r] \in DOMAIN idAt'
      BY <1>2, <1>3 DEF vars
<1>10. QED BY <1>2, <1>8, <1>9 DEF ReadingAt

\* The mutex changes nothing that is read.
LEMMA MutexReads ==
    ASSUME IndShared, Reading, KeepsFound, NEW r \in Readers, ReadLockPending(r)
    PROVE  ReadingAt(r)'
<1>1. r \in Threads /\ at \in [Threads -> Sites]
      BY DEF Threads, IndShared, SharedTypeOK, Sites
<1>2. /\ at[r] = "read_pending" /\ at'[r] = "scan"
      /\ UNCHANGED <<vars, held, node, newBase, newChunks>>
      BY <1>1 DEF ReadLockPending
<1>3. \A c \in Compactors : Cleared(c)' <=> Cleared(c)
  <2>1. \A c \in Compactors : c # r /\ c \in Threads
        BY ThreadsAssumption DEF Threads
  <2>2. QED BY <1>1, <2>1 DEF ReadLockPending, Cleared
<1>4. BaseOf(r)' = BaseOf(r)
      BY <1>2 DEF BaseOf, KeepsFound
<1>5. From(BaseOf(r), node[r])' = From(BaseOf(r), node[r])
      BY <1>2, <1>4 DEF From
<1>6. held'[r] = From(BaseOf(r), node[r])' /\ node'[r] \in DOMAIN idAt'
      /\ (newChunks'[r] <=> \E c \in Compactors : Cleared(c)')
      BY <1>2, <1>3, <1>5 DEF Reading, ReadingAt, vars
<1>7. QED BY <1>2, <1>6 DEF ReadingAt

LEMMA ReadingNext ==
    ASSUME IndShared, IndCompact, LocksFollowCalls, Found, Reading, OneCompactor,
           [SharedNext]_sharedVars
    PROVE  Reading'
<1>1. /\ at \in [Threads -> Sites] /\ held \in [Threads -> SUBSET CsrEntry]
      /\ node \in [Readers -> Nat]
      /\ got \in [Readers -> [edges : SUBSET Serials, twice : SUBSET Serials]]
      /\ newBase \in [Readers -> BOOLEAN] /\ newChunks \in [Readers -> BOOLEAN]
      BY DEF IndShared, SharedTypeOK, Sites, Reading
<1>2. /\ \A r \in Readers : r \in Threads
      /\ \A c \in Compactors : c \in Threads /\ c \notin Readers
      BY ThreadsAssumption DEF Threads
<1>3. CASE Exclusive
  <2>1. /\ \A r \in Readers : at'[r] = "idle"
        /\ newBase' = NotYet /\ newChunks' = NotYet
        BY <1>2, <1>3 DEF Exclusive, AllIdle
  <2>2. QED BY <2>1 DEF Reading, ReadingAt, NotYet
<1>4. ASSUME ~Exclusive PROVE KeepsFound
      BY <1>4, SharingKeepsFound
<1>5. ASSUME NEW r \in Readers, ~Exclusive,
             ReadStep(r) \/ \E i \in DOMAIN idAt : ReadStart(r, i)
      PROVE  Reading'
  <2>1. /\ newBase' \in [Readers -> BOOLEAN] /\ newChunks' \in [Readers -> BOOLEAN]
        BY <1>1, <1>5 DEF ReadStep, ReadStart, ReadLockFrozen, ReadLockPending, ReadScan, ReadReturn
  <2>2. ReadingAt(r)'
        BY <1>4, <1>5, StartReads, LockReads, MutexReads, ScanReads, ReturnReads DEF ReadStep
  <2>3. ASSUME NEW q \in Readers, q # r PROVE ReadingAt(q)'
    <3>1. /\ at'[q] = at[q] /\ node'[q] = node[q] /\ got'[q] = got[q] /\ held'[q] = held[q]
          /\ newBase'[q] = newBase[q] /\ newChunks'[q] = newChunks[q]
          BY <1>1, <1>2, <1>5, <2>3 DEF ReadStep, ReadStart, ReadLockFrozen, ReadLockPending,
                                        ReadScan, ReadReturn
    <3>2. \A c \in Compactors : at'[c] = at[c]
          BY <1>1, <1>2, <1>5 DEF ReadStep, ReadStart, ReadLockFrozen, ReadLockPending, ReadScan,
                                  ReadReturn
    <3>3. \A c \in Compactors : Cleared(c)' <=> Cleared(c)
          BY <3>2 DEF Cleared
    <3>4. ReadingAt(q)
          BY DEF Reading
    <3>5. QED BY <1>4, <1>5, <3>1, <3>3, <3>4, ReaderStays
  <2>4. QED BY <2>1, <2>2, <2>3 DEF Reading
<1>6. ASSUME NEW c \in Compactors, ~Exclusive, CompactCall(c) \/ CompactStep(c)
      PROVE  Reading'
  <2>1. UNCHANGED <<node, got, newBase, newChunks>>
        BY <1>6 DEF CompactStep, CompactCall, CompactLockPending, CompactFlush, CompactLoad,
           CompactClone, CompactStoreData, CompactStoreBase, CompactStoreFlag, CompactClear
  <2>2. ASSUME NEW q \in Readers PROVE at'[q] = at[q] /\ held'[q] = held[q]
        BY <1>1, <1>2, <1>6 DEF CompactStep, CompactCall, CompactLockPending, CompactFlush,
           CompactLoad, CompactClone, CompactStoreData, CompactStoreBase, CompactStoreFlag,
           CompactClear
  <2>3. \/ \A d \in Compactors : Cleared(d)' <=> Cleared(d)
        \/ \A q \in Readers : at[q] \notin {"read_pending", "scan", "scan_rest"}
    <3>1. CASE CompactClear(c)
          BY <3>1 DEF CompactClear, LocksFollowCalls
    <3>2. CASE ~CompactClear(c)
      <4>1. at[c] # "done" /\ at'[c] # "done" /\ \A d \in Compactors : d # c => at'[d] = at[d]
            BY <1>1, <1>2, <1>6, <3>2 DEF CompactStep, CompactCall, CompactLockPending,
               CompactFlush, CompactLoad, CompactClone, CompactStoreData, CompactStoreBase,
               CompactStoreFlag
      <4>2. QED BY <4>1 DEF Cleared
    <3>3. QED BY <3>1, <3>2
  <2>4. ASSUME NEW q \in Readers PROVE ReadingAt(q)'
    <3>1. ReadingAt(q)
          BY DEF Reading
    <3>2. QED BY <1>4, <1>6, <2>1, <2>2, <2>3, <3>1, ReaderStays
  <2>5. QED BY <2>1, <2>4 DEF Reading
<1>7. CASE UNCHANGED sharedVars /\ ~Exclusive
  <2>1. UNCHANGED <<at, held, node, got, newBase, newChunks>>
        BY <1>7 DEF sharedVars, threadVars
  <2>2. \A c \in Compactors : Cleared(c)' <=> Cleared(c)
        BY <2>1 DEF Cleared
  <2>3. ASSUME NEW q \in Readers PROVE ReadingAt(q)'
    <3>1. ReadingAt(q)
          BY DEF Reading
    <3>2. QED BY <1>4, <1>7, <2>1, <2>2, <3>1, ReaderStays
  <2>4. QED BY <2>1, <2>3 DEF Reading
<1>8. QED BY <1>3, <1>5, <1>6, <1>7 DEF SharedNext

\* Beside one compaction, the first since the graph was wrapped, a read that took
\* base and chunks from one side of it misses no edge, invents none and repeats
\* none, wherever between the stores the other steps of both fall.
THEOREM UntornCorrect == OneCompactor => (SharedSpec => []UntornReadsAreExact)
<1> SUFFICES ASSUME OneCompactor PROVE SharedSpec => []UntornReadsAreExact
    OBVIOUS
<1>1. SharedInit => Found /\ Reading
  <2>1. ASSUME SharedInit PROVE Reading
        BY <2>1 DEF SharedInit, AllIdle, NotYet, Threads, Reading, ReadingAt
  <2>2. QED BY <2>1, FoundAtInit
<1>2. ASSUME IndShared, LookupIsLiveRows /\ IndIndices, IndCompact, LocksFollowCalls,
             Found /\ Reading, [SharedNext]_sharedVars, IndShared'
      PROVE  (Found /\ Reading)'
  <2>1. ASSUME Exclusive PROVE Found'
        BY <1>2, <2>1, FoundAtCall DEF IndShared, IndTypes, IndIndices
  <2>2. ASSUME ~Exclusive PROVE Found'
        BY <1>2, <2>2, SharingKeepsFound, FoundStays
  <2>3. QED BY <1>2, <2>1, <2>2, ReadingNext
<1>3. SharedSpec => [](Found /\ Reading)
  <2>1. IndShared /\ (LookupIsLiveRows /\ IndIndices) /\ IndCompact /\ LocksFollowCalls
           /\ (Found /\ Reading) /\ [SharedNext]_sharedVars /\ IndShared'
           => (Found /\ Reading)'
        BY <1>2
  <2>2. SharedSpec => []IndCompact
        BY CompactInvariant
  <2>3. QED BY <1>1, <2>1, <2>2, SharedInvariant, SharedIndices, LocksCorrect, PTL DEF SharedSpec
<1>4. Found /\ Reading => UntornReadsAreExact
  <2>1. SUFFICES ASSUME Found, Reading, NEW r \in Readers,
                        at[r] = "done", seenStable, newBase[r] = newChunks[r],
                        newBase[r] \/ \A row \in RowIds : edgeLive[row]
                 PROVE  got[r] = [edges |-> seen[node[r]], twice |-> {}]
        BY DEF UntornReadsAreExact
  <2>2. OneSided(r) /\ node[r] \in DOMAIN idAt
        BY <2>1 DEF OneSided, Found, Reading, ReadingAt
  <2>3. got[r] = [edges |-> FoundNeighbors(node[r]), twice |-> {}]
        BY <2>1, <2>2 DEF Reading, ReadingAt
  <2>4. seen[node[r]] = FoundNeighbors(node[r])
        BY <2>1, <2>2 DEF Found
  <2>5. QED BY <2>3, <2>4
<1>5. QED BY <1>3, <1>4, PTL
=============================================================================
