---------------------- MODULE MutableGraphFrameProofs ----------------------
(***************************************************************************)
(* Proofs about MutableGraphFrame, for any ids, any wrapped graph, any     *)
(* flush threshold, any set of calls and any bounds: its tables first, and *)
(* then its edges, where each is kept, which of them a call can bring      *)
(* back, what freeze makes of them, and that the frame implements          *)
(* GraphStore.                                                             *)
(***************************************************************************)
EXTENDS MutableGraphFrame, Functions, FiniteSetTheorems, TLAPS

-----------------------------------------------------------------------------
(* Finite sets. *)

\* A set whose members a function finds in a finite set is finite.
LEMMA FiniteImage ==
    ASSUME NEW S, IsFiniteSet(S), NEW T, NEW f,
           \A t \in T : \E x \in S : t = f[x]
    PROVE  IsFiniteSet(T)
<1> DEFINE I == {f[x] : x \in S}
           g == [x \in S |-> f[x]]
<1>1. g \in Surjection(S, I)
      BY DEF Surjection
<1>2. IsFiniteSet(I)
      BY <1>1, FS_Surjection
<1>3. T \subseteq I
      OBVIOUS
<1>4. QED BY <1>2, <1>3, FS_Subset

\* There are finitely many delta edges.
LEMMA DeltaEdgeFinite == IsFiniteSet(DeltaEdge)
<1> DEFINE P == (LocalIdxs \X LocalIdxs) \X Serials
           f == [p \in P |-> [src |-> p[1][1], dst |-> p[1][2], edge |-> p[2]]]
<1>1. IsFiniteSet(LocalIdxs) /\ IsFiniteSet(Serials)
      BY FS_Interval, BoundsAssumption DEF LocalIdxs, Serials
<1>2. IsFiniteSet(LocalIdxs \X LocalIdxs)
      BY <1>1, FS_Product
<1>3. IsFiniteSet(P)
      BY <1>1, <1>2, FS_Product
<1>4. \A e \in DeltaEdge : \E p \in P : e = f[p]
  <2>1. SUFFICES ASSUME NEW e \in DeltaEdge PROVE \E p \in P : e = f[p]
        OBVIOUS
  <2>2. <<<<e.src, e.dst>>, e.edge>> \in P
        BY DEF DeltaEdge
  <2>3. f[<<<<e.src, e.dst>>, e.edge>>] = e
        BY <2>2 DEF DeltaEdge
  <2>4. QED BY <2>2, <2>3
<1> HIDE DEF P, f
<1>5. QED BY <1>3, <1>4, FiniteImage

\* What compact merges from a finite base and chunks of delta edges is finite.
LEMMA MergedFinite ==
    ASSUME NEW csr, IsFiniteSet(csr), NEW seq \in Seq(SUBSET DeltaEdge)
    PROVE  IsFiniteSet(Merged(csr, seq))
<1> DEFINE fromBase == [e \in csr |-> [src |-> e.src, part |-> 0, dst |-> e.dst,
                                       tie |-> e.id, edge |-> e.edge]]
           P == DeltaEdge \X DOMAIN seq
           fromDelta == [p \in P |-> [src |-> p[1].src, part |-> p[2], dst |-> p[1].dst,
                                      tie |-> p[1].edge, edge |-> p[1].edge]]
           old == {[src |-> e.src, part |-> 0, dst |-> e.dst, tie |-> e.id, edge |-> e.edge] :
                      e \in {e \in csr : RowIsLive(e.id) /\ BothEndsLive(e)}}
           new == UNION {{[src |-> e.src, part |-> c, dst |-> e.dst, tie |-> e.edge,
                           edge |-> e.edge] : e \in {e \in seq[c] : BothEndsLive(e)}} :
                         c \in DOMAIN seq}
<1>1. IsFiniteSet(P)
  <2>1. DOMAIN seq = 1..Len(seq) /\ Len(seq) \in Nat
        OBVIOUS
  <2>2. IsFiniteSet(DOMAIN seq)
        BY <2>1, FS_Interval
  <2>3. QED BY <2>2, DeltaEdgeFinite, FS_Product
<1>2. \A x \in old : \E e \in csr : x = fromBase[e]
      OBVIOUS
<1>3. \A x \in new : \E p \in P : x = fromDelta[p]
  <2>1. SUFFICES ASSUME NEW x \in new PROVE \E p \in P : x = fromDelta[p]
        OBVIOUS
  <2>2. PICK c \in DOMAIN seq : \E e \in seq[c] :
           x = [src |-> e.src, part |-> c, dst |-> e.dst, tie |-> e.edge, edge |-> e.edge]
        OBVIOUS
  <2>3. PICK e \in seq[c] :
           x = [src |-> e.src, part |-> c, dst |-> e.dst, tie |-> e.edge, edge |-> e.edge]
        BY <2>2
  <2>4. <<e, c>> \in P
        OBVIOUS
  <2>5. x = fromDelta[<<e, c>>]
        BY <2>3, <2>4
  <2>6. QED BY <2>4, <2>5
<1>4. Merged(csr, seq) = old \cup new
      BY DEF Merged
<1> HIDE DEF P, fromBase, fromDelta, old, new
<1>5. IsFiniteSet(old) /\ IsFiniteSet(new)
      BY <1>1, <1>2, <1>3, FiniteImage
<1>6. QED BY <1>4, <1>5, FS_Union

-----------------------------------------------------------------------------
(* The operators of the model. *)

\* CsrIndex::build: the entries it numbers are typed, and finite in number.
LEMMA RenumberedType ==
    ASSUME NEW csr \in SUBSET CsrEntry, IsFiniteSet(csr),
           NEW seq \in Seq(SUBSET DeltaEdge)
    PROVE  /\ Renumbered(Merged(csr, seq)) \subseteq CsrEntry
           /\ IsFiniteSet(Renumbered(Merged(csr, seq)))
<1> DEFINE rows == Merged(csr, seq)
           f == [x \in rows |-> [src |-> x.src, dst |-> x.dst, edge |-> x.edge,
                                 id |-> 1 + Cardinality({y \in rows : Before(y, x)})]]
<1>1. IsFiniteSet(rows)
      BY MergedFinite
<1>2. \A x \in rows : /\ x.src \in LocalIdxs /\ x.dst \in LocalIdxs
                      /\ x.edge \in Serials
      BY DEF Merged, CsrEntry, DeltaEdge
<1>3. \A x \in rows : Cardinality({y \in rows : Before(y, x)}) \in Nat
  <2>1. \A x \in rows : IsFiniteSet({y \in rows : Before(y, x)})
        BY <1>1, FS_Subset
  <2>2. QED BY <2>1, FS_CardinalityType
<1>4. Renumbered(rows) \subseteq CsrEntry
  <2>1. SUFFICES ASSUME NEW x \in rows PROVE f[x] \in CsrEntry
        BY DEF Renumbered
  <2> DEFINE n == Cardinality({y \in rows : Before(y, x)})
  <2>2. n \in Nat
        BY <1>3
  <2> HIDE DEF n
  <2>3. 1 + n \in Nat
        BY <2>2
  <2>4. f[x] = [src |-> x.src, dst |-> x.dst, edge |-> x.edge, id |-> 1 + n]
        BY DEF n
  <2>5. QED BY <1>2, <2>3, <2>4 DEF CsrEntry
<1>5. \A y \in Renumbered(rows) : \E x \in rows : y = f[x]
      BY DEF Renumbered
<1>6. IsFiniteSet(Renumbered(rows))
  <2> HIDE DEF rows, f
  <2>1. QED BY <1>1, <1>5, FiniteImage
<1>7. QED BY <1>4, <1>6

\* A table in which an id is resolved, and otherwise is the one it was before:
\* a known id keeps its index, a new one gets the next.
Resolves(table, at, of, id) ==
    /\ table = [at |-> table.at, of |-> table.of]
    /\ table.at \in Seq(Ids) /\ Len(at) <= Len(table.at)
    /\ DOMAIN table.of = DOMAIN of \cup {id}
    /\ table.of \in [DOMAIN table.of -> DOMAIN table.at]
    /\ \A x \in DOMAIN of : table.of[x] = of[x]
    /\ \A i \in DOMAIN at : i \in DOMAIN table.at /\ table.at[i] = at[i]
    /\ id \notin DOMAIN of =>
         /\ table.of[id] = Len(at) + 1 /\ table.at[Len(at) + 1] = id
         /\ DOMAIN table.at = DOMAIN at \cup {Len(at) + 1}
    /\ id \in DOMAIN of => table.at = at

\* resolve_edge_node_idx resolves its id in any typed tables.
LEMMA IndexedTable ==
    ASSUME NEW at \in Seq(Ids), NEW of, DOMAIN of \subseteq Ids,
           of \in [DOMAIN of -> DOMAIN at], NEW id \in Ids,
           NEW table, table = Indexed([at |-> at, of |-> of], id)
    PROVE  Resolves(table, at, of, id)
<1>1. CASE id \in DOMAIN of
  <2>1. table = [at |-> at, of |-> of]
        BY <1>1 DEF Indexed
  <2>2. QED BY <1>1, <2>1 DEF Resolves
<1>2. CASE id \notin DOMAIN of
  <2> DEFINE newAt == Append(at, id)
             newOf == [x \in DOMAIN of \cup {id} |-> IF x = id THEN Len(at) + 1 ELSE of[x]]
  <2>1. table = [at |-> newAt, of |-> newOf]
        BY <1>2 DEF Indexed
  <2>2. /\ newAt \in Seq(Ids) /\ Len(newAt) = Len(at) + 1 /\ newAt[Len(at) + 1] = id
        /\ \A i \in 1..Len(at) : newAt[i] = at[i]
        OBVIOUS
  <2>3. /\ DOMAIN at = 1..Len(at) /\ DOMAIN newAt = 1..Len(newAt)
        /\ Len(at) \in Nat
        BY <2>2
  <2>4. newOf \in [DOMAIN of \cup {id} -> DOMAIN newAt]
        BY <2>2, <2>3
  <2>5. \A x \in DOMAIN of : newOf[x] = of[x]
        BY <1>2
  <2>6. DOMAIN newOf = DOMAIN of \cup {id} /\ newOf[id] = Len(at) + 1
        OBVIOUS
  <2>7. DOMAIN newAt = DOMAIN at \cup {Len(at) + 1}
        BY <2>2, <2>3
  <2> HIDE DEF newAt, newOf
  <2>8. table.at = newAt /\ table.of = newOf /\ table = [at |-> table.at, of |-> table.of]
        BY <2>1
  <2>9. \A i \in DOMAIN at : i \in DOMAIN newAt /\ newAt[i] = at[i]
        BY <2>2, <2>3, <2>7
  <2>10. QED BY <1>2, <2>2, <2>3, <2>4, <2>5, <2>6, <2>7, <2>8, <2>9 DEF Resolves
<1>3. QED BY <1>1, <1>2

-----------------------------------------------------------------------------
(* Types. *)

\* Both ends of an appended edge get an index in tables of the same type.
LEMMA WithBothTyped ==
    ASSUME TypeOK, NEW s \in Ids, NEW d \in Ids
    PROVE  /\ WithSrc(s).at \in Seq(Ids) /\ WithBoth(s, d).at \in Seq(Ids)
           /\ Len(WithSrc(s).at) <= Len(WithBoth(s, d).at)
           /\ DOMAIN WithSrc(s).of = DOMAIN localOf \cup {s}
           /\ WithSrc(s).of \in [DOMAIN WithSrc(s).of -> DOMAIN WithSrc(s).at]
           /\ DOMAIN WithBoth(s, d).of = DOMAIN localOf \cup {s, d}
           /\ WithBoth(s, d).of \in [DOMAIN WithBoth(s, d).of -> DOMAIN WithBoth(s, d).at]
<1> DEFINE one == WithSrc(s)
           two == WithBoth(s, d)
<1>1. one = Indexed([at |-> idAt, of |-> localOf], s)
      BY DEF WithSrc
<1>2. two = Indexed(one, d)
      BY DEF WithBoth
<1> HIDE DEF one, two
<1>3. Resolves(one, idAt, localOf, s)
      BY <1>1, IndexedTable DEF TypeOK
<1>4. /\ two = Indexed([at |-> one.at, of |-> one.of], d)
      /\ one.at \in Seq(Ids) /\ DOMAIN one.of \subseteq Ids
      /\ one.of \in [DOMAIN one.of -> DOMAIN one.at]
      BY <1>2, <1>3 DEF Resolves, TypeOK
<1>5. Resolves(two, one.at, one.of, d)
      BY <1>4, IndexedTable
<1>6. QED BY <1>3, <1>5 DEF one, two, Resolves

\* add_edge_row leaves typed tables and deltas, whichever way it ends.
LEMMA AppendEdgeTyped ==
    ASSUME TypeOK, NEW s \in Ids, NEW d \in Ids, AppendEdge(s, d)
    PROVE  /\ idAt' \in Seq(Ids) /\ Len(idAt') <= MaxLocalIdx
           /\ DOMAIN localOf' \subseteq Ids /\ localOf' \in [DOMAIN localOf' -> DOMAIN idAt']
           /\ pending' \subseteq DeltaEdge
           /\ frozen' \in Seq(SUBSET DeltaEdge)
           /\ nextSerial' \in (Len(Rows) + 1)..(MaxSerial + 1)
           /\ status' \in {"ok", "err", "panic"}
<1> DEFINE one == WithSrc(s)
           two == WithBoth(s, d)
           e == [src |-> two.of[s], dst |-> two.of[d], edge |-> nextSerial]
<1>1. /\ one.at \in Seq(Ids) /\ two.at \in Seq(Ids) /\ Len(one.at) <= Len(two.at)
      /\ DOMAIN one.of = DOMAIN localOf \cup {s}
      /\ one.of \in [DOMAIN one.of -> DOMAIN one.at]
      /\ DOMAIN two.of = DOMAIN localOf \cup {s, d}
      /\ two.of \in [DOMAIN two.of -> DOMAIN two.at]
      BY WithBothTyped
<1>2. nextSerial <= MaxSerial /\ Len(two.at) <= MaxLocalIdx
      BY DEF AppendEdge
<1>3. CASE ~Resolvable(s)
      BY <1>3 DEF AppendEdge, TypeOK
<1>4. CASE Resolvable(s) /\ ~Resolvable(d)
  <2>1. localOf' = one.of /\ idAt' = one.at /\ status' = "err"
        /\ UNCHANGED <<pending, frozen, nextSerial>>
        BY <1>4 DEF AppendEdge
  <2>2. Len(one.at) <= MaxLocalIdx
        BY <1>1, <1>2, BoundsAssumption
  <2> HIDE DEF one, two
  <2>3. QED BY <1>1, <2>1, <2>2 DEF TypeOK
<1>5. CASE Resolvable(s) /\ Resolvable(d)
  <2>1. localOf' = two.of /\ idAt' = two.at /\ Push(e) /\ nextSerial' = nextSerial + 1
        /\ status' = "ok"
        BY <1>5 DEF AppendEdge
  <2> HIDE DEF one, two
  <2>2. DOMAIN two.at \subseteq LocalIdxs
        BY <1>1, <1>2, BoundsAssumption DEF LocalIdxs
  <2>3. nextSerial \in Serials /\ nextSerial + 1 \in (Len(Rows) + 1)..(MaxSerial + 1)
    <3>1. Len(Rows) \in Nat
          BY RowsAssumption
    <3>2. QED BY <1>2, <3>1, BoundsAssumption DEF TypeOK, Serials
  <2>4. e \in DeltaEdge
        BY <1>1, <2>2, <2>3 DEF DeltaEdge
  <2> HIDE DEF e
  <2>5. pending' \subseteq DeltaEdge /\ frozen' \in Seq(SUBSET DeltaEdge)
    <3> DEFINE buffer == pending \cup {e}
    <3>1. buffer \in SUBSET DeltaEdge
          BY <2>4 DEF TypeOK
    <3>2. CASE Cardinality(buffer) > FlushThreshold
      <4>1. frozen' = Append(frozen, buffer) /\ pending' = {}
            BY <2>1, <3>2 DEF Push
      <4>2. frozen \in Seq(SUBSET DeltaEdge)
            BY DEF TypeOK
      <4> HIDE DEF buffer
      <4>3. QED BY <3>1, <4>1, <4>2
    <3>3. CASE ~(Cardinality(buffer) > FlushThreshold)
          BY <2>1, <3>1, <3>3 DEF Push, TypeOK
    <3>4. QED BY <3>2, <3>3
  <2>6. QED BY <1>1, <1>2, <2>1, <2>3, <2>5 DEF TypeOK
<1>6. QED BY <1>3, <1>4, <1>5

\* The proofs need one thing besides the types: compact numbers a finite base.
IndTypes == TypeOK /\ IsFiniteSet(baseCsr)

\* The graph that from_graph_frame wraps is typed.
LEMMA InitTyped == Init => IndTypes
<1> SUFFICES ASSUME Init PROVE IndTypes
    OBVIOUS
<1> DEFINE f == [r \in RowIds |-> [src |-> InitLocalOf[Rows[r].src],
                                   dst |-> InitLocalOf[Rows[r].dst], id |-> r, edge |-> r]]
<1>1. /\ Len(Rows) \in Nat /\ RowIds \subseteq Serials /\ RowIds \subseteq Nat
      /\ IsFiniteSet(RowIds)
  <2>1. Len(Rows) \in Nat
        BY RowsAssumption
  <2>2. RowIds \subseteq Serials /\ RowIds \subseteq Nat
        BY <2>1, BoundsAssumption DEF RowIds, Serials
  <2>3. IsFiniteSet(RowIds)
        BY <2>1, FS_Interval DEF RowIds
  <2>4. QED BY <2>1, <2>2, <2>3
<1>2. DOMAIN InitLocalIds = 1..Len(InitLocalIds) /\ DOMAIN InitLocalIds \subseteq LocalIdxs
  <2>1. DOMAIN InitLocalIds = 1..Len(InitLocalIds) /\ Len(InitLocalIds) \in Nat
        BY LocalIdsAssumption
  <2>2. QED BY <2>1, BoundsAssumption DEF LocalIdxs
<1>3. /\ DOMAIN InitLocalOf \subseteq InitNodes
      /\ InitLocalOf \in [DOMAIN InitLocalOf -> DOMAIN InitLocalIds]
      BY LocalIdsAssumption DEF InitLocalOf
<1>4. \A r \in RowIds : {Rows[r].src, Rows[r].dst} \subseteq DOMAIN InitLocalOf
      BY LocalIdsAssumption DEF InitLocalOf
<1>5. baseCsr \subseteq CsrEntry
      BY <1>1, <1>2, <1>3, <1>4 DEF Init, CsrEntry
<1>6. IsFiniteSet(baseCsr)
  <2>1. \A e \in baseCsr : \E r \in RowIds : e = f[r]
        BY DEF Init
  <2> HIDE DEF f
  <2>2. QED BY <1>1, <2>1, FiniteImage
<1>7. nextSerial \in (Len(Rows) + 1)..(MaxSerial + 1)
      BY <1>1, BoundsAssumption DEF Init
<1>8. InitLocalIds \in Seq(Ids)
      BY LocalIdsAssumption, IdsAssumption
<1>9. /\ DOMAIN nodeLive \subseteq Ids /\ nodeLive \in [DOMAIN nodeLive -> BOOLEAN]
      /\ lookup \subseteq Ids /\ retired \subseteq Ids
      /\ edgeLive \in [RowIds -> BOOLEAN]
      BY IdsAssumption DEF Init
<1>10. /\ idAt \in Seq(Ids) /\ Len(idAt) <= MaxLocalIdx
       /\ DOMAIN localOf \subseteq Ids /\ localOf \in [DOMAIN localOf -> DOMAIN idAt]
      BY <1>3, <1>8, IdsAssumption, BoundsAssumption DEF Init
<1>11. /\ pending \subseteq DeltaEdge /\ frozen \in Seq(SUBSET DeltaEdge)
       /\ status \in {"ok", "err", "panic"}
       /\ stable \in BOOLEAN /\ panicked \in BOOLEAN
  <2>1. /\ pending = {} /\ frozen = <<>> /\ status = "ok" /\ stable = TRUE
        /\ panicked = FALSE
        BY DEF Init
  <2>2. <<>> \in Seq(SUBSET DeltaEdge)
        OBVIOUS
  <2>3. QED BY <2>1, <2>2
<1>12. graph \in [made : BOOLEAN, nodes : SUBSET Ids,
                   edges : SUBSET [edge : Serials, src : Ids, dst : Ids]]
      BY DEF Init, NoGraph
<1>13. dataCsr \subseteq CsrEntry
      BY <1>5 DEF Init
<1>14. QED BY <1>5, <1>6, <1>7, <1>9, <1>10, <1>11, <1>12, <1>13 DEF IndTypes, TypeOK

\* compact and freeze merge the deltas into a typed, finite base.
LEMMA MergeDeltasTyped ==
    ASSUME IndTypes, MergeDeltas
    PROVE  /\ baseCsr' \subseteq CsrEntry /\ dataCsr' \subseteq CsrEntry
           /\ IsFiniteSet(baseCsr') /\ stable' = FALSE
           /\ pending' \subseteq DeltaEdge /\ frozen' \in Seq(SUBSET DeltaEdge)
<1>1. Flushed \in Seq(SUBSET DeltaEdge)
      BY DEF Flushed, IndTypes, TypeOK
<1>2. baseCsr \in SUBSET CsrEntry /\ IsFiniteSet(baseCsr)
      BY DEF IndTypes, TypeOK
<1>3. baseCsr' \subseteq CsrEntry /\ IsFiniteSet(baseCsr')
      BY <1>1, <1>2, RenumberedType DEF MergeDeltas
<1>4. QED BY <1>3 DEF MergeDeltas

\* delete_node and the first half of update_node leave the edge tables typed.
LEMMA DropIncidentTyped ==
    ASSUME TypeOK, NEW id \in Ids, DropIncident(id)
    PROVE  /\ DOMAIN localOf' \subseteq Ids /\ localOf' \in [DOMAIN localOf' -> DOMAIN idAt]
           /\ edgeLive' \in [RowIds -> BOOLEAN]
           /\ pending' \subseteq DeltaEdge
           /\ panicked' \in BOOLEAN /\ status' \in {"ok", "err", "panic"}
           /\ retired' \subseteq Ids
<1>1. DOMAIN localOf' \subseteq Ids /\ localOf' \in [DOMAIN localOf' -> DOMAIN idAt]
      BY DEF DropIncident, TypeOK
<1>2. edgeLive' \in [RowIds -> BOOLEAN]
      BY Zenon DEF DropIncident, TypeOK
<1>3. pending' \subseteq DeltaEdge
      BY DEF DropIncident, TypeOK
<1>4. panicked' \in BOOLEAN /\ status' \in {"ok", "err", "panic"} /\ retired' \subseteq Ids
      BY DEF DropIncident, TypeOK
<1>5. QED BY <1>1, <1>2, <1>3, <1>4

\* The graph that freeze puts together has typed edges.
LEMMA FreezeEdgesTyped ==
    ASSUME TypeOK
    PROVE  FreezeEdges \subseteq [edge : Serials, src : Ids, dst : Ids]
<1>1. RowIds \subseteq Serials
  <2>1. Len(Rows) \in Nat
        BY RowsAssumption
  <2>2. QED BY <2>1, BoundsAssumption DEF RowIds, Serials
<1>2. \A r \in FreezeRows : r \in Serials /\ Rows[r].src \in Ids /\ Rows[r].dst \in Ids
      BY <1>1 DEF FreezeRows, IdIsLive, TypeOK
<1>3. \A e \in FreezeDelta : e.edge \in Serials /\ idAt[e.src] \in Ids /\ idAt[e.dst] \in Ids
  <2>1. DeltaEdges \subseteq DeltaEdge
        BY DEF DeltaEdges, FrozenEdges, TypeOK
  <2>2. QED BY <2>1 DEF FreezeDelta, IdIsLive, DeltaEdge, TypeOK
<1>4. QED BY <1>2, <1>3 DEF FreezeEdges

\* Every call, in any order, leaves every table typed: no index is ever handed
\* out that the tables do not have, and no serial number or chunk is lost.
LEMMA NextTyped == IndTypes /\ [Next]_vars => IndTypes'
<1> SUFFICES ASSUME IndTypes, [Next]_vars PROVE IndTypes'
    OBVIOUS
<1> USE DEF IndTypes
<1>1. ASSUME NEW batch \in SUBSET Ids, AddNodes(batch) PROVE IndTypes'
  <2>1. /\ DOMAIN nodeLive' \subseteq Ids /\ nodeLive' \in [DOMAIN nodeLive' -> BOOLEAN]
        /\ lookup' \subseteq Ids /\ status' \in {"ok", "err", "panic"}
        BY <1>1 DEF AddNodes, Publish, LiveNodes, TypeOK
  <2>2. UNCHANGED <<localOf, idAt, edgeLive, baseCsr, dataCsr, stable, pending, frozen,
                    nextSerial, panicked, retired, graph>>
        BY <1>1 DEF AddNodes
  <2>3. QED BY <2>1, <2>2 DEF TypeOK
<1>2. ASSUME NEW id \in Ids, DeleteNode(id) PROVE IndTypes'
  <2>1. UNCHANGED <<idAt, baseCsr, dataCsr, stable, frozen, nextSerial, graph>>
        BY <1>2 DEF DeleteNode
  <2>2. CASE id \notin lookup
        BY <1>2, <2>2 DEF DeleteNode, TypeOK
  <2>3. CASE id \in lookup
    <3>1. Unlist(id) /\ DropIncident(id)
          BY <1>2, <2>3 DEF DeleteNode
    <3>2. /\ DOMAIN nodeLive' \subseteq Ids /\ nodeLive' \in [DOMAIN nodeLive' -> BOOLEAN]
          /\ lookup' \subseteq Ids
          BY <3>1 DEF Unlist, TypeOK
    <3>3. QED BY <2>1, <3>1, <3>2, DropIncidentTyped DEF TypeOK
  <2>4. QED BY <2>2, <2>3
<1>3. ASSUME NEW old \in Ids, NEW new \in Ids, UpdateNode(old, new) PROVE IndTypes'
  <2>1. UNCHANGED <<idAt, baseCsr, dataCsr, stable, frozen, nextSerial, graph>>
        BY <1>3 DEF UpdateNode
  <2>2. CASE old \notin LiveNodes \/ new \in LiveNodes \ {old}
        BY <1>3, <2>2 DEF UpdateNode, TypeOK
  <2>3. CASE old \in LiveNodes /\ new \notin LiveNodes \ {old}
    <3>1. /\ DropIncident(old)
          /\ Unlist(old) \/ Publish((LiveNodes \ {old}) \cup {new})
          BY <1>3, <2>3 DEF UpdateNode
    <3>2. /\ DOMAIN nodeLive' \subseteq Ids /\ nodeLive' \in [DOMAIN nodeLive' -> BOOLEAN]
          /\ lookup' \subseteq Ids
      <4>1. CASE Unlist(old)
            BY <4>1 DEF Unlist, TypeOK
      <4>2. CASE Publish((LiveNodes \ {old}) \cup {new})
            BY <4>2 DEF Publish, LiveNodes, TypeOK
      <4>3. QED BY <3>1, <4>1, <4>2
    <3>3. QED BY <2>1, <3>1, <3>2, DropIncidentTyped DEF TypeOK
  <2>4. QED BY <2>2, <2>3
<1>4. ASSUME NEW s \in Ids, NEW d \in Ids, AddEdge(s, d) PROVE IndTypes'
  <2>1. /\ AppendEdge(s, d)
        /\ UNCHANGED <<nodeLive, lookup, edgeLive, baseCsr, dataCsr, stable, panicked,
                       retired, graph>>
        BY <1>4 DEF AddEdge
  <2>2. QED BY <2>1, AppendEdgeTyped DEF TypeOK
<1>5. ASSUME NEW row \in 1..(Len(Rows) + 1), DeleteEdge(row) PROVE IndTypes'
  <2>1. edgeLive' \in [RowIds -> BOOLEAN] /\ status' \in {"ok", "err", "panic"}
        BY <1>5 DEF DeleteEdge, TypeOK
  <2>2. UNCHANGED <<nodeLive, lookup, localOf, idAt, baseCsr, dataCsr, stable, pending, frozen,
                    nextSerial, panicked, retired, graph>>
        BY <1>5 DEF DeleteEdge
  <2>3. QED BY <2>1, <2>2 DEF TypeOK
<1>6. ASSUME NEW row \in 1..(Len(Rows) + 1), NEW s \in Ids, NEW d \in Ids,
             UpdateEdgeRow(row, s, d) \/ UpdateEdge(row, s, d)
      PROVE  IndTypes'
  <2>1. UNCHANGED <<nodeLive, lookup, baseCsr, dataCsr, stable, panicked, retired, graph>>
        BY <1>6 DEF UpdateEdgeRow, UpdateEdge
  <2>2. \/ /\ status' = "err"
           /\ UNCHANGED <<edgeLive, localOf, idAt, pending, frozen, nextSerial>>
        \/ /\ AppendEdge(s, d)
           /\ edgeLive' = [edgeLive EXCEPT ![row] = FALSE]
        BY <1>6 DEF UpdateEdgeRow, UpdateEdge
  <2>3. CASE /\ status' = "err"
             /\ UNCHANGED <<edgeLive, localOf, idAt, pending, frozen, nextSerial>>
        BY <2>1, <2>3 DEF TypeOK
  <2>4. CASE AppendEdge(s, d) /\ edgeLive' = [edgeLive EXCEPT ![row] = FALSE]
    <3>1. edgeLive' \in [RowIds -> BOOLEAN]
          BY <2>4 DEF TypeOK
    <3>2. QED BY <2>1, <2>4, <3>1, AppendEdgeTyped DEF TypeOK
  <2>5. QED BY <2>2, <2>3, <2>4
<1>7. ASSUME Compact PROVE IndTypes'
  <2>1. /\ MergeDeltas /\ status' = "ok"
        /\ UNCHANGED <<nodeLive, lookup, localOf, idAt, edgeLive, nextSerial, panicked,
                       retired, graph>>
        BY <1>7 DEF Compact
  <2>2. QED BY <2>1, MergeDeltasTyped DEF TypeOK
<1>8. ASSUME Freeze PROVE IndTypes'
  <2>1. /\ MergeDeltas /\ status' \in {"ok", "err"}
        /\ graph' = [made |-> TRUE, nodes |-> LiveNodes, edges |-> FreezeEdges]
        /\ UNCHANGED <<nodeLive, lookup, localOf, idAt, edgeLive, nextSerial, panicked, retired>>
        BY <1>8 DEF Freeze
  <2>2. graph' \in [made : BOOLEAN, nodes : SUBSET Ids,
                    edges : SUBSET [edge : Serials, src : Ids, dst : Ids]]
        BY <2>1, FreezeEdgesTyped DEF LiveNodes, TypeOK
  <2>3. QED BY <2>1, <2>2, MergeDeltasTyped DEF TypeOK
<1>9. CASE UNCHANGED vars
      BY <1>9 DEF vars, TypeOK
<1>10. QED
      BY <1>1, <1>2, <1>3, <1>4, <1>5, <1>6, <1>7, <1>8, <1>9 DEF Next, Mutate

\* The type invariant, with the finiteness of the base it needs.
LEMMA TypesInvariant == Spec => []IndTypes
<1>1. Init => IndTypes
      BY InitTyped
<1>2. IndTypes /\ [Next]_vars => IndTypes'
      BY NextTyped
<1>3. QED BY <1>1, <1>2, PTL DEF Spec

\* Every table of the mutable graph keeps its type through every sequence of
\* calls, errors and panics.
THEOREM TypeCorrect == Spec => []TypeOK
<1>1. IndTypes => TypeOK
      BY DEF IndTypes
<1>2. QED BY <1>1, TypesInvariant, PTL

-----------------------------------------------------------------------------
(* The node tables. *)

\* The lookup is a set of rows without a tombstone whatever was deleted in place
\* and whatever was rebuilt since.
LEMMA NextLookup == LookupIsLiveRows /\ [Next]_vars => LookupIsLiveRows'
<1> SUFFICES ASSUME LookupIsLiveRows, [Next]_vars PROVE LookupIsLiveRows'
    OBVIOUS
<1> USE DEF LookupIsLiveRows
<1>1. \A ids : Publish(ids) => LookupIsLiveRows'
      BY DEF Publish, LiveNodes
<1>2. \A id : Unlist(id) => LookupIsLiveRows'
      BY DEF Unlist, LiveNodes
<1>3. ASSUME UNCHANGED <<nodeLive, lookup>> PROVE LookupIsLiveRows'
      BY <1>3 DEF LiveNodes
<1>4. ASSUME NEW batch \in SUBSET Ids, AddNodes(batch) PROVE LookupIsLiveRows'
      BY <1>1, <1>3, <1>4 DEF AddNodes
<1>5. ASSUME NEW id \in Ids, DeleteNode(id) PROVE LookupIsLiveRows'
      BY <1>2, <1>3, <1>5 DEF DeleteNode
<1>6. ASSUME NEW old \in Ids, NEW new \in Ids, UpdateNode(old, new) PROVE LookupIsLiveRows'
      BY <1>1, <1>2, <1>3, <1>6 DEF UpdateNode
<1>7. CASE UNCHANGED vars
      BY <1>3, <1>7 DEF vars
<1>8. QED
      BY <1>3, <1>4, <1>5, <1>6, <1>7
      DEF Next, Mutate, AddEdge, DeleteEdge, UpdateEdgeRow, UpdateEdge, Compact, Freeze

\* node_id_to_idx and node_tombstones never disagree about a node.
THEOREM LookupCorrect == Spec => []LookupIsLiveRows
<1>1. Init => LookupIsLiveRows
      BY DEF Init, LookupIsLiveRows, LiveNodes
<1>2. QED BY <1>1, NextLookup, PTL DEF Spec

-----------------------------------------------------------------------------
(* The edge-local index tables. *)

\* LocalIndexIsNewest, of any pair of tables over any set of nodes.
Newest(table, ids) ==
    \A x \in DOMAIN table.of :
        /\ x \in ids
        /\ table.at[table.of[x]] = x
        /\ \A i \in DOMAIN table.at : table.at[i] = x => i <= table.of[x]

\* resolve_edge_node_idx keeps the tables inverse: a new index is the newest.
LEMMA IndexedNewest ==
    ASSUME NEW at \in Seq(Ids), NEW of, DOMAIN of \subseteq Ids,
           of \in [DOMAIN of -> DOMAIN at], NEW ids, NEW id \in Ids,
           id \in DOMAIN of \/ id \in ids, Newest([at |-> at, of |-> of], ids),
           NEW table, table = Indexed([at |-> at, of |-> of], id)
    PROVE  Newest(table, ids)
<1>0. Resolves(table, at, of, id)
      BY IndexedTable
<1>1. /\ table.at \in Seq(Ids)
      /\ DOMAIN table.of = DOMAIN of \cup {id}
      /\ \A x \in DOMAIN of : table.of[x] = of[x]
      /\ \A i \in DOMAIN at : i \in DOMAIN table.at /\ table.at[i] = at[i]
      /\ id \notin DOMAIN of =>
            /\ table.of[id] = Len(at) + 1 /\ table.at[Len(at) + 1] = id
            /\ DOMAIN table.at = DOMAIN at \cup {Len(at) + 1}
      /\ id \in DOMAIN of => table.at = at
      BY <1>0 DEF Resolves
<1>2. /\ DOMAIN at = 1..Len(at) /\ Len(at) \in Nat
      /\ \A x \in DOMAIN of : of[x] \in DOMAIN at
      OBVIOUS
<1>3. \A x \in DOMAIN of :
         x \in ids /\ at[of[x]] = x /\ \A i \in DOMAIN at : at[i] = x => i <= of[x]
      BY DEF Newest
<1>4. ASSUME NEW x \in DOMAIN of
      PROVE  /\ x \in ids /\ table.at[table.of[x]] = x
             /\ \A i \in DOMAIN table.at : table.at[i] = x => i <= table.of[x]
  <2>1. CASE id \in DOMAIN of
        BY <1>1, <1>2, <1>3, <2>1
  <2>2. CASE id \notin DOMAIN of
        BY <1>1, <1>2, <1>3, <2>2
  <2>3. QED BY <2>1, <2>2
<1>5. ASSUME id \notin DOMAIN of
      PROVE  /\ id \in ids /\ table.at[table.of[id]] = id
             /\ \A i \in DOMAIN table.at : table.at[i] = id => i <= table.of[id]
      BY <1>1, <1>2, <1>5
<1>6. QED BY <1>1, <1>4, <1>5 DEF Newest

\* What add_edge_row does to the tables: they grow, stay inverse, and hold the
\* two indices it puts into the edge.
LEMMA WithBothNewest ==
    ASSUME TypeOK, LocalIndexIsNewest, NEW s \in Ids, NEW d \in Ids, Resolvable(s)
    PROVE  /\ Newest(WithSrc(s), lookup)
           /\ Resolvable(d) => Newest(WithBoth(s, d), lookup)
           /\ \A x \in DOMAIN localOf : /\ WithSrc(s).of[x] = localOf[x]
                                        /\ WithBoth(s, d).of[x] = localOf[x]
           /\ \A i \in DOMAIN idAt :
                 /\ i \in DOMAIN WithSrc(s).at /\ WithSrc(s).at[i] = idAt[i]
                 /\ i \in DOMAIN WithBoth(s, d).at /\ WithBoth(s, d).at[i] = idAt[i]
<1> DEFINE one == WithSrc(s)
           two == WithBoth(s, d)
<1>1. one = Indexed([at |-> idAt, of |-> localOf], s)
      BY DEF WithSrc
<1>2. two = Indexed(one, d)
      BY DEF WithBoth
<1> HIDE DEF one, two
<1>3. Newest([at |-> idAt, of |-> localOf], lookup)
      BY DEF LocalIndexIsNewest, Newest
<1>4. Resolves(one, idAt, localOf, s)
      BY <1>1, IndexedTable DEF TypeOK
<1>5. /\ two = Indexed([at |-> one.at, of |-> one.of], d)
      /\ one.at \in Seq(Ids) /\ DOMAIN one.of \subseteq Ids
      /\ one.of \in [DOMAIN one.of -> DOMAIN one.at]
      BY <1>2, <1>4 DEF Resolves, TypeOK
<1>6. Newest(one, lookup)
      BY <1>1, <1>3, IndexedNewest DEF TypeOK, Resolvable
<1>7. Resolves(two, one.at, one.of, d)
      BY <1>5, IndexedTable
<1>8. /\ \A x \in DOMAIN localOf : one.of[x] = localOf[x] /\ two.of[x] = localOf[x]
      /\ \A i \in DOMAIN idAt : /\ i \in DOMAIN one.at /\ one.at[i] = idAt[i]
                               /\ i \in DOMAIN two.at /\ two.at[i] = idAt[i]
      BY <1>4, <1>7 DEF Resolves
<1>9. ASSUME Resolvable(d) PROVE Newest(two, lookup)
  <2>1. d \in DOMAIN one.of \/ d \in lookup
        BY <1>4, <1>9 DEF Resolvable, Resolves
  <2>2. Newest([at |-> one.at, of |-> one.of], lookup)
        BY <1>4, <1>6 DEF Resolves
  <2>3. QED BY <1>5, <2>1, <2>2, IndexedNewest
<1>10. QED BY <1>6, <1>8, <1>9 DEF one, two

\* Deleting a node forgets its index and, short of a panic, prunes its pending
\* edges; every other index stays.
LEMMA DropIncidentNewest ==
    ASSUME TypeOK, LocalIndexIsNewest, NEW id \in Ids, DropIncident(id), UNCHANGED idAt,
           lookup \ {id} \subseteq lookup'
    PROVE  LocalIndexIsNewest' /\ (PendingUsesCurrentIndex => PendingUsesCurrentIndex')
<1>1. /\ DOMAIN localOf' = DOMAIN localOf \ {id}
      /\ \A x \in DOMAIN localOf' : localOf'[x] = localOf[x]
      BY DEF DropIncident
<1>2. LocalIndexIsNewest'
      BY <1>1 DEF LocalIndexIsNewest
<1>3. ASSUME PendingUsesCurrentIndex, ~panicked'
      PROVE  \A e \in pending' : \A i \in {e.src, e.dst} :
                idAt'[i] \in DOMAIN localOf' /\ localOf'[idAt'[i]] = i
  <2>1. ~panicked /\ ~DeletePanics(id)
        BY <1>3 DEF DropIncident
  <2>2. \A e \in pending : \A i \in {e.src, e.dst} :
           idAt[i] \in DOMAIN localOf /\ localOf[idAt[i]] = i
        BY <1>3, <2>1 DEF PendingUsesCurrentIndex
  <2>3. \A e \in pending' :
           /\ e \in pending
           /\ id \in DOMAIN localOf => e.src # localOf[id] /\ e.dst # localOf[id]
        BY <2>1 DEF DropIncident
  <2>4. QED BY <1>1, <2>2, <2>3
<1>4. QED BY <1>2, <1>3 DEF PendingUsesCurrentIndex

\* Appending an edge, also one that half fails, leaves the tables inverse and
\* puts only current indices into the buffer.
LEMMA AppendEdgeNewest ==
    ASSUME TypeOK, LocalIndexIsNewest, NEW s \in Ids, NEW d \in Ids, AppendEdge(s, d),
           UNCHANGED <<lookup, panicked>>
    PROVE  LocalIndexIsNewest' /\ (PendingUsesCurrentIndex => PendingUsesCurrentIndex')
<1> DEFINE one == WithSrc(s)
           two == WithBoth(s, d)
           e == [src |-> two.of[s], dst |-> two.of[d], edge |-> nextSerial]
<1>1. CASE ~Resolvable(s)
      BY <1>1 DEF AppendEdge, LocalIndexIsNewest, PendingUsesCurrentIndex
<1>2. CASE Resolvable(s)
  <2>1. /\ Newest(one, lookup)
        /\ Resolvable(d) => Newest(two, lookup)
        /\ \A x \in DOMAIN localOf : one.of[x] = localOf[x] /\ two.of[x] = localOf[x]
        /\ \A i \in DOMAIN idAt : /\ i \in DOMAIN one.at /\ one.at[i] = idAt[i]
                                 /\ i \in DOMAIN two.at /\ two.at[i] = idAt[i]
        BY <1>2, WithBothNewest
  <2>2. /\ DOMAIN one.of = DOMAIN localOf \cup {s}
        /\ DOMAIN two.of = DOMAIN localOf \cup {s, d}
        BY WithBothTyped
  <2>3. \/ /\ ~Resolvable(d) /\ localOf' = one.of /\ idAt' = one.at /\ pending' = pending
        \/ /\ Resolvable(d) /\ localOf' = two.of /\ idAt' = two.at
           /\ pending' \subseteq pending \cup {e}
        BY <1>2 DEF AppendEdge, Push
  <2> HIDE DEF one, two
  <2>4. LocalIndexIsNewest'
        BY <2>1, <2>3 DEF LocalIndexIsNewest, Newest
  <2>5. ASSUME PendingUsesCurrentIndex, ~panicked,
               NEW f \in pending, NEW i \in {f.src, f.dst}
        PROVE  idAt'[i] \in DOMAIN localOf' /\ localOf'[idAt'[i]] = i
    <3>1. idAt[i] \in DOMAIN localOf /\ localOf[idAt[i]] = i
          BY <2>5 DEF PendingUsesCurrentIndex
    <3>2. i \in DOMAIN idAt
          BY <3>1 DEF TypeOK
    <3>3. QED BY <2>1, <2>2, <2>3, <3>1, <3>2
  <2>6. ASSUME Resolvable(d), NEW i \in {e.src, e.dst}
        PROVE  idAt'[i] \in DOMAIN localOf' /\ localOf'[idAt'[i]] = i
    <3>1. two.at[two.of[s]] = s /\ two.at[two.of[d]] = d
          BY <2>1, <2>2, <2>6 DEF Newest
    <3>2. i \in {two.of[s], two.of[d]}
          BY <2>6
    <3>3. QED BY <2>2, <2>3, <2>6, <3>1, <3>2
  <2>7. ASSUME PendingUsesCurrentIndex PROVE PendingUsesCurrentIndex'
        BY <2>3, <2>5, <2>6, <2>7 DEF PendingUsesCurrentIndex
  <2>8. QED BY <2>4, <2>7
<1>3. QED BY <1>1, <1>2

IndIndices == LocalIndexIsNewest /\ PendingUsesCurrentIndex

LEMMA NextIndices ==
    TypeOK /\ LookupIsLiveRows /\ IndIndices /\ [Next]_vars => IndIndices'
<1> SUFFICES ASSUME TypeOK, LookupIsLiveRows, IndIndices, [Next]_vars PROVE IndIndices'
    OBVIOUS
<1> USE DEF IndIndices
<1>1. ASSUME UNCHANGED <<localOf, idAt, panicked>>, pending' \subseteq pending,
             lookup \subseteq lookup'
      PROVE  IndIndices'
      BY <1>1 DEF LocalIndexIsNewest, PendingUsesCurrentIndex
<1>2. ASSUME NEW batch \in SUBSET Ids, AddNodes(batch) PROVE IndIndices'
  <2>1. lookup \subseteq lookup'
        BY <1>2 DEF AddNodes, Publish, LookupIsLiveRows
  <2>2. QED BY <1>1, <1>2, <2>1 DEF AddNodes
<1>3. ASSUME NEW id \in Ids, DeleteNode(id) PROVE IndIndices'
  <2>1. CASE id \notin lookup
        BY <1>1, <1>3, <2>1 DEF DeleteNode
  <2>2. CASE id \in lookup
    <3>1. DropIncident(id) /\ UNCHANGED idAt /\ lookup' = lookup \ {id}
          BY <1>3, <2>2 DEF DeleteNode, Unlist
    <3>2. QED BY <3>1, DropIncidentNewest
  <2>3. QED BY <2>1, <2>2
<1>4. ASSUME NEW old \in Ids, NEW new \in Ids, UpdateNode(old, new) PROVE IndIndices'
  <2>1. CASE old \notin LiveNodes \/ new \in LiveNodes \ {old}
        BY <1>1, <1>4, <2>1 DEF UpdateNode
  <2>2. CASE old \in LiveNodes /\ new \notin LiveNodes \ {old}
    <3>1. DropIncident(old) /\ UNCHANGED idAt
          BY <1>4, <2>2 DEF UpdateNode
    <3>2. lookup \ {old} \subseteq lookup'
          BY <1>4, <2>2 DEF UpdateNode, Unlist, Publish, LookupIsLiveRows
    <3>3. QED BY <3>1, <3>2, DropIncidentNewest
  <2>3. QED BY <2>1, <2>2
<1>5. ASSUME NEW s \in Ids, NEW d \in Ids, AddEdge(s, d) PROVE IndIndices'
      BY <1>5, AppendEdgeNewest DEF AddEdge
<1>6. ASSUME NEW row, DeleteEdge(row) PROVE IndIndices'
      BY <1>1, <1>6 DEF DeleteEdge
<1>7. ASSUME NEW row, NEW s \in Ids, NEW d \in Ids,
             UpdateEdgeRow(row, s, d) \/ UpdateEdge(row, s, d)
      PROVE  IndIndices'
  <2>1. CASE AppendEdge(s, d) /\ UNCHANGED <<lookup, panicked>>
        BY <2>1, AppendEdgeNewest
  <2>2. CASE UNCHANGED <<localOf, idAt, panicked, pending, lookup>>
        BY <1>1, <2>2
  <2>3. QED BY <1>7, <2>1, <2>2 DEF UpdateEdgeRow, UpdateEdge
<1>8. ASSUME Compact \/ Freeze PROVE IndIndices'
      BY <1>1, <1>8 DEF Compact, Freeze, MergeDeltas
<1>9. CASE UNCHANGED vars
      BY <1>1, <1>9 DEF vars
<1>10. QED
       BY <1>2, <1>3, <1>4, <1>5, <1>6, <1>7, <1>8, <1>9 DEF Next, Mutate

LEMMA InitIndices == Init => IndIndices
<1>1. HAVE Init
<1>2. DOMAIN InitLocalOf = {InitLocalIds[i] : i \in DOMAIN InitLocalIds}
      BY DEF InitLocalOf
<1>3. ASSUME NEW x \in DOMAIN InitLocalOf
      PROVE  /\ InitLocalOf[x] \in DOMAIN InitLocalIds
             /\ InitLocalIds[InitLocalOf[x]] = x
      BY <1>2 DEF InitLocalOf
<1>4. DOMAIN InitLocalIds \subseteq Nat /\ \A i \in DOMAIN InitLocalIds : InitLocalIds[i] \in InitNodes
      BY LocalIdsAssumption
<1>5. lookup = InitNodes /\ localOf = InitLocalOf /\ idAt = InitLocalIds /\ pending = {}
      BY <1>1 DEF Init
<1>6. LocalIndexIsNewest
      BY <1>2, <1>3, <1>4, <1>5, LocalIdsAssumption DEF LocalIndexIsNewest
<1>7. PendingUsesCurrentIndex
      BY <1>5 DEF PendingUsesCurrentIndex
<1>8. QED BY <1>6, <1>7 DEF IndIndices

LEMMA IndicesInvariant == Spec => []IndIndices
BY InitIndices, NextIndices, TypeCorrect, LookupCorrect, PTL DEF Spec

\* edge_node_id_to_idx and edge_node_idx_to_id stay inverse on the live nodes,
\* through deletions, re-added ids and half-failed appends.
THEOREM LocalIndexCorrect == Spec => []LocalIndexIsNewest
<1>1. IndIndices => LocalIndexIsNewest
      BY DEF IndIndices
<1>2. QED BY <1>1, IndicesInvariant, PTL

\* No edge in the pending buffer is held under an index that a deleted node
\* left behind, unless some call has panicked.
THEOREM PendingCorrect == Spec => []PendingUsesCurrentIndex
<1>1. IndIndices => PendingUsesCurrentIndex
      BY DEF IndIndices
<1>2. QED BY <1>1, IndicesInvariant, PTL

-----------------------------------------------------------------------------
(* The original rows, until the first compaction. *)

\* The base CSR that from_graph_frame takes over.
WrappedCsr == {[src |-> InitLocalOf[Rows[r].src], dst |-> InitLocalOf[Rows[r].dst],
                id |-> r, edge |-> r] : r \in RowIds}

\* Until the first compaction both CSRs are the wrapped one, and a row that is
\* live has both its ends under their first indices: none was ever deleted.
FirstIndices ==
    stable => /\ baseCsr = WrappedCsr /\ dataCsr = WrappedCsr
              /\ \A r \in RowIds : edgeLive[r] =>
                    \A x \in {Rows[r].src, Rows[r].dst} :
                        x \in DOMAIN localOf /\ localOf[x] = InitLocalOf[x]

\* The index table only grows, and has both ends of every delta edge.
IndicesKept ==
    /\ \A i \in DOMAIN InitLocalIds : i \in DOMAIN idAt /\ idAt[i] = InitLocalIds[i]
    /\ \A e \in DeltaEdges : e.src \in DOMAIN idAt /\ e.dst \in DOMAIN idAt

\* Each end of an original row has a first index, which stands for it.
LEMMA RowEndsIndexed ==
    ASSUME NEW r \in RowIds, NEW x \in {Rows[r].src, Rows[r].dst}
    PROVE  /\ x \in DOMAIN InitLocalOf
           /\ InitLocalOf[x] \in DOMAIN InitLocalIds
           /\ InitLocalIds[InitLocalOf[x]] = x
<1>1. x \in {InitLocalIds[i] : i \in DOMAIN InitLocalIds}
      BY LocalIdsAssumption
<1>2. QED BY <1>1 DEF InitLocalOf

\* delete_node finds every original row of the node: its out rows in the CSR,
\* its in rows in the edge frame, and no id at which the lookup would panic.
LEMMA DropIncidentRows ==
    ASSUME FirstIndices, stable, NEW id, DropIncident(id),
           UNCHANGED <<baseCsr, dataCsr, stable>>
    PROVE  FirstIndices'
<1>1. /\ \A x \in DOMAIN localOf \ {id} : x \in DOMAIN localOf' /\ localOf'[x] = localOf[x]
      /\ \A r \in RowIds : edgeLive'[r] => edgeLive[r] /\ r \notin TombstonedBy(id)
  <2>1. localOf' = [x \in DOMAIN localOf \ {id} |-> localOf[x]]
        BY DEF DropIncident
  <2>2. edgeLive' = [r \in RowIds |-> edgeLive[r] /\ r \notin TombstonedBy(id)]
        BY DEF DropIncident
  <2>3. QED BY <2>1, <2>2
<1>2. \A i : \A e \in OutEntries(i) : e.id \in RowIds
      BY DEF OutEntries, FirstIndices, WrappedCsr
<1>3. ~DeletePanics(id)
      BY <1>2 DEF DeletePanics
<1>4. ASSUME NEW r \in RowIds, edgeLive'[r] PROVE id \notin {Rows[r].src, Rows[r].dst}
  <2>1. SUFFICES ASSUME id \in {Rows[r].src, Rows[r].dst} PROVE r \in TombstonedBy(id)
        BY <1>1, <1>4
  <2>2. id \in DOMAIN localOf /\ localOf[id] = InitLocalOf[id]
        BY <1>1, <1>4, <2>1 DEF FirstIndices
  <2>3. InitLocalOf[id] \in DOMAIN InitLocalIds /\ InitLocalIds[InitLocalOf[id]] = id
        BY <2>1, RowEndsIndexed
  <2>4. CASE Rows[r].src = id
    <3> DEFINE e == [src |-> InitLocalOf[Rows[r].src], dst |-> InitLocalOf[Rows[r].dst],
                     id |-> r, edge |-> r]
    <3>1. e \in OutEntries(localOf[id])
          BY <2>2, <2>4 DEF OutEntries, FirstIndices, WrappedCsr
    <3>2. e.id \in TombstonedOut(localOf[id])
          BY <1>2, <3>1 DEF TombstonedOut
    <3>3. QED BY <1>3, <2>2, <3>2 DEF TombstonedBy
  <2>5. CASE Rows[r].dst = id
    <3>1. r \in InRowIds(localOf[id])
          BY <2>2, <2>3, <2>5 DEF InRowIds
    <3>2. QED BY <1>3, <2>2, <3>1 DEF TombstonedBy
  <2>6. QED BY <2>1, <2>4, <2>5
<1>5. QED BY <1>1, <1>4 DEF FirstIndices

\* add_edge_row disturbs no index and resolves both ends of its edge.
LEMMA AppendEdgeRows ==
    ASSUME TypeOK, LocalIndexIsNewest, IndicesKept, NEW s \in Ids, NEW d \in Ids,
           AppendEdge(s, d)
    PROVE  /\ IndicesKept'
           /\ \A x \in DOMAIN localOf : x \in DOMAIN localOf' /\ localOf'[x] = localOf[x]
<1> DEFINE one == WithSrc(s)
           two == WithBoth(s, d)
           e == [src |-> two.of[s], dst |-> two.of[d], edge |-> nextSerial]
<1>1. CASE ~Resolvable(s)
      BY <1>1 DEF AppendEdge, IndicesKept, DeltaEdges, FrozenEdges
<1>2. CASE Resolvable(s)
  <2>1. /\ \A x \in DOMAIN localOf : one.of[x] = localOf[x] /\ two.of[x] = localOf[x]
        /\ \A i \in DOMAIN idAt : /\ i \in DOMAIN one.at /\ one.at[i] = idAt[i]
                                 /\ i \in DOMAIN two.at /\ two.at[i] = idAt[i]
        BY <1>2, WithBothNewest
  <2>2. /\ DOMAIN one.of = DOMAIN localOf \cup {s}
        /\ DOMAIN two.of = DOMAIN localOf \cup {s, d}
        /\ two.of \in [DOMAIN two.of -> DOMAIN two.at]
        BY WithBothTyped
  <2>3. \/ /\ localOf' = one.of /\ idAt' = one.at /\ pending' = pending /\ frozen' = frozen
        \/ /\ localOf' = two.of /\ idAt' = two.at /\ Push(e)
        BY <1>2 DEF AppendEdge
  <2>4. e.src \in DOMAIN two.at /\ e.dst \in DOMAIN two.at
        BY <2>2
  <2>5. ASSUME Push(e) PROVE DeltaEdges' \subseteq DeltaEdges \cup {e}
    <3>1. \/ pending' \subseteq pending \cup {e} /\ frozen' = frozen
          \/ frozen' = Append(frozen, pending \cup {e}) /\ pending' = {}
          BY <2>5 DEF Push
    <3>2. CASE pending' \subseteq pending \cup {e} /\ frozen' = frozen
          BY <3>2 DEF DeltaEdges, FrozenEdges
    <3>3. CASE frozen' = Append(frozen, pending \cup {e}) /\ pending' = {}
      <4> HIDE DEF e
      <4>1. frozen \in Seq(SUBSET DeltaEdge)
            BY DEF TypeOK
      <4>2. \A c \in DOMAIN frozen' :
               \/ c \in DOMAIN frozen /\ frozen'[c] = frozen[c]
               \/ frozen'[c] = pending \cup {e}
            BY <3>3, <4>1
      <4>3. FrozenEdges' \subseteq FrozenEdges \cup pending \cup {e}
            BY <4>2 DEF FrozenEdges
      <4>4. QED BY <3>3, <4>3 DEF DeltaEdges
    <3>4. QED BY <3>1, <3>2, <3>3
  <2> HIDE DEF one, two, e
  <2>6. CASE localOf' = one.of /\ idAt' = one.at /\ pending' = pending /\ frozen' = frozen
        BY <2>1, <2>2, <2>6 DEF IndicesKept, DeltaEdges, FrozenEdges
  <2>7. CASE localOf' = two.of /\ idAt' = two.at /\ Push(e)
        BY <2>1, <2>2, <2>4, <2>5, <2>7 DEF IndicesKept
  <2>8. QED BY <2>3, <2>6, <2>7
<1>3. QED BY <1>1, <1>2

IndRows == FirstIndices /\ IndicesKept

LEMMA NextRows ==
    TypeOK /\ LocalIndexIsNewest /\ IndRows /\ [Next]_vars => IndRows'
<1> SUFFICES ASSUME TypeOK, LocalIndexIsNewest, IndRows, [Next]_vars PROVE IndRows'
    OBVIOUS
<1> USE DEF IndRows
<1>1. ASSUME UNCHANGED <<idAt, frozen>>, pending' \subseteq pending PROVE IndicesKept'
      BY <1>1 DEF IndicesKept, DeltaEdges, FrozenEdges
<1>2. ASSUME UNCHANGED <<localOf, baseCsr, dataCsr, stable>>,
             \A r \in RowIds : edgeLive'[r] => edgeLive[r]
      PROVE  FirstIndices'
      BY <1>2 DEF FirstIndices
<1>3. ASSUME NEW batch \in SUBSET Ids, AddNodes(batch) PROVE IndRows'
      BY <1>1, <1>2, <1>3 DEF AddNodes
<1>4. ASSUME NEW id, DropIncident(id), UNCHANGED <<idAt, frozen, baseCsr, dataCsr, stable>>
      PROVE  IndRows'
  <2>1. pending' \subseteq pending
        BY <1>4 DEF DropIncident
  <2>2. FirstIndices'
        BY <1>4, DropIncidentRows DEF FirstIndices
  <2>3. QED BY <1>1, <1>4, <2>1, <2>2
<1>5. ASSUME NEW id \in Ids, DeleteNode(id) PROVE IndRows'
      BY <1>1, <1>2, <1>4, <1>5 DEF DeleteNode
<1>6. ASSUME NEW old \in Ids, NEW new \in Ids, UpdateNode(old, new) PROVE IndRows'
      BY <1>1, <1>2, <1>4, <1>6 DEF UpdateNode
<1>7. ASSUME NEW s \in Ids, NEW d \in Ids, AppendEdge(s, d),
             UNCHANGED <<baseCsr, dataCsr, stable>>,
             \A r \in RowIds : edgeLive'[r] => edgeLive[r]
      PROVE  IndRows'
      BY <1>7, AppendEdgeRows DEF FirstIndices
<1>8. ASSUME NEW s \in Ids, NEW d \in Ids, AddEdge(s, d) PROVE IndRows'
      BY <1>7, <1>8 DEF AddEdge
<1>9. ASSUME NEW row, edgeLive' = [edgeLive EXCEPT ![row] = FALSE]
      PROVE  \A r \in RowIds : edgeLive'[r] => edgeLive[r]
      BY <1>9 DEF TypeOK
<1>10. ASSUME NEW row, DeleteEdge(row) PROVE IndRows'
       BY <1>1, <1>2, <1>9, <1>10 DEF DeleteEdge
<1>11. ASSUME NEW row, NEW s \in Ids, NEW d \in Ids,
              UpdateEdgeRow(row, s, d) \/ UpdateEdge(row, s, d)
       PROVE  IndRows'
  <2>1. UNCHANGED <<baseCsr, dataCsr, stable>>
        BY <1>11 DEF UpdateEdgeRow, UpdateEdge
  <2>2. \/ UNCHANGED <<edgeLive, localOf, idAt, pending, frozen>>
        \/ AppendEdge(s, d) /\ edgeLive' = [edgeLive EXCEPT ![row] = FALSE]
        BY <1>11 DEF UpdateEdgeRow, UpdateEdge
  <2>3. QED BY <1>1, <1>2, <1>7, <1>9, <2>1, <2>2
<1>12. ASSUME MergeDeltas, UNCHANGED <<localOf, idAt>> PROVE IndRows'
  <2>1. stable' = FALSE /\ pending' = {} /\ frozen' = <<>>
        BY <1>12 DEF MergeDeltas
  <2>2. DeltaEdges' = {}
        BY <2>1 DEF DeltaEdges, FrozenEdges
  <2>3. QED BY <1>12, <2>1, <2>2 DEF FirstIndices, IndicesKept
<1>13. ASSUME Compact \/ Freeze PROVE IndRows'
       BY <1>12, <1>13 DEF Compact, Freeze
<1>14. CASE UNCHANGED vars
       BY <1>1, <1>2, <1>14 DEF vars
<1>15. QED
       BY <1>3, <1>5, <1>6, <1>8, <1>10, <1>11, <1>13, <1>14 DEF Next, Mutate

LEMMA RowsInvariant == Spec => []IndRows
<1>1. Init => IndRows
  <2>1. HAVE Init
  <2>2. /\ baseCsr = WrappedCsr /\ dataCsr = WrappedCsr /\ localOf = InitLocalOf
        /\ idAt = InitLocalIds /\ pending = {} /\ frozen = <<>>
        BY <2>1 DEF Init, WrappedCsr
  <2>3. FirstIndices
        BY <2>2, RowEndsIndexed DEF FirstIndices
  <2>4. DeltaEdges = {}
        BY <2>2 DEF DeltaEdges, FrozenEdges
  <2>5. IndicesKept
        BY <2>2, <2>4 DEF IndicesKept
  <2>6. QED BY <2>3, <2>5 DEF IndRows
<1>2. QED BY <1>1, NextRows, TypeCorrect, LocalIndexCorrect, PTL DEF Spec

\* Until the first compaction delete_node and update_node tombstone every
\* original edge of the node they delete, in both directions.
THEOREM RowsCorrect == Spec => []RowsDieWithTheirNodes
<1>1. LocalIndexIsNewest /\ IndRows => RowsDieWithTheirNodes
      BY DEF LocalIndexIsNewest, IndRows, FirstIndices, RowsDieWithTheirNodes
<1>2. QED BY <1>1, RowsInvariant, LocalIndexCorrect, PTL

-----------------------------------------------------------------------------
(* Readers. *)

\* Until the first compaction, a reader that goes by index and CSR entry and a
\* freeze that goes by id and row keep the same edges.
THEOREM ReadersCorrect == Spec => []ReadersSeeWhatFreezeKeeps
<1>1. ASSUME IndRows, stable PROVE ReaderView = FreezeView
  <2>1. \A i \in DOMAIN idAt : LocalIsLive(i) <=> IdIsLive(idAt[i])
        BY DEF LocalIsLive
  <2>2. {e \in DeltaEdges : BothEndsLive(e)} = FreezeDelta
        BY <1>1, <2>1 DEF IndRows, IndicesKept, BothEndsLive, FreezeDelta
  <2>3. \A e \in WrappedCsr : BothEndsLive(e) <=> /\ IdIsLive(Rows[e.id].src)
                                                  /\ IdIsLive(Rows[e.id].dst)
    <3>1. ASSUME NEW r \in RowIds, NEW x \in {Rows[r].src, Rows[r].dst}
          PROVE  LocalIsLive(InitLocalOf[x]) <=> IdIsLive(x)
          BY <1>1, <2>1, RowEndsIndexed DEF IndRows, IndicesKept
    <3>2. QED BY <3>1 DEF WrappedCsr, BothEndsLive
  <2>4. \A e \in WrappedCsr : e.id \in RowIds /\ e.edge = e.id
        BY DEF WrappedCsr
  <2>5. ASSUME NEW r \in RowIds PROVE \E e \in WrappedCsr : e.id = r
    <3> DEFINE e == [src |-> InitLocalOf[Rows[r].src], dst |-> InitLocalOf[Rows[r].dst],
                     id |-> r, edge |-> r]
    <3>1. e \in WrappedCsr /\ e.id = r
          BY DEF WrappedCsr
    <3>2. QED BY <3>1
  <2>6. \A x : x \in Shown(WrappedCsr, TRUE) <=> x \in FreezeRows
        BY <2>3, <2>4, <2>5 DEF Shown, RowIsLive, FreezeRows
  <2>7. Shown(baseCsr, stable) = Shown(WrappedCsr, TRUE)
        BY <1>1 DEF IndRows, FirstIndices, Shown
  <2>8. QED BY <2>2, <2>6, <2>7 DEF ReaderView, FreezeView
<1>2. IndRows => ReadersSeeWhatFreezeKeeps
      BY <1>1 DEF ReadersSeeWhatFreezeKeeps
<1>3. QED BY <1>2, RowsInvariant, PTL

\* The edges that a merge of the base and the chunks holds, whatever ids the
\* rebuilt CSR gives them, are those a reader of its parts saw.
LEMMA RenumberedKeepsEdges ==
    ASSUME NEW rows, NEW x
    PROVE  (\E e \in Renumbered(rows) : e.edge = x /\ BothEndsLive(e))
              <=> (\E e \in rows : e.edge = x /\ BothEndsLive(e))
<1> DEFINE n(f) == 1 + Cardinality({y \in rows : Before(y, f)})
           new(f) == [src |-> f.src, dst |-> f.dst, edge |-> f.edge, id |-> n(f)]
<1>1. \A f : /\ new(f).edge = f.edge
             /\ BothEndsLive(new(f)) <=> BothEndsLive(f)
      BY DEF BothEndsLive
<1>2. Renumbered(rows) = {new(f) : f \in rows}
      BY DEF Renumbered
<1> HIDE DEF new
<1>3. QED BY <1>1, <1>2

\* A reader who is told that the CSR ids are no rows sees exactly the live part
\* of what went into the first compaction.
THEOREM FirstCompactCorrect == Spec => FirstCompactKeepsView
<1>1. ASSUME TypeOK, stable, Compact PROVE ReaderView' = ReaderView
  <2>1. /\ baseCsr' = Renumbered(Merged(baseCsr, Flushed)) /\ stable' = FALSE
        /\ pending' = {} /\ frozen' = <<>>
        /\ UNCHANGED <<nodeLive, lookup, idAt>>
        BY <1>1 DEF Compact, MergeDeltas
  <2>2. DeltaEdges' = {}
        BY <2>1 DEF DeltaEdges, FrozenEdges
  <2>3. \A e : BothEndsLive(e)' <=> BothEndsLive(e)
        BY <2>1 DEF BothEndsLive, LocalIsLive, IdIsLive
  <2>4. \A e : (\E c \in DOMAIN Flushed : e \in Flushed[c]) <=> e \in DeltaEdges
    <3>1. frozen \in Seq(SUBSET DeltaEdge) /\ pending \in SUBSET DeltaEdge
          BY <1>1 DEF TypeOK
    <3>2. CASE pending = {}
          BY <3>2 DEF Flushed, DeltaEdges, FrozenEdges
    <3>3. CASE pending # {}
      <4>1. Flushed = Append(frozen, pending)
            BY <3>3 DEF Flushed
      <4>2. /\ DOMAIN Flushed = DOMAIN frozen \cup {Len(frozen) + 1}
            /\ Flushed[Len(frozen) + 1] = pending
            /\ \A c \in DOMAIN frozen : Flushed[c] = frozen[c]
            BY <3>1, <4>1
      <4>3. QED BY <4>2 DEF DeltaEdges, FrozenEdges
    <3>4. QED BY <3>2, <3>3
  <2>5. \A x : (\E e \in Merged(baseCsr, Flushed) : e.edge = x /\ BothEndsLive(e))
                  <=> x \in ReaderView
    <3> SUFFICES ASSUME NEW x
        PROVE (\E e \in Merged(baseCsr, Flushed) : e.edge = x /\ BothEndsLive(e))
                  <=> x \in ReaderView
        OBVIOUS
    <3>1. (\E e \in Merged(baseCsr, Flushed) : e.edge = x /\ BothEndsLive(e))
             <=> \/ \E e \in baseCsr : e.edge = x /\ RowIsLive(e.id) /\ BothEndsLive(e)
                 \/ \E c \in DOMAIN Flushed : \E e \in Flushed[c] : e.edge = x /\ BothEndsLive(e)
      <4> DEFINE old(e) == [src |-> e.src, part |-> 0, dst |-> e.dst, tie |-> e.id,
                            edge |-> e.edge]
                 new(c, e) == [src |-> e.src, part |-> c, dst |-> e.dst, tie |-> e.edge,
                               edge |-> e.edge]
      <4>1. /\ \A e : /\ old(e).edge = e.edge
                      /\ BothEndsLive(old(e)) <=> BothEndsLive(e)
            /\ \A c, e : /\ new(c, e).edge = e.edge
                         /\ BothEndsLive(new(c, e)) <=> BothEndsLive(e)
            BY DEF BothEndsLive
      <4>2. Merged(baseCsr, Flushed) =
               {old(e) : e \in {e \in baseCsr : RowIsLive(e.id) /\ BothEndsLive(e)}}
               \cup UNION {{new(c, e) : e \in {e \in Flushed[c] : BothEndsLive(e)}} :
                             c \in DOMAIN Flushed}
            BY DEF Merged
      <4> HIDE DEF old, new
      <4>3. \A m : m \in Merged(baseCsr, Flushed) <=>
               \/ \E e \in baseCsr : RowIsLive(e.id) /\ BothEndsLive(e) /\ m = old(e)
               \/ \E c \in DOMAIN Flushed : \E e \in Flushed[c] : BothEndsLive(e) /\ m = new(c, e)
            BY <4>2
      <4>4. QED BY <4>1, <4>3
    <3>2. x \in ReaderView
             <=> \/ \E e \in baseCsr : e.edge = x /\ RowIsLive(e.id) /\ BothEndsLive(e)
                 \/ \E e \in DeltaEdges : e.edge = x /\ BothEndsLive(e)
          BY <1>1 DEF ReaderView, Shown
    <3>3. QED BY <2>4, <3>1, <3>2
  <2>6. \A x : x \in ReaderView' <=> \E e \in baseCsr' : e.edge = x /\ BothEndsLive(e)
        BY <2>1, <2>2, <2>3 DEF ReaderView, Shown
  <2>7. QED BY <2>1, <2>5, <2>6, RenumberedKeepsEdges
<1>2. TypeOK => [stable /\ Compact => ReaderView' = ReaderView]_vars
      BY <1>1
<1>3. QED BY <1>2, TypeCorrect, PTL DEF FirstCompactKeepsView


-----------------------------------------------------------------------------
(* The three kinds of steps, as far as the edges go. *)

RowsOnlyDie == \A r \in RowIds : edgeLive'[r] => edgeLive[r]

TableGrows == \A i \in DOMAIN idAt : i \in DOMAIN idAt' /\ idAt'[i] = idAt[i]

\* A change of nodes, or of tombstones only: no edge comes, no index is given.
NodeStep ==
    /\ UNCHANGED <<idAt, baseCsr, stable, frozen, nextSerial>>
    /\ pending' \subseteq pending
    /\ RowsOnlyDie

\* A call that ends in add_edge_row.
EdgeStep ==
    /\ UNCHANGED <<nodeLive, lookup, baseCsr, stable, retired, graph>>
    /\ TableGrows /\ RowsOnlyDie
    /\ \A i \in DOMAIN idAt' : i \in DOMAIN idAt \/ idAt'[i] \in lookup
    /\ \/ UNCHANGED <<pending, frozen, nextSerial>>
       \/ \E e \in DeltaEdge :
             /\ e.edge = nextSerial /\ nextSerial' = nextSerial + 1
             /\ e.src \in DOMAIN idAt' /\ e.dst \in DOMAIN idAt'
             /\ Push(e)

\* compact, or the compaction of freeze.
MergeStep ==
    /\ MergeDeltas
    /\ UNCHANGED <<nodeLive, lookup, localOf, idAt, edgeLive, nextSerial, retired>>

\* The push of add_edge_row adds its edge to the deltas, and puts it into the
\* buffer or with the whole buffer into a new chunk.
LEMMA PushAdds ==
    ASSUME TypeOK, NEW e \in DeltaEdge, Push(e)
    PROVE  /\ DeltaEdges' = DeltaEdges \cup {e}
           /\ \/ pending' = pending \cup {e} /\ frozen' = frozen
              \/ /\ pending' = {} /\ frozen' \in Seq(SUBSET DeltaEdge)
                 /\ DOMAIN frozen' = DOMAIN frozen \cup {Len(frozen) + 1}
                 /\ Len(frozen) + 1 \notin DOMAIN frozen
                 /\ frozen'[Len(frozen) + 1] = pending \cup {e}
                 /\ \A c \in DOMAIN frozen : frozen'[c] = frozen[c]
<1>1. \/ pending' = pending \cup {e} /\ frozen' = frozen
      \/ frozen' = Append(frozen, pending \cup {e}) /\ pending' = {}
      BY DEF Push
<1>2. CASE pending' = pending \cup {e} /\ frozen' = frozen
      BY <1>2 DEF DeltaEdges, FrozenEdges
<1>3. CASE frozen' = Append(frozen, pending \cup {e}) /\ pending' = {}
  <2> DEFINE buffer == pending \cup {e}
  <2>1. frozen \in Seq(SUBSET DeltaEdge) /\ buffer \in SUBSET DeltaEdge
        BY DEF TypeOK
  <2> HIDE DEF buffer
  <2>2. frozen' = Append(frozen, buffer)
        BY <1>3 DEF buffer
  <2>3. /\ frozen' \in Seq(SUBSET DeltaEdge)
        /\ DOMAIN frozen' = DOMAIN frozen \cup {Len(frozen) + 1}
        /\ Len(frozen) + 1 \notin DOMAIN frozen
        /\ frozen'[Len(frozen) + 1] = buffer
        /\ \A c \in DOMAIN frozen : frozen'[c] = frozen[c]
        BY <2>1, <2>2
  <2>4. FrozenEdges' = FrozenEdges \cup buffer
        BY <2>3 DEF FrozenEdges
  <2>5. DeltaEdges' = DeltaEdges \cup {e}
        BY <1>3, <2>4 DEF DeltaEdges, buffer
  <2>6. QED BY <1>3, <2>3, <2>5 DEF buffer
<1>4. QED BY <1>1, <1>2, <1>3

\* add_edge_row, also one that half fails, is the second kind of step.
LEMMA AppendEdgeIsEdgeStep ==
    ASSUME TypeOK, LocalIndexIsNewest, NEW s \in Ids, NEW d \in Ids, AppendEdge(s, d),
           UNCHANGED <<nodeLive, lookup, baseCsr, stable, retired, graph>>, RowsOnlyDie
    PROVE  EdgeStep
<1> DEFINE one == WithSrc(s)
           two == WithBoth(s, d)
           e == [src |-> two.of[s], dst |-> two.of[d], edge |-> nextSerial]
<1>1. CASE ~Resolvable(s)
  <2>1. UNCHANGED <<idAt, pending, frozen, nextSerial>>
        BY <1>1 DEF AppendEdge
  <2>2. QED BY <2>1 DEF EdgeStep, TableGrows
<1>2. CASE Resolvable(s)
  <2>1. /\ \A i \in DOMAIN idAt : /\ i \in DOMAIN one.at /\ one.at[i] = idAt[i]
                                 /\ i \in DOMAIN two.at /\ two.at[i] = idAt[i]
        BY <1>2, WithBothNewest
  <2>2. /\ one.at \in Seq(Ids) /\ two.at \in Seq(Ids)
        /\ DOMAIN two.of = DOMAIN localOf \cup {s, d}
        /\ two.of \in [DOMAIN two.of -> DOMAIN two.at]
        BY WithBothTyped
  <2>3. s \in lookup /\ (Resolvable(d) => d \in lookup)
        BY <1>2 DEF Resolvable, LocalIndexIsNewest
  <2>4. /\ \A i \in DOMAIN one.at : i \in DOMAIN idAt \/ one.at[i] = s
        /\ \A i \in DOMAIN two.at : i \in DOMAIN idAt \/ two.at[i] \in {s, d}
    <3>1. one = Indexed([at |-> idAt, of |-> localOf], s) /\ two = Indexed(one, d)
          BY DEF WithSrc, WithBoth
    <3> HIDE DEF one, two
    <3>2. Resolves(one, idAt, localOf, s)
          BY <3>1, IndexedTable DEF TypeOK
    <3>3. /\ two = Indexed([at |-> one.at, of |-> one.of], d)
          /\ one.at \in Seq(Ids) /\ DOMAIN one.of \subseteq Ids
          /\ one.of \in [DOMAIN one.of -> DOMAIN one.at]
          BY <3>1, <3>2 DEF Resolves, TypeOK
    <3>4. Resolves(two, one.at, one.of, d)
          BY <3>3, IndexedTable
    <3>5. \A i \in DOMAIN one.at : i \in DOMAIN idAt \/ one.at[i] = s
          BY <3>2 DEF Resolves
    <3>6. \A i \in DOMAIN two.at : i \in DOMAIN one.at \/ two.at[i] = d
          BY <3>4 DEF Resolves
    <3>7. \A i \in DOMAIN one.at : two.at[i] = one.at[i]
          BY <3>4 DEF Resolves
    <3>8. QED BY <3>5, <3>6, <3>7
  <2>5. \/ /\ ~Resolvable(d) /\ idAt' = one.at /\ UNCHANGED <<pending, frozen, nextSerial>>
        \/ /\ Resolvable(d) /\ idAt' = two.at /\ Push(e) /\ nextSerial' = nextSerial + 1
           /\ nextSerial <= MaxSerial /\ Len(two.at) <= MaxLocalIdx
        BY <1>2 DEF AppendEdge
  <2> HIDE DEF one, two
  <2>6. CASE /\ ~Resolvable(d) /\ idAt' = one.at /\ UNCHANGED <<pending, frozen, nextSerial>>
        BY <2>1, <2>3, <2>4, <2>6 DEF EdgeStep, TableGrows
  <2>7. CASE /\ Resolvable(d) /\ idAt' = two.at /\ Push(e) /\ nextSerial' = nextSerial + 1
             /\ nextSerial <= MaxSerial /\ Len(two.at) <= MaxLocalIdx
    <3>1. DOMAIN two.at \subseteq LocalIdxs
          BY <2>2, <2>7, BoundsAssumption DEF LocalIdxs
    <3>2. nextSerial \in Serials
      <4>1. Len(Rows) \in Nat
            BY RowsAssumption
      <4>2. QED BY <2>7, <4>1, BoundsAssumption DEF TypeOK, Serials
    <3>3. /\ e \in DeltaEdge /\ e.edge = nextSerial
          /\ e.src \in DOMAIN two.at /\ e.dst \in DOMAIN two.at
          BY <2>2, <3>1, <3>2 DEF DeltaEdge
    <3> HIDE DEF e
    <3>4. TableGrows /\ \A i \in DOMAIN idAt' : i \in DOMAIN idAt \/ idAt'[i] \in lookup
          BY <2>1, <2>3, <2>4, <2>7 DEF TableGrows
    <3>5. QED BY <2>7, <3>3, <3>4 DEF EdgeStep
  <2>8. QED BY <2>5, <2>6, <2>7
<1>3. QED BY <1>1, <1>2

\* Deleting a node, or the old one of update_node, takes edges away only.
LEMMA DropIncidentOnlyDrops ==
    ASSUME NEW id, DropIncident(id)
    PROVE  pending' \subseteq pending /\ RowsOnlyDie /\ retired' = retired \cup {id}
<1>1. edgeLive' = [r \in RowIds |-> edgeLive[r] /\ r \notin TombstonedBy(id)]
      BY DEF DropIncident
<1>2. RowsOnlyDie
      BY <1>1 DEF RowsOnlyDie
<1>3. QED BY <1>2 DEF DropIncident

\* Every call is one of the three.
LEMMA StepKinds ==
    TypeOK /\ LocalIndexIsNewest /\ [Next]_vars => NodeStep \/ EdgeStep \/ MergeStep
<1> SUFFICES ASSUME TypeOK, LocalIndexIsNewest, [Next]_vars
             PROVE  NodeStep \/ EdgeStep \/ MergeStep
    OBVIOUS
<1>1. ASSUME NEW row, edgeLive' = [edgeLive EXCEPT ![row] = FALSE] PROVE RowsOnlyDie
      BY <1>1 DEF RowsOnlyDie, TypeOK
<1>2. ASSUME NEW batch \in SUBSET Ids, AddNodes(batch) PROVE NodeStep
      BY <1>2 DEF AddNodes, NodeStep, RowsOnlyDie
<1>3. ASSUME NEW id \in Ids, DeleteNode(id) PROVE NodeStep
      BY <1>3, DropIncidentOnlyDrops DEF DeleteNode, NodeStep, RowsOnlyDie
<1>4. ASSUME NEW old \in Ids, NEW new \in Ids, UpdateNode(old, new) PROVE NodeStep
      BY <1>4, DropIncidentOnlyDrops DEF UpdateNode, NodeStep, RowsOnlyDie
<1>5. ASSUME NEW s \in Ids, NEW d \in Ids, AddEdge(s, d) PROVE EdgeStep
      BY <1>5, AppendEdgeIsEdgeStep DEF AddEdge, RowsOnlyDie
<1>6. ASSUME NEW row, DeleteEdge(row) PROVE NodeStep
      BY <1>1, <1>6 DEF DeleteEdge, NodeStep, RowsOnlyDie
<1>7. ASSUME NEW row, NEW s \in Ids, NEW d \in Ids,
             UpdateEdgeRow(row, s, d) \/ UpdateEdge(row, s, d)
      PROVE  NodeStep \/ EdgeStep
  <2>1. UNCHANGED <<nodeLive, lookup, baseCsr, stable, retired, graph>>
        BY <1>7 DEF UpdateEdgeRow, UpdateEdge
  <2>2. \/ UNCHANGED <<edgeLive, idAt, pending, frozen, nextSerial>>
        \/ AppendEdge(s, d) /\ edgeLive' = [edgeLive EXCEPT ![row] = FALSE]
        BY <1>7 DEF UpdateEdgeRow, UpdateEdge
  <2>3. CASE UNCHANGED <<edgeLive, idAt, pending, frozen, nextSerial>>
        BY <2>1, <2>3 DEF NodeStep, RowsOnlyDie
  <2>4. CASE AppendEdge(s, d) /\ edgeLive' = [edgeLive EXCEPT ![row] = FALSE]
        BY <1>1, <2>1, <2>4, AppendEdgeIsEdgeStep
  <2>5. QED BY <2>2, <2>3, <2>4
<1>8. ASSUME Compact \/ Freeze PROVE MergeStep
      BY <1>8 DEF Compact, Freeze, MergeStep
<1>9. CASE UNCHANGED vars
      BY <1>9 DEF vars, NodeStep, RowsOnlyDie
<1>10. QED
       BY <1>2, <1>3, <1>4, <1>5, <1>6, <1>7, <1>8, <1>9 DEF Next, Mutate

-----------------------------------------------------------------------------
(* Where an edge is kept. *)

\* Base entries and deltas are numbered below the next serial, deltas above the
\* rows and each once, and the indices they hold are in the table.
Numbered ==
    /\ \A e \in baseCsr : e.edge < nextSerial /\ e.src \in DOMAIN idAt /\ e.dst \in DOMAIN idAt
    /\ \A e \in DeltaEdges : Len(Rows) < e.edge /\ e.edge < nextSerial
    /\ \A e, f \in DeltaEdges : e.edge = f.edge => e = f

IndHomes == Numbered /\ OneHomePerEdge

\* compact flushes the buffer as one more chunk, so that the chunks it merges
\* hold the deltas, and each of them in one chunk.
LEMMA FlushedHomes ==
    ASSUME TypeOK, IndHomes
    PROVE  /\ Flushed \in Seq(SUBSET DeltaEdge)
           /\ \A e : (\E c \in DOMAIN Flushed : e \in Flushed[c]) <=> e \in DeltaEdges
           /\ \A c, d \in DOMAIN Flushed : \A e \in Flushed[c], f \in Flushed[d] :
                 e.edge = f.edge => c = d /\ e = f
<1>1. frozen \in Seq(SUBSET DeltaEdge) /\ pending \in SUBSET DeltaEdge
      BY DEF TypeOK
<1>2. /\ \A e \in pending, c \in DOMAIN frozen : \A f \in frozen[c] : e.edge # f.edge
      /\ \A c, d \in DOMAIN frozen : \A e \in frozen[c], f \in frozen[d] :
            e.edge = f.edge => c = d
      /\ \A e, f \in DeltaEdges : e.edge = f.edge => e = f
      BY DEF IndHomes, Numbered, OneHomePerEdge
<1>3. \A c \in DOMAIN frozen : \A e \in frozen[c] : e \in DeltaEdges
      BY DEF DeltaEdges, FrozenEdges
<1>4. CASE pending = {}
  <2>1. Flushed = frozen
        BY <1>4 DEF Flushed
  <2>2. \A e : (\E c \in DOMAIN frozen : e \in frozen[c]) <=> e \in DeltaEdges
        BY <1>4 DEF DeltaEdges, FrozenEdges
  <2>3. QED BY <1>1, <1>2, <1>3, <2>1, <2>2
<1>5. CASE pending # {}
  <2>1. Flushed = Append(frozen, pending)
        BY <1>5 DEF Flushed
  <2>2. /\ Flushed \in Seq(SUBSET DeltaEdge)
        /\ DOMAIN Flushed = DOMAIN frozen \cup {Len(frozen) + 1}
        /\ Flushed[Len(frozen) + 1] = pending
        /\ \A c \in DOMAIN frozen : Flushed[c] = frozen[c]
        BY <1>1, <2>1
  <2>3. \A e : (\E c \in DOMAIN Flushed : e \in Flushed[c]) <=> e \in DeltaEdges
        BY <2>2 DEF DeltaEdges, FrozenEdges
  <2>4. ASSUME NEW c \in DOMAIN Flushed, NEW d \in DOMAIN Flushed,
               NEW e \in Flushed[c], NEW f \in Flushed[d], e.edge = f.edge
        PROVE  c = d /\ e = f
    <3>1. e \in DeltaEdges /\ f \in DeltaEdges
          BY <2>3
    <3>2. c = d
          BY <1>2, <2>2, <2>4
    <3>3. QED BY <1>2, <2>4, <3>1, <3>2
  <2>5. QED BY <2>2, <2>3, <2>4
<1>6. QED BY <1>4, <1>5

\* The rows that compact merges are rows of one edge each, with both ends live.
LEMMA MergedHomes ==
    ASSUME TypeOK, IndHomes
    PROVE  /\ \A x, y \in Merged(baseCsr, Flushed) : x.edge = y.edge => x = y
           /\ \A x \in Merged(baseCsr, Flushed) :
                 /\ x.edge < nextSerial /\ BothEndsLive(x)
                 /\ \E e \in baseCsr \cup DeltaEdges :
                       e.edge = x.edge /\ e.src = x.src /\ e.dst = x.dst
<1> DEFINE old(e) == [src |-> e.src, part |-> 0, dst |-> e.dst, tie |-> e.id, edge |-> e.edge]
           new(c, e) == [src |-> e.src, part |-> c, dst |-> e.dst, tie |-> e.edge,
                         edge |-> e.edge]
           M == Merged(baseCsr, Flushed)
<1>1. /\ \A e : /\ old(e).edge = e.edge /\ old(e).src = e.src /\ old(e).dst = e.dst
                /\ BothEndsLive(old(e)) <=> BothEndsLive(e)
      /\ \A c, e : /\ new(c, e).edge = e.edge /\ new(c, e).src = e.src /\ new(c, e).dst = e.dst
                   /\ BothEndsLive(new(c, e)) <=> BothEndsLive(e)
      BY DEF BothEndsLive
<1>2. M = {old(e) : e \in {e \in baseCsr : RowIsLive(e.id) /\ BothEndsLive(e)}}
             \cup UNION {{new(c, e) : e \in {e \in Flushed[c] : BothEndsLive(e)}} :
                           c \in DOMAIN Flushed}
      BY DEF Merged
<1> HIDE DEF old, new, M
<1>3. \A x \in M :
         \/ \E e \in baseCsr : BothEndsLive(e) /\ x = old(e)
         \/ \E c \in DOMAIN Flushed : \E e \in Flushed[c] : BothEndsLive(e) /\ x = new(c, e)
      BY <1>2
<1>4. /\ \A e : (\E c \in DOMAIN Flushed : e \in Flushed[c]) <=> e \in DeltaEdges
      /\ \A c, d \in DOMAIN Flushed : \A e \in Flushed[c], f \in Flushed[d] :
            e.edge = f.edge => c = d /\ e = f
      BY FlushedHomes
<1>5. /\ \A e, f \in baseCsr : e.edge = f.edge => e = f
      /\ \A e \in baseCsr, f \in DeltaEdges : e.edge # f.edge
      /\ \A e \in baseCsr \cup DeltaEdges : e.edge < nextSerial
      BY DEF IndHomes, Numbered, OneHomePerEdge
<1>6. ASSUME NEW x \in M, NEW y \in M, x.edge = y.edge PROVE x = y
  <2>1. ASSUME NEW e \in baseCsr, x = old(e) PROVE x = y
    <3>1. x.edge = e.edge
          BY <1>1, <2>1
    <3>2. ASSUME NEW c \in DOMAIN Flushed, NEW f \in Flushed[c], y = new(c, f) PROVE FALSE
      <4>1. y.edge = f.edge /\ f \in DeltaEdges
            BY <1>1, <1>4, <3>2
      <4>2. QED BY <1>5, <1>6, <3>1, <4>1
    <3>3. PICK f \in baseCsr : y = old(f)
          BY <1>3, <3>2
    <3>4. QED BY <1>1, <1>5, <1>6, <2>1, <3>1, <3>3
  <2>2. ASSUME NEW c \in DOMAIN Flushed, NEW e \in Flushed[c], x = new(c, e) PROVE x = y
    <3>1. x.edge = e.edge /\ e \in DeltaEdges
          BY <1>1, <1>4, <2>2
    <3>2. ASSUME NEW f \in baseCsr, y = old(f) PROVE FALSE
      <4>1. y.edge = f.edge
            BY <1>1, <3>2
      <4>2. QED BY <1>5, <1>6, <3>1, <4>1
    <3>3. PICK d \in DOMAIN Flushed : \E f \in Flushed[d] : y = new(d, f)
          BY <1>3, <3>2
    <3>4. PICK f \in Flushed[d] : y = new(d, f)
          BY <3>3
    <3>5. f.edge = e.edge
          BY <1>1, <1>6, <3>1, <3>4
    <3>6. QED BY <1>4, <2>2, <3>4, <3>5
  <2>3. QED BY <1>3, <2>1, <2>2
<1>7. ASSUME NEW x \in M
      PROVE  /\ x.edge < nextSerial /\ BothEndsLive(x)
             /\ \E e \in baseCsr \cup DeltaEdges :
                   e.edge = x.edge /\ e.src = x.src /\ e.dst = x.dst
  <2>1. PICK e \in baseCsr \cup DeltaEdges :
           BothEndsLive(e) /\ (x = old(e) \/ \E c : x = new(c, e))
        BY <1>3, <1>4
  <2>2. /\ e.edge = x.edge /\ e.src = x.src /\ e.dst = x.dst
        /\ BothEndsLive(x)
        BY <1>1, <2>1
  <2>3. QED BY <1>5, <2>1, <2>2
<1>8. QED BY <1>6, <1>7 DEF M

\* What CsrIndex::build numbers is, edge by edge, what it is given.
LEMMA RenumberedFrom ==
    ASSUME NEW rows, NEW e \in Renumbered(rows)
    PROVE  \E x \in rows : /\ e.src = x.src /\ e.dst = x.dst /\ e.edge = x.edge
                           /\ \A f \in Renumbered(rows) :
                                 (\A y \in rows : y.edge = x.edge => y = x) /\ f.edge = e.edge
                                    => f = e
<1> DEFINE n(x) == 1 + Cardinality({y \in rows : Before(y, x)})
           new(x) == [src |-> x.src, dst |-> x.dst, edge |-> x.edge, id |-> n(x)]
<1>1. Renumbered(rows) = {new(x) : x \in rows}
      BY DEF Renumbered
<1>2. \A x : new(x).src = x.src /\ new(x).dst = x.dst /\ new(x).edge = x.edge
      OBVIOUS
<1> HIDE DEF new
<1>3. PICK x \in rows : e = new(x)
      BY <1>1
<1>4. QED BY <1>1, <1>2, <1>3

\* compact gives every edge that survives one entry of the new base.
LEMMA MergeHomes ==
    ASSUME TypeOK, IndHomes, MergeStep
    PROVE  IndHomes'
<1> DEFINE M == Merged(baseCsr, Flushed)
<1>1. /\ baseCsr' = Renumbered(M) /\ pending' = {} /\ frozen' = <<>>
      /\ UNCHANGED <<nextSerial, idAt>>
      BY DEF MergeStep, MergeDeltas
<1>2. /\ \A x, y \in M : x.edge = y.edge => x = y
      /\ \A x \in M : x.edge < nextSerial /\ BothEndsLive(x)
      BY MergedHomes
<1> HIDE DEF M
<1>3. \A e \in baseCsr' : \E x \in M :
         /\ e.src = x.src /\ e.dst = x.dst /\ e.edge = x.edge
         /\ \A f \in baseCsr' : f.edge = e.edge => f = e
      BY <1>1, <1>2, RenumberedFrom
<1>4. DeltaEdges' = {} /\ DOMAIN frozen' = {}
      BY <1>1 DEF DeltaEdges, FrozenEdges
<1>5. \A x \in M : x.src \in DOMAIN idAt /\ x.dst \in DOMAIN idAt
      BY <1>2 DEF BothEndsLive, LocalIsLive
<1>6. Numbered'
      BY <1>1, <1>2, <1>3, <1>4, <1>5 DEF Numbered
<1>7. OneHomePerEdge'
      BY <1>1, <1>3, <1>4 DEF OneHomePerEdge
<1>8. QED BY <1>6, <1>7 DEF IndHomes

\* add_edge_row puts its edge, whose number is new, in one place.
LEMMA EdgeStepHomes ==
    ASSUME TypeOK, IndHomes, EdgeStep
    PROVE  IndHomes'
<1>1. /\ UNCHANGED baseCsr
      /\ \A e \in baseCsr : e.src \in DOMAIN idAt' /\ e.dst \in DOMAIN idAt'
      BY DEF EdgeStep, TableGrows, IndHomes, Numbered
<1>2. Len(Rows) \in Nat /\ nextSerial \in Nat /\ Len(Rows) < nextSerial
  <2>1. Len(Rows) \in Nat
        BY RowsAssumption
  <2>2. QED BY <2>1, BoundsAssumption DEF TypeOK
<1>3. CASE UNCHANGED <<pending, frozen, nextSerial>>
  <2>1. UNCHANGED DeltaEdges
        BY <1>3 DEF DeltaEdges, FrozenEdges
  <2>2. QED BY <1>1, <1>3, <2>1 DEF IndHomes, Numbered, OneHomePerEdge
<1>4. ASSUME NEW e \in DeltaEdge, e.edge = nextSerial, nextSerial' = nextSerial + 1, Push(e)
      PROVE  IndHomes'
  <2>1. /\ DeltaEdges' = DeltaEdges \cup {e}
        /\ \/ pending' = pending \cup {e} /\ frozen' = frozen
           \/ /\ pending' = {} /\ frozen' \in Seq(SUBSET DeltaEdge)
              /\ DOMAIN frozen' = DOMAIN frozen \cup {Len(frozen) + 1}
              /\ Len(frozen) + 1 \notin DOMAIN frozen
              /\ frozen'[Len(frozen) + 1] = pending \cup {e}
              /\ \A c \in DOMAIN frozen : frozen'[c] = frozen[c]
        BY <1>4, PushAdds
  <2>2. /\ \A f \in baseCsr : f.edge < nextSerial /\ f.edge \in Nat
        /\ \A f \in DeltaEdges : Len(Rows) < f.edge /\ f.edge < nextSerial /\ f.edge \in Nat
    <3>1. \A f \in DeltaEdges : f \in DeltaEdge
          BY DEF DeltaEdges, FrozenEdges, TypeOK
    <3>2. QED BY <3>1 DEF IndHomes, Numbered, TypeOK, CsrEntry, DeltaEdge, Serials
  <2>3. \A f \in baseCsr \cup DeltaEdges : f.edge # e.edge
        BY <1>2, <1>4, <2>2
  <2>4. Numbered'
    <3>1. \A f \in baseCsr' : f.edge < nextSerial'
          BY <1>1, <1>2, <1>4, <2>2
    <3>2. \A f \in DeltaEdges' : Len(Rows) < f.edge /\ f.edge < nextSerial'
          BY <1>2, <1>4, <2>1, <2>2
    <3>3. \A f, g \in DeltaEdges' : f.edge = g.edge => f = g
          BY <2>1, <2>3 DEF IndHomes, Numbered
    <3>4. QED BY <1>1, <3>1, <3>2, <3>3 DEF Numbered
  <2>5. \A c \in DOMAIN frozen : \A f \in frozen[c] : f \in DeltaEdges
        BY DEF DeltaEdges, FrozenEdges
  <2>6. /\ \A f, g \in baseCsr' : f.edge = g.edge => f = g
        /\ \A f \in baseCsr', g \in DeltaEdges' : f.edge # g.edge
        BY <1>1, <2>1, <2>3 DEF IndHomes, OneHomePerEdge
  <2>7. /\ \A f \in pending', c \in DOMAIN frozen' : \A g \in frozen'[c] : f.edge # g.edge
        /\ \A c, d \in DOMAIN frozen' : \A f \in frozen'[c], g \in frozen'[d] :
              f.edge = g.edge => c = d
    <3>1. CASE pending' = pending \cup {e} /\ frozen' = frozen
          BY <2>3, <2>5, <3>1 DEF IndHomes, OneHomePerEdge
    <3>2. CASE pending' # pending \cup {e} \/ frozen' # frozen
      <4>1. /\ pending' = {}
            /\ DOMAIN frozen' = DOMAIN frozen \cup {Len(frozen) + 1}
            /\ frozen'[Len(frozen) + 1] = pending \cup {e}
            /\ \A c \in DOMAIN frozen : frozen'[c] = frozen[c]
            BY <2>1, <3>2
      <4>2. \A f \in pending \cup {e}, c \in DOMAIN frozen : \A g \in frozen[c] :
               f.edge # g.edge
            BY <2>3, <2>5 DEF IndHomes, OneHomePerEdge
      <4>3. \A c, d \in DOMAIN frozen : \A f \in frozen[c], g \in frozen[d] :
               f.edge = g.edge => c = d
            BY DEF IndHomes, OneHomePerEdge
      <4>4. QED BY <4>1, <4>2, <4>3
    <3>3. QED BY <3>1, <3>2
  <2>8. QED BY <2>4, <2>6, <2>7 DEF IndHomes, OneHomePerEdge
<1>5. QED BY <1>3, <1>4 DEF EdgeStep

LEMMA NextHomes == TypeOK /\ LocalIndexIsNewest /\ IndHomes /\ [Next]_vars => IndHomes'
<1> SUFFICES ASSUME TypeOK, LocalIndexIsNewest, IndHomes, [Next]_vars PROVE IndHomes'
    OBVIOUS
<1>1. ASSUME NodeStep PROVE IndHomes'
  <2>1. /\ UNCHANGED <<idAt, baseCsr, frozen, nextSerial>> /\ pending' \subseteq pending
        /\ DeltaEdges' \subseteq DeltaEdges
        BY <1>1 DEF NodeStep, DeltaEdges, FrozenEdges
  <2>2. QED BY <2>1 DEF IndHomes, Numbered, OneHomePerEdge
<1>2. QED BY <1>1, EdgeStepHomes, MergeHomes, StepKinds

LEMMA HomesInvariant == Spec => []IndHomes
<1>1. Init => IndHomes
  <2>1. HAVE Init
  <2>2. /\ baseCsr = WrappedCsr /\ idAt = InitLocalIds /\ pending = {} /\ frozen = <<>>
        /\ nextSerial = Len(Rows) + 1
        BY <2>1 DEF Init, WrappedCsr
  <2>3. DeltaEdges = {} /\ DOMAIN frozen = {}
        BY <2>2 DEF DeltaEdges, FrozenEdges
  <2>4. \A e \in WrappedCsr : /\ e.edge < Len(Rows) + 1
                              /\ e.src \in DOMAIN InitLocalIds /\ e.dst \in DOMAIN InitLocalIds
    <3>1. Len(Rows) \in Nat
          BY RowsAssumption
    <3>2. \A r \in RowIds : r < Len(Rows) + 1
          BY <3>1 DEF RowIds
    <3>3. QED BY <3>2, RowEndsIndexed DEF WrappedCsr
  <2>5. \A e, f \in WrappedCsr : e.edge = f.edge => e = f
        BY DEF WrappedCsr
  <2>6. QED BY <2>2, <2>3, <2>4, <2>5 DEF IndHomes, Numbered, OneHomePerEdge
<1>2. QED BY <1>1, NextHomes, TypeCorrect, LocalIndexCorrect, PTL DEF Spec

\* However often the buffer is flushed and the deltas are merged into a new base,
\* no edge is held twice, and out_neighbors reports none twice.
THEOREM HomesCorrect == Spec => []OneHomePerEdge
<1>1. IndHomes => OneHomePerEdge
      BY DEF IndHomes
<1>2. QED BY <1>1, HomesInvariant, PTL

-----------------------------------------------------------------------------
(* freeze. *)

\* The edges that freeze puts together lie between nodes that it keeps, whatever
\* the indices of their ends have stood for since.
LEMMA FreezeEdgesEnd == \A e \in FreezeEdges : {e.src, e.dst} \subseteq LiveNodes
<1>1. \A id : IdIsLive(id) => id \in LiveNodes
      BY DEF IdIsLive, LiveNodes
<1>2. QED BY <1>1 DEF FreezeEdges, FreezeRows, FreezeDelta

-----------------------------------------------------------------------------
(* What a step brings back. *)

\* Ends of edges are indices of the table, before and after.
LEMMA EndsIndexed ==
    ASSUME IndHomes, IndicesKept, NEW e \in baseCsr \cup DeltaEdges
    PROVE  e.src \in DOMAIN idAt /\ e.dst \in DOMAIN idAt
BY DEF IndHomes, Numbered, IndicesKept

\* An index is live iff the lookup has the id that it stands for.
LEMMA LiveIffListed ==
    LookupIsLiveRows => \A id : IdIsLive(id) <=> id \in lookup
BY DEF LookupIsLiveRows, IdIsLive, LiveNodes

\* The edge x was hidden from readers, and the step lists an id that one of its
\* ends stands for.
Revived(x) ==
    \E e \in baseCsr \cup DeltaEdges :
        /\ e.edge = x
        /\ {idAt[e.src], idAt[e.dst]} \cap (lookup' \ lookup) # {}
        /\ e \in baseCsr /\ stable => RowIsLive(e.id)

\* A change of nodes shows an edge again only if it lists an end of it again.
LEMMA NodeStepRevives ==
    ASSUME LookupIsLiveRows, LookupIsLiveRows', IndHomes, IndicesKept, NodeStep,
           NEW x \in ReaderView' \ ReaderView
    PROVE  Revived(x)
<1>1. /\ UNCHANGED <<idAt, baseCsr, stable, frozen>> /\ DeltaEdges' \subseteq DeltaEdges
      /\ \A r : RowIsLive(r)' => RowIsLive(r)
      BY DEF NodeStep, DeltaEdges, FrozenEdges, RowsOnlyDie, RowIsLive
<1>2. PICK e \in baseCsr \cup DeltaEdges :
         /\ e.edge = x /\ BothEndsLive(e)'
         /\ \/ e \in baseCsr /\ (stable => RowIsLive(e.id)')
            \/ e \in DeltaEdges
  <2>1. \/ \E e \in baseCsr' : e.edge = x /\ BothEndsLive(e)' /\ (stable' => RowIsLive(e.id)')
        \/ \E e \in DeltaEdges' : e.edge = x /\ BothEndsLive(e)'
        BY DEF ReaderView, Shown
  <2>2. QED BY <1>1, <2>1
<1>3. e \in baseCsr /\ stable => RowIsLive(e.id)
  <2>1. ~(e \in baseCsr /\ e \in DeltaEdges)
        BY DEF IndHomes, OneHomePerEdge
  <2>2. QED BY <1>1, <1>2, <2>1
<1>4. ~BothEndsLive(e)
  <2>1. BothEndsLive(e) => x \in ReaderView
        BY <1>2, <1>3 DEF ReaderView, Shown
  <2>2. QED BY <2>1
<1>5. \A i : /\ LocalIsLive(i) <=> i \in DOMAIN idAt /\ idAt[i] \in lookup
             /\ LocalIsLive(i)' <=> i \in DOMAIN idAt' /\ idAt'[i] \in lookup'
  <2>1. \A id : (IdIsLive(id) <=> id \in lookup) /\ (IdIsLive(id)' <=> id \in lookup')
        BY LiveIffListed DEF LookupIsLiveRows, IdIsLive, LiveNodes
  <2>2. QED BY <2>1 DEF LocalIsLive
<1>6. {idAt[e.src], idAt[e.dst]} \cap (lookup' \ lookup) # {}
      BY <1>1, <1>2, <1>4, <1>5 DEF BothEndsLive
<1>7. QED BY <1>2, <1>3, <1>6 DEF Revived

\* An index that was live is so, and the other way round, when only the table
\* has grown.
LEMMA GrowthKeepsLiveness ==
    ASSUME UNCHANGED <<nodeLive, lookup>>, TableGrows, NEW i \in DOMAIN idAt
    PROVE  (LocalIsLive(i)' <=> LocalIsLive(i)) /\ (IdIsLive(idAt[i])' <=> IdIsLive(idAt[i]))
BY DEF TableGrows, LocalIsLive, IdIsLive

\* Appending an edge shows no other.
LEMMA EdgeStepRevives ==
    ASSUME TypeOK, IndHomes, IndicesKept, EdgeStep
    PROVE  ReaderView' \subseteq ReaderView \cup {nextSerial}
<1>1. /\ UNCHANGED <<nodeLive, lookup, baseCsr, stable>> /\ TableGrows
      /\ \A r : RowIsLive(r)' => RowIsLive(r)
      BY DEF EdgeStep, RowsOnlyDie, RowIsLive
<1>2. \A e \in baseCsr \cup DeltaEdges : BothEndsLive(e)' <=> BothEndsLive(e)
      BY <1>1, EndsIndexed, GrowthKeepsLiveness DEF BothEndsLive
<1>3. \A e \in DeltaEdges' : e \in DeltaEdges \/ e.edge = nextSerial
  <2>1. CASE UNCHANGED <<pending, frozen>>
        BY <2>1 DEF DeltaEdges, FrozenEdges
  <2>2. ASSUME NEW e \in DeltaEdge, e.edge = nextSerial, Push(e)
        PROVE  DeltaEdges' = DeltaEdges \cup {e}
        BY <2>2, PushAdds
  <2>3. QED BY <2>1, <2>2 DEF EdgeStep
<1>4. \A x \in Shown(baseCsr, stable)' : x \in Shown(baseCsr, stable)
      BY <1>1, <1>2 DEF Shown
<1>5. QED BY <1>2, <1>3, <1>4 DEF ReaderView

\* A compaction shows nothing that was not shown: it drops what is dead, and what
\* its stale ids take for dead.
LEMMA MergeStepRevives ==
    ASSUME TypeOK, IndHomes, MergeStep
    PROVE  ReaderView' \subseteq ReaderView
<1> DEFINE M == Merged(baseCsr, Flushed)
<1>1. /\ baseCsr' = Renumbered(M) /\ pending' = {} /\ frozen' = <<>>
      BY DEF MergeStep, MergeDeltas
<1>2. DeltaEdges' = {}
      BY <1>1 DEF DeltaEdges, FrozenEdges
<1>3. \A m \in M : m.edge \in ReaderView
  <2> DEFINE old(e) == [src |-> e.src, part |-> 0, dst |-> e.dst, tie |-> e.id, edge |-> e.edge]
             new(c, e) == [src |-> e.src, part |-> c, dst |-> e.dst, tie |-> e.edge,
                           edge |-> e.edge]
  <2>1. (\A e : old(e).edge = e.edge) /\ (\A c, e : new(c, e).edge = e.edge)
        OBVIOUS
  <2>2. M = {old(e) : e \in {e \in baseCsr : RowIsLive(e.id) /\ BothEndsLive(e)}}
               \cup UNION {{new(c, e) : e \in {e \in Flushed[c] : BothEndsLive(e)}} :
                             c \in DOMAIN Flushed}
        BY DEF Merged
  <2> HIDE DEF old, new, M
  <2>3. ASSUME NEW e \in baseCsr, RowIsLive(e.id), BothEndsLive(e)
        PROVE  e.edge \in ReaderView
        BY <2>3 DEF ReaderView, Shown
  <2>4. ASSUME NEW c \in DOMAIN Flushed, NEW e \in Flushed[c], BothEndsLive(e)
        PROVE  e.edge \in ReaderView
    <3>1. e \in DeltaEdges
          BY FlushedHomes
    <3>2. QED BY <2>4, <3>1 DEF ReaderView
  <2>5. QED BY <2>1, <2>2, <2>3, <2>4
<1> HIDE DEF M
<1>4. \A x \in ReaderView' : \E e \in baseCsr' : e.edge = x
      BY <1>2 DEF ReaderView, Shown
<1>5. QED BY <1>1, <1>3, <1>4, RenumberedFrom

\* With ids added again, a frozen edge comes back only when this very call lists
\* an end of it; and while the CSR ids are rows no original edge does.
THEOREM RevivalCorrect == Spec => OnlyReAddedNodesReviveEdges
<1> DEFINE I == TypeOK /\ LookupIsLiveRows /\ LocalIndexIsNewest /\ IndRows /\ IndHomes
                  /\ RowsDieWithTheirNodes
<1>1. ASSUME I, [Next]_vars, LookupIsLiveRows',
             NEW x \in ReaderView' \ ReaderView, x # nextSerial
      PROVE  /\ stable => x > Len(Rows)
             /\ \A e \in baseCsr' \cup DeltaEdges' : e.edge = x =>
                   {idAt[e.src], idAt[e.dst]} \cap (lookup' \ lookup) # {}
  <2>1. NodeStep /\ Revived(x)
        BY <1>1, StepKinds, NodeStepRevives, EdgeStepRevives, MergeStepRevives DEF IndRows
  <2>2. PICK e \in baseCsr \cup DeltaEdges :
           /\ e.edge = x
           /\ {idAt[e.src], idAt[e.dst]} \cap (lookup' \ lookup) # {}
           /\ e \in baseCsr /\ stable => RowIsLive(e.id)
        BY <2>1 DEF Revived
  <2>3. \A f \in baseCsr \cup DeltaEdges : f.edge = x => f = e
        BY <1>1, <2>2 DEF IndHomes, Numbered, OneHomePerEdge
  <2>4. baseCsr' = baseCsr /\ DeltaEdges' \subseteq DeltaEdges
        BY <2>1 DEF NodeStep, DeltaEdges, FrozenEdges
  <2>5. ASSUME stable PROVE x > Len(Rows)
    <3>1. CASE e \in DeltaEdges
      <4>1. e \in DeltaEdge /\ Len(Rows) \in Nat
            BY <1>1, <3>1, RowsAssumption DEF DeltaEdges, FrozenEdges, TypeOK
      <4>2. Len(Rows) < x /\ x \in Nat
            BY <1>1, <2>2, <3>1, <4>1 DEF IndHomes, Numbered, DeltaEdge, Serials
      <4>3. QED BY <4>1, <4>2
    <3>2. CASE e \in baseCsr
      <4>1. PICK r \in RowIds : /\ e.src = InitLocalOf[Rows[r].src]
                                /\ e.dst = InitLocalOf[Rows[r].dst] /\ e.id = r
            BY <1>1, <2>5, <3>2 DEF IndRows, FirstIndices, WrappedCsr
      <4>2. idAt[e.src] = Rows[r].src /\ idAt[e.dst] = Rows[r].dst
            BY <1>1, <4>1, RowEndsIndexed DEF IndRows, IndicesKept
      <4>3. {Rows[r].src, Rows[r].dst} \subseteq lookup
            BY <1>1, <2>2, <2>5, <3>2, <4>1 DEF RowsDieWithTheirNodes, RowIsLive
      <4>4. QED BY <2>2, <4>2, <4>3
    <3>3. QED BY <3>1, <3>2
  <2>6. QED BY <2>2, <2>3, <2>4, <2>5
<1>2. I /\ LookupIsLiveRows' =>
        [\A x \in (ReaderView' \ ReaderView) \ {nextSerial} :
            /\ stable => x > Len(Rows)
            /\ \A e \in baseCsr' \cup DeltaEdges' : e.edge = x =>
                  {idAt[e.src], idAt[e.dst]} \cap (lookup' \ lookup) # {}]_vars
        \/ ~[Next]_vars
      BY <1>1
<1>3. QED
      BY <1>2, TypeCorrect, LookupCorrect, LocalIndexCorrect, RowsInvariant, HomesInvariant,
         RowsCorrect, PTL DEF Spec, OnlyReAddedNodesReviveEdges

-----------------------------------------------------------------------------
(* A client that never adds a deleted id again. *)

\* Every index stands for an id that is listed or was deleted; without reuse no
\* id is both.
IndRetired ==
    /\ \A i \in DOMAIN idAt : idAt[i] \in lookup \cup retired
    /\ ReuseIds \/ lookup \cap retired = {}

LEMMA NextRetired ==
    TypeOK /\ LookupIsLiveRows /\ LocalIndexIsNewest /\ IndRetired /\ [Next]_vars => IndRetired'
<1> SUFFICES ASSUME TypeOK, LookupIsLiveRows, LocalIndexIsNewest, IndRetired, [Next]_vars
             PROVE  IndRetired'
    OBVIOUS
<1>1. ASSUME UNCHANGED <<lookup, idAt, retired>> PROVE IndRetired'
      BY <1>1 DEF IndRetired
<1>2. ASSUME EdgeStep PROVE IndRetired'
      BY <1>2 DEF EdgeStep, TableGrows, IndRetired
<1>3. ASSUME NEW batch \in SUBSET Ids, AddNodes(batch) PROVE IndRetired'
      BY <1>1, <1>3 DEF AddNodes, Publish, LookupIsLiveRows, IndRetired
<1>4. ASSUME NEW id \in Ids, DeleteNode(id) PROVE IndRetired'
  <2>1. CASE UNCHANGED <<lookup, idAt, retired>>
        BY <1>1, <2>1
  <2>2. CASE Unlist(id) /\ DropIncident(id)
    <3>1. lookup' = lookup \ {id} /\ retired' = retired \cup {id} /\ idAt' = idAt
          BY <1>4, <2>2, DropIncidentOnlyDrops DEF DeleteNode, Unlist
    <3>2. QED BY <3>1 DEF IndRetired
  <2>3. QED BY <1>4, <2>1, <2>2 DEF DeleteNode
<1>5. ASSUME NEW old \in Ids, NEW new \in Ids, UpdateNode(old, new) PROVE IndRetired'
  <2>1. CASE old \notin LiveNodes \/ new \in LiveNodes \ {old}
        BY <1>1, <1>5, <2>1 DEF UpdateNode
  <2>2. CASE old \in LiveNodes /\ new \notin LiveNodes \ {old}
    <3>1. /\ DropIncident(old) /\ idAt' = idAt
          /\ ReuseIds \/ new \notin retired \cup {old}
          /\ Unlist(old) \/ Publish((LiveNodes \ {old}) \cup {new})
          BY <1>5, <2>2 DEF UpdateNode
    <3>2. retired' = retired \cup {old}
          BY <3>1, DropIncidentOnlyDrops
    <3>3. lookup' = lookup \ {old} \/ lookup' = (lookup \ {old}) \cup {new}
          BY <3>1 DEF Unlist, Publish, LookupIsLiveRows
    <3>4. QED BY <3>1, <3>2, <3>3 DEF IndRetired
  <2>3. QED BY <2>1, <2>2
<1>6. ASSUME NEW row, DeleteEdge(row) PROVE IndRetired'
      BY <1>1, <1>6 DEF DeleteEdge
<1>7. ASSUME MergeStep PROVE IndRetired'
      BY <1>1, <1>7 DEF MergeStep
<1>8. CASE UNCHANGED vars
      BY <1>1, <1>8 DEF vars
<1>9. ASSUME NEW row, edgeLive' = [edgeLive EXCEPT ![row] = FALSE] PROVE RowsOnlyDie
      BY <1>9 DEF RowsOnlyDie, TypeOK
<1>10. ASSUME NEW s \in Ids, NEW d \in Ids, AddEdge(s, d) PROVE EdgeStep
       BY <1>10, AppendEdgeIsEdgeStep DEF AddEdge, RowsOnlyDie
<1>11. ASSUME NEW row, NEW s \in Ids, NEW d \in Ids,
              UpdateEdgeRow(row, s, d) \/ UpdateEdge(row, s, d)
       PROVE  IndRetired'
  <2>1. UNCHANGED <<nodeLive, lookup, baseCsr, stable, retired, graph>>
        BY <1>11 DEF UpdateEdgeRow, UpdateEdge
  <2>2. \/ UNCHANGED idAt
        \/ AppendEdge(s, d) /\ RowsOnlyDie
        BY <1>9, <1>11 DEF UpdateEdgeRow, UpdateEdge
  <2>3. QED BY <1>1, <1>2, <2>1, <2>2, AppendEdgeIsEdgeStep
<1>12. ASSUME Compact \/ Freeze PROVE MergeStep
       BY <1>12 DEF Compact, Freeze, MergeStep
<1>13. QED
       BY <1>2, <1>3, <1>4, <1>5, <1>6, <1>7, <1>8, <1>10, <1>11, <1>12 DEF Next, Mutate

LEMMA RetiredInvariant == Spec => []IndRetired
<1>1. Init => IndRetired
      BY LocalIdsAssumption DEF Init, IndRetired
<1>2. QED BY <1>1, NextRetired, TypeCorrect, LookupCorrect, LocalIndexCorrect, PTL DEF Spec

\* No index stands for an id that a call lists, if ids are not added again.
LEMMA NoIndexRevives ==
    ASSUME ReuseIds = FALSE, TypeOK, IndRetired, IndRetired', [Next]_vars,
           NEW i \in DOMAIN idAt
    PROVE  idAt[i] \notin lookup' \ lookup
<1>1. retired \subseteq retired'
      BY DEF Next, vars, Mutate, AddNodes, DeleteNode, UpdateNode, AddEdge, DeleteEdge,
             UpdateEdgeRow, UpdateEdge, Compact, Freeze, DropIncident
<1>2. QED BY <1>1 DEF IndRetired

\* What freeze would keep grows by the new edge at most, whatever the call.
LEMMA FreezeViewGains ==
    ASSUME ReuseIds = FALSE, TypeOK, LookupIsLiveRows, LookupIsLiveRows', LocalIndexIsNewest,
           IndRows, IndHomes, IndRetired, IndRetired', [Next]_vars
    PROVE  FreezeView' \subseteq FreezeView \cup {nextSerial}
<1>1. \A id : (IdIsLive(id) <=> id \in lookup) /\ (IdIsLive(id)' <=> id \in lookup')
      BY LiveIffListed DEF LookupIsLiveRows, IdIsLive, LiveNodes
<1>2. \A i \in DOMAIN idAt : idAt[i] \in lookup' => idAt[i] \in lookup
      BY NoIndexRevives
<1>3. RowsOnlyDie /\ TableGrows
      BY StepKinds DEF NodeStep, EdgeStep, MergeStep, RowsOnlyDie, TableGrows
<1>4. \A r \in RowIds : \A x \in {Rows[r].src, Rows[r].dst} : \E i \in DOMAIN idAt : x = idAt[i]
      BY RowEndsIndexed DEF IndRows, IndicesKept
<1>5. FreezeRows' \subseteq FreezeRows
  <2>1. SUFFICES ASSUME NEW r \in RowIds, edgeLive'[r],
                        {Rows[r].src, Rows[r].dst} \subseteq lookup'
        PROVE  r \in FreezeRows
        BY <1>1 DEF FreezeRows
  <2>2. {Rows[r].src, Rows[r].dst} \subseteq lookup
        BY <1>2, <1>4, <2>1
  <2>3. QED BY <1>1, <1>3, <2>1, <2>2 DEF RowsOnlyDie, FreezeRows
<1>6. \A e \in DeltaEdges' : e \in DeltaEdges \/ e.edge = nextSerial
  <2>1. CASE UNCHANGED frozen /\ pending' \subseteq pending
        BY <2>1 DEF DeltaEdges, FrozenEdges
  <2>2. ASSUME NEW e \in DeltaEdge, e.edge = nextSerial, Push(e)
        PROVE  DeltaEdges' = DeltaEdges \cup {e}
        BY <2>2, PushAdds
  <2>3. CASE MergeStep
        BY <2>3 DEF MergeStep, MergeDeltas, DeltaEdges, FrozenEdges
  <2>4. QED BY <2>1, <2>2, <2>3, StepKinds DEF NodeStep, EdgeStep
<1>7. ASSUME NEW e \in FreezeDelta', e \in DeltaEdges PROVE e \in FreezeDelta
  <2>1. e.src \in DOMAIN idAt /\ e.dst \in DOMAIN idAt
        BY <1>7, EndsIndexed DEF IndRows
  <2>2. idAt'[e.src] \in lookup' /\ idAt'[e.dst] \in lookup'
        BY <1>1, <1>7 DEF FreezeDelta
  <2>3. idAt[e.src] \in lookup /\ idAt[e.dst] \in lookup
        BY <1>2, <1>3, <2>1, <2>2 DEF TableGrows
  <2>4. QED BY <1>1, <1>7, <2>3 DEF FreezeDelta
<1>8. QED BY <1>5, <1>6, <1>7 DEF FreezeView, FreezeDelta

\* Without reuse no reader sees an edge again that it has lost, and freeze would
\* not return it: delete_node need not reach what is frozen, since the indices it
\* leaves behind stay dead.
THEOREM NoReuseCorrect == ReuseIds = FALSE => (Spec => NothingComesBack)
<1> SUFFICES ASSUME ReuseIds = FALSE PROVE Spec => NothingComesBack
    OBVIOUS
<1> DEFINE I == TypeOK /\ LookupIsLiveRows /\ LocalIndexIsNewest /\ IndRows /\ IndHomes
                  /\ IndRetired
<1>1. ASSUME I, [Next]_vars, LookupIsLiveRows', IndRetired'
      PROVE  /\ ReaderView' \subseteq ReaderView \cup {nextSerial}
             /\ FreezeView' \subseteq FreezeView \cup {nextSerial}
  <2>1. FreezeView' \subseteq FreezeView \cup {nextSerial}
        BY <1>1, FreezeViewGains
  <2>2. ASSUME NEW x \in ReaderView' \ ReaderView, x # nextSerial PROVE FALSE
    <3>1. Revived(x)
          BY <1>1, <2>2, StepKinds, NodeStepRevives, EdgeStepRevives, MergeStepRevives
          DEF IndRows
    <3>2. PICK e \in baseCsr \cup DeltaEdges :
             {idAt[e.src], idAt[e.dst]} \cap (lookup' \ lookup) # {}
          BY <3>1 DEF Revived
    <3>3. e.src \in DOMAIN idAt /\ e.dst \in DOMAIN idAt
          BY <1>1, EndsIndexed DEF IndRows
    <3>4. QED BY <1>1, <3>2, <3>3, NoIndexRevives
  <2>3. QED BY <2>1, <2>2
<1>2. I /\ LookupIsLiveRows' /\ IndRetired' =>
        [/\ ReaderView' \subseteq ReaderView \cup {nextSerial}
         /\ FreezeView' \subseteq FreezeView \cup {nextSerial}]_vars
        \/ ~[Next]_vars
      BY <1>1
<1>3. QED
      BY <1>2, TypeCorrect, LookupCorrect, LocalIndexCorrect, RowsInvariant, HomesInvariant,
         RetiredInvariant, PTL DEF Spec, NothingComesBack

-----------------------------------------------------------------------------
(* Calls that return an error. *)

\* When only the table of indices grows, the views stay; a row that is tombstoned
\* beside is lost to both of them, and only that row.
LEMMA GrowthKeepsViews ==
    ASSUME TypeOK, IndRows, IndHomes, TableGrows,
           UNCHANGED <<nodeLive, lookup, baseCsr, stable, pending, frozen>>
    PROVE  /\ edgeLive' = edgeLive => FreezeView' = FreezeView /\ ReaderView' = ReaderView
           /\ \A row \in RowIds : edgeLive' = [edgeLive EXCEPT ![row] = FALSE] =>
                 ReaderView' \subseteq ReaderView /\ FreezeView' = FreezeView \ {row}
<1>1. DeltaEdges' = DeltaEdges /\ \A id : IdIsLive(id)' <=> IdIsLive(id)
      BY DEF DeltaEdges, FrozenEdges, IdIsLive
<1>2. \A e \in baseCsr \cup DeltaEdges :
         /\ e.src \in DOMAIN idAt /\ e.dst \in DOMAIN idAt
         /\ idAt'[e.src] = idAt[e.src] /\ idAt'[e.dst] = idAt[e.dst]
         /\ BothEndsLive(e)' <=> BothEndsLive(e)
  <2>1. SUFFICES ASSUME NEW e \in baseCsr \cup DeltaEdges
        PROVE  /\ e.src \in DOMAIN idAt /\ e.dst \in DOMAIN idAt
               /\ idAt'[e.src] = idAt[e.src] /\ idAt'[e.dst] = idAt[e.dst]
               /\ BothEndsLive(e)' <=> BothEndsLive(e)
        OBVIOUS
  <2>2. e.src \in DOMAIN idAt /\ e.dst \in DOMAIN idAt
        BY EndsIndexed DEF IndRows
  <2>3. QED BY <2>2, GrowthKeepsLiveness DEF TableGrows, BothEndsLive
<1>3. FreezeDelta' = FreezeDelta
      BY <1>1, <1>2 DEF FreezeDelta
<1>4. ASSUME edgeLive' = edgeLive PROVE FreezeView' = FreezeView /\ ReaderView' = ReaderView
  <2>1. FreezeRows' = FreezeRows
        BY <1>1, <1>4 DEF FreezeRows
  <2>2. \A x : x \in Shown(baseCsr, stable)' <=> x \in Shown(baseCsr, stable)
        BY <1>2, <1>4 DEF Shown, RowIsLive
  <2>3. \A x : x \in ReaderView' <=> x \in ReaderView
        BY <1>1, <1>2, <2>2 DEF ReaderView
  <2>4. QED BY <1>3, <2>1, <2>3 DEF FreezeView
<1>5. ASSUME NEW row \in RowIds, edgeLive' = [edgeLive EXCEPT ![row] = FALSE]
      PROVE  ReaderView' \subseteq ReaderView /\ FreezeView' = FreezeView \ {row}
  <2>1. \A r \in RowIds : edgeLive'[r] <=> edgeLive[r] /\ r # row
        BY <1>5 DEF TypeOK
  <2>2. FreezeRows' = FreezeRows \ {row}
        BY <1>1, <2>1 DEF FreezeRows
  <2>3. \A e \in FreezeDelta : e.edge # row
    <3>1. Len(Rows) \in Nat
          BY RowsAssumption
    <3>2. \A e \in DeltaEdges : e \in DeltaEdge /\ Len(Rows) < e.edge
          BY DEF DeltaEdges, FrozenEdges, TypeOK, IndHomes, Numbered
    <3>3. QED BY <3>1, <3>2 DEF FreezeDelta, RowIds, DeltaEdge, Serials
  <2>4. FreezeView' = FreezeView \ {row}
        BY <1>3, <2>2, <2>3 DEF FreezeView
  <2>5. \A x : x \in Shown(baseCsr, stable)' => x \in Shown(baseCsr, stable)
        BY <1>2, <2>1 DEF Shown, RowIsLive
  <2>6. QED BY <1>1, <1>2, <2>4, <2>5 DEF ReaderView
<1>6. QED BY <1>4, <1>5

\* add_edge_row fails before it has an edge, though it may have given its source
\* an index.
LEMMA FailedAppend ==
    ASSUME TypeOK, LocalIndexIsNewest, NEW s \in Ids, NEW d \in Ids, AppendEdge(s, d),
           status' = "err"
    PROVE  ~(Resolvable(s) /\ Resolvable(d)) /\ UNCHANGED <<pending, frozen>> /\ TableGrows
<1>1. ~(Resolvable(s) /\ Resolvable(d)) /\ UNCHANGED <<pending, frozen>>
      BY DEF AppendEdge
<1>2. CASE ~Resolvable(s)
      BY <1>1, <1>2 DEF AppendEdge, TableGrows
<1>3. CASE Resolvable(s)
  <2>1. idAt' = WithSrc(s).at
        BY <1>1, <1>3 DEF AppendEdge
  <2>2. QED BY <1>1, <1>3, <2>1, WithBothNewest DEF TableGrows
<1>4. QED BY <1>2, <1>3, <1>1

\* An error of add_node, delete_node, update_node, add_edge, delete_edge or
\* update_edge is one without effect; update_edge_row has lost its row.
THEOREM FailuresCorrect == Spec => FailedCallLosesAtMostTheUpdatedRow
<1> DEFINE I == TypeOK /\ LocalIndexIsNewest /\ IndRows /\ IndHomes
           Lost == \/ FreezeView' = FreezeView /\ ReaderView' = ReaderView
                   \/ \E row \in RowIds, s, d \in Ids :
                         /\ UpdateEdgeRow(row, s, d)
                         /\ FreezeView' = FreezeView \ {row}
           Good == lookup' = lookup /\ ReaderView' \subseteq ReaderView /\ Lost
<1>1. ASSUME I, Next, status' = "err" PROVE Good
  <2>1. ASSUME UNCHANGED <<nodeLive, lookup, baseCsr, stable, pending, frozen, edgeLive>>,
               TableGrows
        PROVE  Good
        BY <1>1, <2>1, GrowthKeepsViews
  <2>2. idAt' = idAt => TableGrows
        BY DEF TableGrows
  <2>3. ASSUME NEW batch \in SUBSET Ids, AddNodes(batch) PROVE Good
        BY <1>1, <2>1, <2>2, <2>3 DEF AddNodes
  <2>4. \A id : ~DropIncident(id)
        BY <1>1 DEF DropIncident
  <2>5. ASSUME NEW id \in Ids, DeleteNode(id) PROVE Good
        BY <1>1, <2>1, <2>2, <2>4, <2>5 DEF DeleteNode
  <2>6. ASSUME NEW old \in Ids, NEW new \in Ids, UpdateNode(old, new) PROVE Good
        BY <1>1, <2>1, <2>2, <2>4, <2>6 DEF UpdateNode
  <2>7. ASSUME NEW s \in Ids, NEW d \in Ids, AddEdge(s, d) PROVE Good
        BY <1>1, <2>1, <2>7, FailedAppend DEF AddEdge
  <2>8. ASSUME NEW row, DeleteEdge(row) PROVE Good
        BY <1>1, <2>1, <2>2, <2>8 DEF DeleteEdge
  <2>9. ASSUME NEW row, NEW s \in Ids, NEW d \in Ids, UpdateEdgeRow(row, s, d) PROVE Good
    <3>1. CASE UNCHANGED <<edgeLive, localOf, idAt, pending, frozen, nextSerial>>
          BY <1>1, <2>1, <2>2, <2>9, <3>1 DEF UpdateEdgeRow
    <3>2. CASE /\ RowIsLive(row) /\ AppendEdge(s, d)
               /\ edgeLive' = [edgeLive EXCEPT ![row] = FALSE]
      <4>1. row \in RowIds
            BY <3>2 DEF RowIsLive
      <4>2. UNCHANGED <<nodeLive, lookup, baseCsr, stable>>
            BY <2>9 DEF UpdateEdgeRow
      <4>3. UNCHANGED <<pending, frozen>> /\ TableGrows
            BY <1>1, <3>2, FailedAppend
      <4>4. ReaderView' \subseteq ReaderView /\ FreezeView' = FreezeView \ {row}
            BY <1>1, <3>2, <4>1, <4>2, <4>3, GrowthKeepsViews
      <4>5. QED BY <2>9, <4>1, <4>2, <4>4
    <3>3. QED BY <2>9, <3>1, <3>2 DEF UpdateEdgeRow
  <2>10. ASSUME NEW row, NEW s \in Ids, NEW d \in Ids, UpdateEdge(row, s, d) PROVE Good
    <3>1. CASE UNCHANGED <<edgeLive, localOf, idAt, pending, frozen, nextSerial>>
          BY <1>1, <2>1, <2>2, <2>10, <3>1 DEF UpdateEdge
    <3>2. ~({s, d} \subseteq lookup /\ AppendEdge(s, d))
          BY <1>1, FailedAppend DEF Resolvable
    <3>3. QED BY <2>10, <3>1, <3>2 DEF UpdateEdge
  <2>11. ~Compact /\ ~Freeze
         BY <1>1, FreezeEdgesEnd DEF Compact, Freeze
  <2>12. QED
         BY <1>1, <2>3, <2>5, <2>6, <2>7, <2>8, <2>9, <2>10, <2>11 DEF Next, Mutate
<1>2. I => ([status' = "err" => Good]_vars \/ ~[Next]_vars)
      BY <1>1
<1>3. QED
      BY <1>2, TypeCorrect, LocalIndexCorrect, RowsInvariant, HomesInvariant, PTL
      DEF Spec, FailedCallLosesAtMostTheUpdatedRow

-----------------------------------------------------------------------------
(* MutableGraphFrame implements GraphStore: for a client that adds no id     *)
(* again and does not call compact, the tables, chunks, tombstones and       *)
(* indices come to a set of nodes and a set of edges.  Every step of the     *)
(* frame is a step of the store or none.                                     *)

-----------------------------------------------------------------------------
(* The edges of the store. *)

RowEdge(r)   == [edge |-> r, src |-> Rows[r].src, dst |-> Rows[r].dst]
DeltaView(e) == [edge |-> e.edge, src |-> idAt[e.src], dst |-> idAt[e.dst]]

\* What the store holds: the live rows and the delta edges between listed nodes.
LEMMA FreezeEdgesAre ==
    ASSUME LookupIsLiveRows
    PROVE  FreezeEdges =
              {RowEdge(r) : r \in {r \in RowIds : /\ edgeLive[r]
                                                  /\ {Rows[r].src, Rows[r].dst} \subseteq lookup}}
              \cup {DeltaView(e) : e \in {e \in DeltaEdges :
                                            {idAt[e.src], idAt[e.dst]} \subseteq lookup}}
<1>1. \A id : IdIsLive(id) <=> id \in lookup
      BY LiveIffListed
<1>2. /\ FreezeRows = {r \in RowIds : edgeLive[r] /\ {Rows[r].src, Rows[r].dst} \subseteq lookup}
      /\ FreezeDelta = {e \in DeltaEdges : {idAt[e.src], idAt[e.dst]} \subseteq lookup}
      BY <1>1 DEF FreezeRows, FreezeDelta
<1>3. QED BY <1>2 DEF FreezeEdges, RowEdge, DeltaView

\* The invariants of the frame that the refinement rests on.
IndStore ==
    /\ TypeOK /\ LookupIsLiveRows /\ LocalIndexIsNewest
    /\ IndRows /\ IndHomes /\ IndRetired /\ RowsDieWithTheirNodes

\* The ends of rows and delta edges are what some index stands for.
LEMMA EndsHaveIndex ==
    ASSUME IndStore
    PROVE  /\ \A r \in RowIds : \A x \in {Rows[r].src, Rows[r].dst} :
                 \E i \in DOMAIN idAt : x = idAt[i]
           /\ \A e \in DeltaEdges : e.src \in DOMAIN idAt /\ e.dst \in DOMAIN idAt
BY RowEndsIndexed DEF IndStore, IndRows, IndicesKept

\* A change of nodes under which every index of a node other than `gone` stays as
\* it was takes from the store what touches `gone`, if the rows and the buffer
\* lose nothing else.
LEMMA NodesChange ==
    ASSUME IndStore, LookupIsLiveRows', NEW gone,
           UNCHANGED idAt,
           \A i \in DOMAIN idAt : idAt[i] \in lookup' <=> idAt[i] \in lookup /\ idAt[i] # gone,
           \A r \in RowIds : gone \notin {Rows[r].src, Rows[r].dst}
                                => (edgeLive'[r] <=> edgeLive[r]),
           RowsOnlyDie, DeltaEdges' \subseteq DeltaEdges,
           \A e \in DeltaEdges : gone \notin {idAt[e.src], idAt[e.dst]} => e \in DeltaEdges'
    PROVE  FreezeEdges' = FreezeEdges \ {x \in FreezeEdges : gone \in {x.src, x.dst}}
<1> DEFINE F == {RowEdge(r) : r \in {r \in RowIds : /\ edgeLive[r]
                                                  /\ {Rows[r].src, Rows[r].dst} \subseteq lookup}}
           D == {DeltaView(e) : e \in {e \in DeltaEdges :
                                         {idAt[e.src], idAt[e.dst]} \subseteq lookup}}
           G == {RowEdge(r) : r \in {r \in RowIds : /\ edgeLive'[r]
                                                  /\ {Rows[r].src, Rows[r].dst} \subseteq lookup'}}
           E == {DeltaView(e) : e \in {e \in DeltaEdges' :
                                         {idAt[e.src], idAt[e.dst]} \subseteq lookup'}}
<1>1. FreezeEdges = F \cup D
      BY FreezeEdgesAre DEF IndStore
<1>2. FreezeEdges' = G \cup E
  <2>1. \A id : IdIsLive(id)' <=> id \in lookup'
        BY DEF LookupIsLiveRows, IdIsLive, LiveNodes
  <2>2. /\ FreezeRows' = {r \in RowIds : edgeLive'[r] /\ {Rows[r].src, Rows[r].dst} \subseteq lookup'}
        /\ FreezeDelta' = {e \in DeltaEdges' : {idAt[e.src], idAt[e.dst]} \subseteq lookup'}
        BY <2>1 DEF FreezeRows, FreezeDelta
  <2>3. QED BY <2>2 DEF FreezeEdges, RowEdge, DeltaView
<1>3. /\ \A r \in RowIds : {Rows[r].src, Rows[r].dst} \subseteq lookup'
            <=> {Rows[r].src, Rows[r].dst} \subseteq lookup /\ gone \notin {Rows[r].src, Rows[r].dst}
      /\ \A e \in DeltaEdges : {idAt[e.src], idAt[e.dst]} \subseteq lookup'
            <=> /\ {idAt[e.src], idAt[e.dst]} \subseteq lookup
                /\ gone \notin {idAt[e.src], idAt[e.dst]}
      BY EndsHaveIndex
<1>4. G = {x \in F : gone \notin {x.src, x.dst}}
  <2>1. \A r \in RowIds : edgeLive'[r] /\ {Rows[r].src, Rows[r].dst} \subseteq lookup'
           <=> /\ edgeLive[r] /\ {Rows[r].src, Rows[r].dst} \subseteq lookup
               /\ gone \notin {Rows[r].src, Rows[r].dst}
        BY <1>3 DEF RowsOnlyDie
  <2>2. \A r : RowEdge(r).src = Rows[r].src /\ RowEdge(r).dst = Rows[r].dst
        BY DEF RowEdge
  <2>3. QED BY <2>1, <2>2
<1>5. E = {x \in D : gone \notin {x.src, x.dst}}
  <2>1. \A e : e \in DeltaEdges' /\ {idAt[e.src], idAt[e.dst]} \subseteq lookup'
           <=> /\ e \in DeltaEdges /\ {idAt[e.src], idAt[e.dst]} \subseteq lookup
               /\ gone \notin {idAt[e.src], idAt[e.dst]}
        BY <1>3
  <2>2. \A e : DeltaView(e).src = idAt[e.src] /\ DeltaView(e).dst = idAt[e.dst]
        BY DEF DeltaView
  <2>3. QED BY <2>1, <2>2
<1> HIDE DEF F, D, G, E
<1>6. QED BY <1>1, <1>2, <1>4, <1>5

\* Nodes that no index stands for change nothing else.
LEMMA NodesCome ==
    ASSUME IndStore, LookupIsLiveRows', UNCHANGED <<idAt, edgeLive, pending, frozen>>,
           \A i \in DOMAIN idAt : idAt[i] \in lookup' <=> idAt[i] \in lookup
    PROVE  FreezeEdges' = FreezeEdges
<1>1. \A id : (IdIsLive(id) <=> id \in lookup) /\ (IdIsLive(id)' <=> id \in lookup')
      BY LiveIffListed DEF IndStore, LookupIsLiveRows, IdIsLive, LiveNodes
<1>2. DeltaEdges' = DeltaEdges
      BY DEF DeltaEdges, FrozenEdges
<1>3. FreezeDelta' = FreezeDelta
      BY <1>1, <1>2, EndsHaveIndex DEF FreezeDelta
<1>4. FreezeRows' = FreezeRows
      BY <1>1, EndsHaveIndex DEF FreezeRows
<1>5. QED BY <1>3, <1>4 DEF FreezeEdges

\* Deleting a node takes its edges, wherever they are, and no others.
LEMMA DropIncidentTakes ==
    ASSUME IndStore, LookupIsLiveRows', stable, NEW id, DropIncident(id),
           UNCHANGED <<idAt, frozen>>,
           \A i \in DOMAIN idAt : idAt[i] \in lookup' <=> idAt[i] \in lookup /\ idAt[i] # id
    PROVE  FreezeEdges' = FreezeEdges \ {x \in FreezeEdges : id \in {x.src, x.dst}}
<1>1. id \in DOMAIN localOf => idAt[localOf[id]] = id
      BY DEF IndStore, LocalIndexIsNewest
<1>2. ASSUME NEW r \in TombstonedBy(id) PROVE r \in RowIds => id \in {Rows[r].src, Rows[r].dst}
  <2>1. id \in DOMAIN localOf /\ (r \in TombstonedOut(localOf[id]) \/ r \in InRowIds(localOf[id]))
        BY <1>2 DEF TombstonedBy
  <2>2. CASE r \in TombstonedOut(localOf[id])
    <3>1. PICK e \in dataCsr : e.src = localOf[id] /\ e.id = r
          BY <2>2 DEF TombstonedOut, OutEntries
    <3>2. PICK q \in RowIds : e.src = InitLocalOf[Rows[q].src] /\ e.id = q
          BY DEF IndStore, IndRows, FirstIndices, WrappedCsr
    <3>3. idAt[e.src] = Rows[q].src
          BY <3>2, RowEndsIndexed DEF IndStore, IndRows, IndicesKept
    <3>4. QED BY <1>1, <2>1, <3>1, <3>2, <3>3
  <2>3. CASE r \in InRowIds(localOf[id])
    <3>1. /\ r \in RowIds /\ localOf[id] \in DOMAIN InitLocalIds
          /\ Rows[r].dst = InitLocalIds[localOf[id]]
          BY <2>3 DEF InRowIds
    <3>2. idAt[localOf[id]] = InitLocalIds[localOf[id]]
          BY <3>1 DEF IndStore, IndRows, IndicesKept
    <3>3. QED BY <1>1, <2>1, <3>1, <3>2
  <2>4. QED BY <2>1, <2>2, <2>3
<1>3. \A r \in RowIds : edgeLive'[r] <=> edgeLive[r] /\ r \notin TombstonedBy(id)
  <2>1. edgeLive' = [r \in RowIds |-> edgeLive[r] /\ r \notin TombstonedBy(id)]
        BY DEF DropIncident
  <2>2. QED BY <2>1
<1>4. /\ pending' \subseteq pending
      /\ \A e \in pending : e \notin pending' =>
            id \in DOMAIN localOf /\ localOf[id] \in {e.src, e.dst}
      BY DEF DropIncident
<1>5. /\ DeltaEdges' \subseteq DeltaEdges
      /\ \A e \in DeltaEdges : id \notin {idAt[e.src], idAt[e.dst]} => e \in DeltaEdges'
      BY <1>1, <1>4 DEF DeltaEdges, FrozenEdges
<1>6. RowsOnlyDie
      BY <1>3 DEF RowsOnlyDie
<1>7. QED BY <1>2, <1>3, <1>5, <1>6, NodesChange

\* The edges that a row's tombstone and an appended edge leave.
LEMMA EdgesChange ==
    ASSUME IndStore, TableGrows, UNCHANGED <<nodeLive, lookup>>,
           NEW dead, \A r \in RowIds : edgeLive'[r] <=> edgeLive[r] /\ r \notin dead,
           dead \subseteq RowIds,
           NEW new, DeltaEdges' = DeltaEdges \cup new,
           \A e \in new : {idAt'[e.src], idAt'[e.dst]} \subseteq lookup
    PROVE  FreezeEdges' = {x \in FreezeEdges : x.edge \notin dead}
                             \cup {[edge |-> e.edge, src |-> idAt'[e.src], dst |-> idAt'[e.dst]] :
                                      e \in new}
<1> DEFINE rows == {r \in RowIds : edgeLive[r] /\ {Rows[r].src, Rows[r].dst} \subseteq lookup}
           left == {r \in RowIds : edgeLive'[r] /\ {Rows[r].src, Rows[r].dst} \subseteq lookup}
           kept == {e \in DeltaEdges : {idAt[e.src], idAt[e.dst]} \subseteq lookup}
           view(e) == [edge |-> e.edge, src |-> idAt'[e.src], dst |-> idAt'[e.dst]]
<1>1. FreezeEdges = {RowEdge(r) : r \in rows} \cup {DeltaView(e) : e \in kept}
      BY FreezeEdgesAre DEF IndStore
<1>2. \A e \in DeltaEdges : idAt'[e.src] = idAt[e.src] /\ idAt'[e.dst] = idAt[e.dst]
      BY EndsHaveIndex DEF TableGrows
<1>3. FreezeEdges' = {RowEdge(r) : r \in left} \cup {view(e) : e \in kept \cup new}
  <2>1. \A id : IdIsLive(id)' <=> id \in lookup
        BY LiveIffListed DEF IndStore, IdIsLive
  <2>2. FreezeRows' = left
        BY <2>1 DEF FreezeRows
  <2>3. FreezeDelta' = kept \cup new
        BY <1>2, <2>1 DEF FreezeDelta
  <2>4. FreezeEdges' = {RowEdge(r) : r \in FreezeRows'} \cup {view(e) : e \in FreezeDelta'}
        BY DEF FreezeEdges, RowEdge
  <2>5. QED BY <2>2, <2>3, <2>4
<1>4. \A e \in kept : view(e) = DeltaView(e)
      BY <1>2 DEF DeltaView
<1>5. left = {r \in rows : r \notin dead}
      OBVIOUS
<1>6. \A e \in kept : DeltaView(e).edge \notin dead
  <2>1. Len(Rows) \in Nat /\ \A e \in kept : e \in DeltaEdge /\ Len(Rows) < e.edge
        BY RowsAssumption DEF IndStore, IndHomes, Numbered, TypeOK, DeltaEdges, FrozenEdges
  <2>2. QED BY <2>1 DEF RowIds, DeltaView, DeltaEdge, Serials
<1>7. \A r : RowEdge(r).edge = r
      BY DEF RowEdge
<1> HIDE DEF rows, left, kept, view
<1>8. {x \in FreezeEdges : x.edge \notin dead} =
         {RowEdge(r) : r \in left} \cup {DeltaView(e) : e \in kept}
      BY <1>1, <1>5, <1>6, <1>7
<1>9. FreezeEdges' = {x \in FreezeEdges : x.edge \notin dead} \cup {view(e) : e \in new}
      BY <1>3, <1>4, <1>8
<1>10. QED BY <1>9 DEF view

\* Rows tombstoned, and nothing appended.
LEMMA RowsGo ==
    ASSUME IndStore, TableGrows, UNCHANGED <<nodeLive, lookup, pending, frozen>>,
           NEW dead \in SUBSET RowIds,
           \A r \in RowIds : edgeLive'[r] <=> edgeLive[r] /\ r \notin dead
    PROVE  FreezeEdges' = {x \in FreezeEdges : x.edge \notin dead}
<1> DEFINE new == {}
           views == {[edge |-> e.edge, src |-> idAt'[e.src], dst |-> idAt'[e.dst]] : e \in new}
<1>1. /\ DeltaEdges' = DeltaEdges \cup new
      /\ \A e \in new : {idAt'[e.src], idAt'[e.dst]} \subseteq lookup
      BY DEF DeltaEdges, FrozenEdges
<1>2. views = {}
      OBVIOUS
<1> HIDE DEF new
<1>3. FreezeEdges' = {x \in FreezeEdges : x.edge \notin dead} \cup views
      BY <1>1, EdgesChange
<1>4. QED BY <1>2, <1>3

\* Neither tombstones nor an append: an index may be new.
LEMMA EdgesStay ==
    ASSUME IndStore, TableGrows, UNCHANGED <<nodeLive, lookup, pending, frozen, edgeLive>>
    PROVE  FreezeEdges' = FreezeEdges
<1> DEFINE dead == {}
<1>1. /\ dead \in SUBSET RowIds
      /\ \A r \in RowIds : edgeLive'[r] <=> edgeLive[r] /\ r \notin dead
      OBVIOUS
<1>2. {x \in FreezeEdges : x.edge \notin dead} = FreezeEdges
      OBVIOUS
<1> HIDE DEF dead
<1>3. FreezeEdges' = {x \in FreezeEdges : x.edge \notin dead}
      BY <1>1, RowsGo
<1>4. QED BY <1>2, <1>3

\* One edge appended, in place of the rows tombstoned.
LEMMA EdgeComes ==
    ASSUME IndStore, TableGrows, UNCHANGED <<nodeLive, lookup>>,
           NEW dead \in SUBSET RowIds,
           \A r \in RowIds : edgeLive'[r] <=> edgeLive[r] /\ r \notin dead,
           NEW e, DeltaEdges' = DeltaEdges \cup {e},
           {idAt'[e.src], idAt'[e.dst]} \subseteq lookup
    PROVE  FreezeEdges' = {x \in FreezeEdges : x.edge \notin dead}
                    \cup {[edge |-> e.edge, src |-> idAt'[e.src], dst |-> idAt'[e.dst]]}
<1> DEFINE new == {e}
           views == {[edge |-> f.edge, src |-> idAt'[f.src], dst |-> idAt'[f.dst]] : f \in new}
<1>1. /\ DeltaEdges' = DeltaEdges \cup new
      /\ \A f \in new : {idAt'[f.src], idAt'[f.dst]} \subseteq lookup
      OBVIOUS
<1>2. views = {[edge |-> e.edge, src |-> idAt'[e.src], dst |-> idAt'[e.dst]]}
      OBVIOUS
<1> HIDE DEF new
<1>3. FreezeEdges' = {x \in FreezeEdges : x.edge \notin dead} \cup views
      BY <1>1, EdgesChange
<1>4. QED BY <1>2, <1>3

\* How add_edge_row ends: without an edge, or with one between its two ids.
LEMMA AppendOutcome ==
    ASSUME IndStore, NEW s \in Ids, NEW d \in Ids, AppendEdge(s, d)
    PROVE  /\ TableGrows
           /\ \/ UNCHANGED <<pending, frozen, nextSerial>>
              \/ /\ {s, d} \subseteq lookup /\ nextSerial \in Serials
                 /\ nextSerial' = nextSerial + 1
                 /\ \E e \in DeltaEdge :
                       /\ e.edge = nextSerial /\ DeltaEdges' = DeltaEdges \cup {e}
                       /\ idAt'[e.src] = s /\ idAt'[e.dst] = d
<1> DEFINE two == WithBoth(s, d)
           e == [src |-> two.of[s], dst |-> two.of[d], edge |-> nextSerial]
<1> USE DEF IndStore
<1>1. CASE ~Resolvable(s)
      BY <1>1 DEF AppendEdge, TableGrows
<1>2. CASE Resolvable(s) /\ ~Resolvable(d)
      BY <1>2, WithBothNewest DEF AppendEdge, TableGrows
<1>3. CASE Resolvable(s) /\ Resolvable(d)
  <2>1. /\ idAt' = two.at /\ Push(e) /\ nextSerial' = nextSerial + 1
        /\ nextSerial <= MaxSerial /\ Len(two.at) <= MaxLocalIdx
        BY <1>3 DEF AppendEdge
  <2>2. /\ Newest(two, lookup)
        /\ \A i \in DOMAIN idAt : i \in DOMAIN two.at /\ two.at[i] = idAt[i]
        BY <1>3, WithBothNewest
  <2>3. /\ two.at \in Seq(Ids) /\ DOMAIN two.of = DOMAIN localOf \cup {s, d}
        /\ two.of \in [DOMAIN two.of -> DOMAIN two.at]
        BY WithBothTyped
  <2>4. {s, d} \subseteq lookup /\ two.at[two.of[s]] = s /\ two.at[two.of[d]] = d
        BY <2>2, <2>3 DEF Newest
  <2>5. nextSerial \in Serials
    <3>1. Len(Rows) \in Nat
          BY RowsAssumption
    <3>2. QED BY <2>1, <3>1, BoundsAssumption DEF TypeOK, Serials
  <2> HIDE DEF two
  <2>6. DOMAIN two.at \subseteq LocalIdxs
        BY <2>1, <2>3, BoundsAssumption DEF LocalIdxs
  <2>7. e \in DeltaEdge
        BY <2>3, <2>5, <2>6 DEF DeltaEdge
  <2>8. DeltaEdges' = DeltaEdges \cup {e}
        BY <2>1, <2>7, PushAdds
  <2>9. TableGrows
        BY <2>1, <2>2 DEF TableGrows
  <2>10. QED BY <2>1, <2>4, <2>5, <2>7, <2>8, <2>9
<1>4. QED BY <1>1, <1>2, <1>3

-----------------------------------------------------------------------------
(* Steps. *)

\* A call before freeze: what the store holds is what freeze would keep.
LEMMA OpenEdges ==
    ASSUME ~graph.made, graph' = graph
    PROVE  /\ (IF graph.made THEN graph.edges ELSE FreezeEdges) = FreezeEdges
           /\ (IF graph.made THEN graph.edges ELSE FreezeEdges)' = FreezeEdges'
OBVIOUS

StoreUnchanged ==
    UNCHANGED <<lookup, IF graph.made THEN graph.edges ELSE FreezeEdges, nextSerial, graph>>

\* Adding nodes inserts them.
LEMMA AddNodesStep ==
    ASSUME IndStore, LookupIsLiveRows', IndRetired', ReuseIds = FALSE,
           NEW batch \in SUBSET Ids, AddNodes(batch), [Next]_vars
    PROVE  Store!StoreNext \/ StoreUnchanged
<1>1. /\ ~graph.made
      /\ UNCHANGED <<idAt, edgeLive, pending, frozen, nextSerial, graph>>
      BY DEF AddNodes, Call
<1>2. CASE UNCHANGED <<nodeLive, lookup>>
  <2>1. FreezeEdges' = FreezeEdges
        BY <1>1, <1>2, NodesCome
  <2>2. QED BY <1>1, <1>2, <2>1, OpenEdges DEF StoreUnchanged
<1>3. CASE batch \cap LiveNodes = {} /\ Publish(LiveNodes \cup batch)
  <2>1. batch \cap lookup = {} /\ lookup' = lookup \cup batch
        BY <1>3 DEF Publish, IndStore, LookupIsLiveRows
  <2>2. \A i \in DOMAIN idAt : idAt[i] \in lookup' <=> idAt[i] \in lookup
        BY <2>1, NoIndexRevives DEF IndStore
  <2>3. FreezeEdges' = FreezeEdges
        BY <1>1, <2>2, NodesCome
  <2>4. Store!InsertNodes(batch)
        BY <1>1, <2>1, <2>3, OpenEdges DEF Store!InsertNodes, Store!Open
  <2>5. QED BY <2>4 DEF Store!StoreNext
<1>4. QED BY <1>2, <1>3 DEF AddNodes

\* delete_node removes the node and its edges: rows, buffered and frozen.
LEMMA DeleteNodeStep ==
    ASSUME IndStore, LookupIsLiveRows', stable, NEW id \in Ids, DeleteNode(id)
    PROVE  Store!StoreNext \/ StoreUnchanged
<1>1. ~graph.made /\ UNCHANGED <<idAt, frozen, nextSerial, graph>>
      BY DEF DeleteNode, Call
<1>2. CASE UNCHANGED <<nodeLive, lookup, localOf, edgeLive, pending>>
  <2>1. FreezeEdges' = FreezeEdges
        BY <1>1, <1>2, NodesCome
  <2>2. QED BY <1>1, <1>2, <2>1, OpenEdges DEF StoreUnchanged
<1>3. CASE id \in lookup /\ Unlist(id) /\ DropIncident(id)
  <2>1. lookup' = lookup \ {id}
        BY <1>3 DEF Unlist
  <2>2. FreezeEdges' = FreezeEdges \ {x \in FreezeEdges : id \in {x.src, x.dst}}
        BY <1>1, <1>3, <2>1, DropIncidentTakes
  <2>3. Store!RemoveNode(id)
        BY <1>1, <1>3, <2>1, <2>2, OpenEdges DEF Store!RemoveNode, Store!Open, Store!Touching
  <2>4. QED BY <2>3 DEF Store!StoreNext
<1>4. QED BY <1>2, <1>3 DEF DeleteNode

\* update_node replaces the node, without its edges; a panic would remove it.
LEMMA UpdateNodeStep ==
    ASSUME IndStore, LookupIsLiveRows', IndRetired', ReuseIds = FALSE, stable,
           NEW old \in Ids, NEW new \in Ids, UpdateNode(old, new), [Next]_vars
    PROVE  Store!StoreNext \/ StoreUnchanged
<1>1. ~graph.made /\ new # old /\ UNCHANGED <<idAt, frozen, nextSerial, graph>>
      BY DEF UpdateNode, Call
<1>2. CASE UNCHANGED <<nodeLive, lookup, localOf, edgeLive, pending>>
  <2>1. FreezeEdges' = FreezeEdges
        BY <1>1, <1>2, NodesCome
  <2>2. QED BY <1>1, <1>2, <2>1, OpenEdges DEF StoreUnchanged
<1>3. CASE old \in LiveNodes /\ new \notin LiveNodes \ {old} /\ DropIncident(old)
  <2>1. old \in lookup /\ new \notin lookup
        BY <1>1, <1>3 DEF IndStore, LookupIsLiveRows
  <2>2. \/ lookup' = lookup \ {old}
        \/ lookup' = (lookup \ {old}) \cup {new}
    <3>1. ~(old \notin LiveNodes \/ new \in LiveNodes \ {old})
          BY <1>3
    <3>2. Unlist(old) \/ Publish((LiveNodes \ {old}) \cup {new})
          BY <3>1 DEF UpdateNode
    <3>3. QED BY <3>2 DEF Unlist, Publish, IndStore, LookupIsLiveRows
  <2>3. \A i \in DOMAIN idAt : idAt[i] \in lookup' <=> idAt[i] \in lookup /\ idAt[i] # old
        BY <1>1, <2>2, NoIndexRevives DEF IndStore
  <2>4. FreezeEdges' = FreezeEdges \ {x \in FreezeEdges : old \in {x.src, x.dst}}
        BY <1>1, <1>3, <2>3, DropIncidentTakes
  <2>5. CASE lookup' = lookup \ {old}
    <3>1. Store!RemoveNode(old)
          BY <1>1, <2>1, <2>4, <2>5, OpenEdges DEF Store!RemoveNode, Store!Open, Store!Touching
    <3>2. QED BY <3>1 DEF Store!StoreNext
  <2>6. CASE lookup' = (lookup \ {old}) \cup {new}
    <3>1. Store!ReplaceNode(old, new)
          BY <1>1, <2>1, <2>4, <2>6, OpenEdges DEF Store!ReplaceNode, Store!Open, Store!Touching
    <3>2. QED BY <3>1 DEF Store!StoreNext
  <2>7. QED BY <2>2, <2>5, <2>6
<1>4. QED BY <1>2, <1>3 DEF UpdateNode

\* add_edge inserts an edge under a new name, or fails without effect.
LEMMA AddEdgeStep ==
    ASSUME IndStore, NEW s \in Ids, NEW d \in Ids, AddEdge(s, d)
    PROVE  Store!StoreNext \/ StoreUnchanged
<1>1. ~graph.made /\ UNCHANGED <<nodeLive, lookup, edgeLive, graph>> /\ AppendEdge(s, d)
      BY DEF AddEdge, Call
<1>2. /\ TableGrows
      /\ \/ UNCHANGED <<pending, frozen, nextSerial>>
         \/ /\ {s, d} \subseteq lookup /\ nextSerial \in Serials
            /\ nextSerial' = nextSerial + 1
            /\ \E e \in DeltaEdge :
                  /\ e.edge = nextSerial /\ DeltaEdges' = DeltaEdges \cup {e}
                  /\ idAt'[e.src] = s /\ idAt'[e.dst] = d
      BY <1>1, AppendOutcome
<1>3. CASE UNCHANGED <<pending, frozen, nextSerial>>
  <2>1. FreezeEdges' = FreezeEdges
        BY <1>1, <1>2, <1>3, EdgesStay
  <2>2. QED BY <1>1, <1>3, <2>1, OpenEdges DEF StoreUnchanged
<1>4. ASSUME NEW e \in DeltaEdge, e.edge = nextSerial, DeltaEdges' = DeltaEdges \cup {e},
             idAt'[e.src] = s, idAt'[e.dst] = d, {s, d} \subseteq lookup,
             nextSerial \in Serials, nextSerial' = nextSerial + 1
      PROVE  Store!StoreNext
  <2> DEFINE f == [edge |-> nextSerial, src |-> s, dst |-> d]
           dead == {}
  <2>1. /\ dead \in SUBSET RowIds
        /\ \A r \in RowIds : edgeLive'[r] <=> edgeLive[r] /\ r \notin dead
        /\ {x \in FreezeEdges : x.edge \notin dead} = FreezeEdges
        BY <1>1
  <2> HIDE DEF dead
  <2>2. FreezeEdges' = FreezeEdges \cup {f}
    <3>1. FreezeEdges' = {x \in FreezeEdges : x.edge \notin dead}
                 \cup {[edge |-> e.edge, src |-> idAt'[e.src], dst |-> idAt'[e.dst]]}
          BY <1>1, <1>2, <1>4, <2>1, EdgeComes
    <3>2. QED BY <1>4, <2>1, <3>1
  <2>3. 1..(nextSerial' - 1) = (1..(nextSerial - 1)) \cup {nextSerial}
        BY <1>4 DEF Serials
  <2>4. f.edge \notin 1..(nextSerial - 1)
        BY <1>4 DEF Serials
  <2>5. f \in Store!NewEdges
        BY <1>4 DEF Store!NewEdges, Serials
  <2>6. /\ f.src = s /\ f.dst = d /\ f.edge = nextSerial
        OBVIOUS
  <2> HIDE DEF f
  <2>7. Store!InsertEdge(f)
        BY <1>1, <1>4, <2>2, <2>3, <2>4, <2>6, OpenEdges DEF Store!InsertEdge, Store!Open
  <2>8. QED BY <2>5, <2>7 DEF Store!StoreNext
<1>5. QED BY <1>2, <1>3, <1>4

\* The store has one edge of the name of a row at most, the row's own.
LEMMA RowName ==
    ASSUME IndStore, NEW row \in RowIds, NEW x \in FreezeEdges, x.edge = row
    PROVE  x = RowEdge(row)
<1>1. \A r : RowEdge(r).edge = r
      BY DEF RowEdge
<1>2. \A e \in DeltaEdges : DeltaView(e).edge # row
  <2>1. Len(Rows) \in Nat /\ \A e \in DeltaEdges : e \in DeltaEdge /\ Len(Rows) < e.edge
        BY RowsAssumption DEF IndStore, IndHomes, Numbered, TypeOK, DeltaEdges, FrozenEdges
  <2>2. QED BY <2>1 DEF RowIds, DeltaView, DeltaEdge, Serials
<1>3. QED BY <1>1, <1>2, FreezeEdgesAre DEF IndStore

\* delete_edge removes the edge of its row, if the store still has it.
LEMMA DeleteEdgeStep ==
    ASSUME IndStore, NEW row, DeleteEdge(row)
    PROVE  Store!StoreNext \/ StoreUnchanged
<1>1. /\ ~graph.made
      /\ UNCHANGED <<nodeLive, lookup, idAt, pending, frozen, nextSerial, graph>>
      BY DEF DeleteEdge, Call
<1>2. TableGrows
      BY <1>1 DEF TableGrows
<1>3. CASE UNCHANGED edgeLive
  <2>1. FreezeEdges' = FreezeEdges
        BY <1>1, <1>2, <1>3, EdgesStay
  <2>2. QED BY <1>1, <2>1, OpenEdges DEF StoreUnchanged
<1>4. CASE row \in RowIds /\ edgeLive' = [edgeLive EXCEPT ![row] = FALSE]
  <2>1. \A r \in RowIds : edgeLive'[r] <=> edgeLive[r] /\ r \notin {row}
        BY <1>4 DEF IndStore, TypeOK
  <2>2. FreezeEdges' = {x \in FreezeEdges : x.edge \notin {row}}
    <3> DEFINE dead == {row}
    <3>1. /\ dead \in SUBSET RowIds
          /\ \A r \in RowIds : edgeLive'[r] <=> edgeLive[r] /\ r \notin dead
          BY <1>4, <2>1
    <3> HIDE DEF dead
    <3>2. FreezeEdges' = {x \in FreezeEdges : x.edge \notin dead}
          BY <1>1, <1>2, <3>1, RowsGo
    <3>3. QED BY <3>2 DEF dead
  <2>3. CASE RowEdge(row) \in FreezeEdges
    <3>1. \A x \in FreezeEdges : x.edge = row <=> x = RowEdge(row)
          BY <1>4, RowName DEF RowEdge
    <3>2. FreezeEdges' = FreezeEdges \ {RowEdge(row)}
          BY <2>2, <3>1
    <3>3. Store!RemoveEdge(RowEdge(row))
          BY <1>1, <2>3, <3>2, OpenEdges DEF Store!RemoveEdge, Store!Open
    <3>4. QED BY <1>1, <2>3, <3>3, OpenEdges DEF Store!StoreNext
  <2>4. CASE RowEdge(row) \notin FreezeEdges
    <3>1. \A x \in FreezeEdges : x.edge # row
          BY <1>4, <2>4, RowName
    <3>2. FreezeEdges' = FreezeEdges
          BY <2>2, <3>1
    <3>3. QED BY <1>1, <3>2, OpenEdges DEF StoreUnchanged
  <2>5. QED BY <2>3, <2>4
<1>5. QED BY <1>3, <1>4 DEF DeleteEdge

\* Replacing a row's edge is one step of the store; when the replacement is
\* refused, what is left is the removal of the old one.
LEMMA EdgeReplaced ==
    ASSUME IndStore, stable, ~graph.made, NEW row, RowIsLive(row),
           edgeLive' = [edgeLive EXCEPT ![row] = FALSE],
           NEW s \in Ids, NEW d \in Ids, AppendEdge(s, d),
           UNCHANGED <<nodeLive, lookup, graph>>
    PROVE  Store!StoreNext
<1> DEFINE dead == {row}
<1>1. row \in RowIds /\ edgeLive[row]
      BY DEF RowIsLive
<1>2. /\ TableGrows
      /\ \/ UNCHANGED <<pending, frozen, nextSerial>>
         \/ /\ {s, d} \subseteq lookup /\ nextSerial \in Serials
            /\ nextSerial' = nextSerial + 1
            /\ \E e \in DeltaEdge :
                  /\ e.edge = nextSerial /\ DeltaEdges' = DeltaEdges \cup {e}
                  /\ idAt'[e.src] = s /\ idAt'[e.dst] = d
      BY AppendOutcome
<1>3. RowEdge(row) \in FreezeEdges
  <2>1. {Rows[row].src, Rows[row].dst} \subseteq lookup
        BY <1>1 DEF IndStore, RowsDieWithTheirNodes
  <2>2. QED BY <1>1, <2>1, FreezeEdgesAre DEF IndStore
<1>4. \A x \in FreezeEdges : x.edge = row <=> x = RowEdge(row)
      BY <1>1, RowName DEF RowEdge
<1>5. /\ dead \in SUBSET RowIds
      /\ \A r \in RowIds : edgeLive'[r] <=> edgeLive[r] /\ r \notin dead
      /\ {x \in FreezeEdges : x.edge \notin dead} = FreezeEdges \ {RowEdge(row)}
      BY <1>1, <1>4 DEF IndStore, TypeOK
<1> HIDE DEF dead
<1>6. CASE UNCHANGED <<pending, frozen, nextSerial>>
  <2>1. FreezeEdges' = FreezeEdges \ {RowEdge(row)}
        BY <1>2, <1>5, <1>6, RowsGo
  <2>2. Store!RemoveEdge(RowEdge(row))
        BY <1>3, <1>6, <2>1, OpenEdges DEF Store!RemoveEdge, Store!Open
  <2>3. QED BY <1>3, <2>2, OpenEdges DEF Store!StoreNext
<1>7. ASSUME NEW e \in DeltaEdge, e.edge = nextSerial, DeltaEdges' = DeltaEdges \cup {e},
             idAt'[e.src] = s, idAt'[e.dst] = d, {s, d} \subseteq lookup,
             nextSerial \in Serials, nextSerial' = nextSerial + 1
      PROVE  Store!StoreNext
  <2> DEFINE f == [edge |-> nextSerial, src |-> s, dst |-> d]
  <2>1. FreezeEdges' = (FreezeEdges \ {RowEdge(row)}) \cup {f}
    <3>1. FreezeEdges' = {x \in FreezeEdges : x.edge \notin dead}
                 \cup {[edge |-> e.edge, src |-> idAt'[e.src], dst |-> idAt'[e.dst]]}
          BY <1>2, <1>5, <1>7, EdgeComes
    <3>2. QED BY <1>5, <1>7, <3>1
  <2>2. 1..(nextSerial' - 1) = (1..(nextSerial - 1)) \cup {nextSerial}
        BY <1>7 DEF Serials
  <2>3. f.edge \notin 1..(nextSerial - 1)
        BY <1>7 DEF Serials
  <2>4. f \in Store!NewEdges
        BY <1>7 DEF Store!NewEdges, Serials
  <2>5. f.src = s /\ f.dst = d /\ f.edge = nextSerial
        OBVIOUS
  <2> HIDE DEF f
  <2>6. Store!ReplaceEdge(RowEdge(row), f)
        BY <1>3, <1>7, <2>1, <2>2, <2>3, <2>5, OpenEdges DEF Store!ReplaceEdge, Store!Open
  <2>7. QED BY <1>3, <2>4, <2>6, OpenEdges DEF Store!StoreNext
<1>8. QED BY <1>2, <1>6, <1>7

\* update_edge_row and update_edge, refused before or after the tombstone, or not.
LEMMA UpdateEdgeStep ==
    ASSUME IndStore, stable, NEW row, NEW s \in Ids, NEW d \in Ids,
           UpdateEdgeRow(row, s, d) \/ UpdateEdge(row, s, d)
    PROVE  Store!StoreNext \/ StoreUnchanged
<1>1. ~graph.made /\ UNCHANGED <<nodeLive, lookup, graph>>
      BY DEF UpdateEdgeRow, UpdateEdge, Call
<1>2. CASE UNCHANGED <<edgeLive, localOf, idAt, pending, frozen, nextSerial>>
  <2>1. TableGrows
        BY <1>2 DEF TableGrows
  <2>2. FreezeEdges' = FreezeEdges
        BY <1>1, <1>2, <2>1, EdgesStay
  <2>3. QED BY <1>1, <1>2, <2>2, OpenEdges DEF StoreUnchanged
<1>3. CASE RowIsLive(row) /\ edgeLive' = [edgeLive EXCEPT ![row] = FALSE] /\ AppendEdge(s, d)
      BY <1>1, <1>3, EdgeReplaced
<1>4. QED BY <1>2, <1>3 DEF UpdateEdgeRow, UpdateEdge

\* freeze closes the store: what it returns is what the store held.
LEMMA FreezeStep ==
    ASSUME IndStore, Freeze
    PROVE  Store!StoreNext
<1>1. /\ ~graph.made /\ UNCHANGED <<lookup, nextSerial>>
      /\ graph' = [made |-> TRUE, nodes |-> lookup, edges |-> FreezeEdges]
      BY DEF Freeze, Call, IndStore, LookupIsLiveRows
<1>2. graph'.made /\ graph'.edges = FreezeEdges
      BY <1>1
<1>3. Store!Close
      BY <1>1, <1>2 DEF Store!Close, Store!Open
<1>4. QED BY <1>3 DEF Store!StoreNext

\* The wrapped graph is the graph that the store was opened on.
LEMMA StoreOpens ==
    ASSUME Init, TypeOK
    PROVE  Store!StoreInit
<1>1. ~graph.made /\ lookup = InitNodes /\ nextSerial = Len(Rows) + 1 /\ graph = NoGraph
      BY DEF Init, NoGraph
<1>2. FreezeRows = RowIds
  <2>1. \A r \in RowIds : Rows[r] \in [src : InitNodes, dst : InitNodes]
    <3> DEFINE S == [src : InitNodes, dst : InitNodes]
    <3>1. Rows \in Seq(S)
          BY RowsAssumption
    <3> HIDE DEF S
    <3>2. \A r \in RowIds : Rows[r] \in S
          BY <3>1 DEF RowIds
    <3>3. QED BY <3>2 DEF S
  <2>2. \A id \in InitNodes : IdIsLive(id)
        BY DEF Init, IdIsLive
  <2>3. \A r \in RowIds : edgeLive[r]
        BY DEF Init
  <2>4. QED BY <2>1, <2>2, <2>3 DEF FreezeRows
<1>3. FreezeDelta = {}
      BY DEF Init, FreezeDelta, DeltaEdges, FrozenEdges
<1>4. FreezeEdges = {[edge |-> r, src |-> Rows[r].src, dst |-> Rows[r].dst] : r \in RowIds}
      BY <1>2, <1>3 DEF FreezeEdges
<1>5. 1..(nextSerial - 1) = {e.edge : e \in
         {[edge |-> r, src |-> Rows[r].src, dst |-> Rows[r].dst] : r \in RowIds}}
  <2>1. Len(Rows) \in Nat
        BY RowsAssumption
  <2>2. 1..(nextSerial - 1) = RowIds
        BY <1>1, <2>1 DEF RowIds
  <2>3. \A r : [edge |-> r, src |-> Rows[r].src, dst |-> Rows[r].dst].edge = r
        OBVIOUS
  <2>4. \A x : x \in {e.edge : e \in
           {[edge |-> r, src |-> Rows[r].src, dst |-> Rows[r].dst] : r \in RowIds}} <=> x \in RowIds
        BY <2>3
  <2>5. QED BY <2>2, <2>4
<1>6. QED BY <1>1, <1>4, <1>5 DEF Store!StoreInit, NoGraph

\* Until the first compaction every step of the frame is a step of the store, or
\* leaves it as it is.
LEMMA StoreSteps ==
    ASSUME IndStore, LookupIsLiveRows', IndRetired', ReuseIds = FALSE, [Next]_vars
    PROVE  [stable => Store!StoreNext \/ Compact]_(Store!storeVars)
<1>1. SUFFICES (stable => Store!StoreNext \/ Compact) \/ StoreUnchanged
      BY DEF Store!storeVars, StoreUnchanged
<1>2. CASE UNCHANGED vars
  <2>1. FreezeEdges' = FreezeEdges
        BY <1>2 DEF vars, FreezeEdges, FreezeRows, FreezeDelta, DeltaEdges, FrozenEdges, IdIsLive
  <2>2. QED BY <1>2, <2>1 DEF vars, StoreUnchanged
<1>3. ASSUME Mutate, stable PROVE Store!StoreNext \/ StoreUnchanged
      BY <1>3, AddNodesStep, DeleteNodeStep, UpdateNodeStep, AddEdgeStep, DeleteEdgeStep,
         UpdateEdgeStep DEF Mutate
<1>4. ASSUME Freeze PROVE Store!StoreNext
      BY <1>4, FreezeStep
<1>5. QED BY <1>2, <1>3, <1>4 DEF Next

\* A client that adds no id again uses the frame as a plain set of nodes and edges
\* until it calls compact, whatever the threshold and however calls fail: the
\* tombstones, the buffer, the chunks and the two index tables do not show, and
\* freeze returns what the store held.
THEOREM StoreRefinement == ReuseIds = FALSE => (Spec => ImplementsStore)
<1> SUFFICES ASSUME ReuseIds = FALSE PROVE Spec => ImplementsStore
    OBVIOUS
<1>1. Init /\ TypeOK => Store!StoreInit
      BY StoreOpens
<1>2. /\ TypeOK /\ LookupIsLiveRows /\ LocalIndexIsNewest
      /\ IndRows /\ IndHomes /\ IndRetired /\ RowsDieWithTheirNodes
      /\ LookupIsLiveRows' /\ IndRetired' /\ [Next]_vars
      => [stable => Store!StoreNext \/ Compact]_(Store!storeVars)
      BY StoreSteps DEF IndStore
<1>3. QED
      BY <1>1, <1>2, TypeCorrect, LookupCorrect, LocalIndexCorrect, RowsInvariant,
         HomesInvariant, RetiredInvariant, RowsCorrect, PTL DEF Spec, ImplementsStore

\* Without compact, the CSR ids are edge rows until freeze has consumed the frame.
StableUntilFreeze == "compact" \notin Calls => stable \/ graph.made

LEMMA StableNext ==
    ASSUME StableUntilFreeze, [Next]_vars
    PROVE  StableUntilFreeze'
<1>1. CASE Mutate
      BY <1>1 DEF Mutate, StableUntilFreeze, AddNodes, DeleteNode, UpdateNode, AddEdge, DeleteEdge,
                  UpdateEdgeRow, UpdateEdge
<1>2. CASE Compact
      BY <1>2 DEF Compact, Call, StableUntilFreeze
<1>3. CASE Freeze
  <2>1. graph'.made
        BY <1>3 DEF Freeze
  <2>2. QED BY <2>1 DEF StableUntilFreeze
<1>4. CASE UNCHANGED vars
      BY <1>4 DEF vars, StableUntilFreeze
<1>5. QED BY <1>1, <1>2, <1>3, <1>4 DEF Next

\* A client that does not compact at all has the store to the end: every call of
\* the frame, freeze included, is a step of GraphStore or none.
THEOREM StoreImplemented ==
    "compact" \notin Calls /\ ReuseIds = FALSE => (Spec => Store!StoreSpec)
<1> SUFFICES ASSUME "compact" \notin Calls, ReuseIds = FALSE
             PROVE  Spec => Store!StoreSpec
    OBVIOUS
<1>1. Init => StableUntilFreeze
      BY DEF Init, StableUntilFreeze
<1>2. StableUntilFreeze /\ [stable => Store!StoreNext \/ Compact]_(Store!storeVars) /\ [Next]_vars
         => [Store!StoreNext]_(Store!storeVars)
  <2> SUFFICES ASSUME StableUntilFreeze, [stable => Store!StoreNext \/ Compact]_(Store!storeVars),
                      [Next]_vars
               PROVE  [Store!StoreNext]_(Store!storeVars)
      OBVIOUS
  <2>1. CASE stable
        BY <2>1 DEF Compact, Call
  <2>2. CASE graph.made
    <3>1. UNCHANGED vars
          BY <2>2 DEF Next, Mutate, Compact, Freeze, AddNodes, DeleteNode, UpdateNode, AddEdge,
                      DeleteEdge, UpdateEdgeRow, UpdateEdge, Call
    <3>2. QED BY <2>2, <3>1 DEF vars, Store!storeVars
  <2>3. QED BY <2>1, <2>2 DEF StableUntilFreeze
<1>3. QED BY <1>1, <1>2, StableNext, StoreRefinement, PTL DEF Spec, ImplementsStore, Store!StoreSpec
=============================================================================
