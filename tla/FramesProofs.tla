----------------------------- MODULE FramesProofs -----------------------------
(***************************************************************************)
(* Proofs about frames, for any graph.  Partitioning: whatever the number  *)
(* of shards and the method no row is lost or doubled, and a search over   *)
(* the shards is a search over the graph.  Frames: what the operations     *)
(* build has indexes that say what its rows say.  Traversal: the searches  *)
(* find what paths of edges lead to, and components are closed.  Sampling: *)
(* every draw and every step of a walk follows an edge.                    *)
(***************************************************************************)
EXTENDS Partitioning, Traversal, Sampling, FiniteSetTheorems, SequenceTheorems, WellFoundedInduction, TLAPS

-----------------------------------------------------------------------------
(* Natural numbers. *)

\* A set of natural numbers that is not empty has a least element.
LEMMA LeastNat ==
    ASSUME NEW T \in SUBSET Nat, T # {}
    PROVE  \E m \in T : \A n \in T : m <= n
<1> DEFINE R == OpToRel(<, Nat)
<1>1. IsWellFoundedOn(R, Nat)
      BY NatLessThanWellFounded
<1>2. \A m, n \in T : n < m => <<n, m>> \in R
      BY DEF OpToRel
<1> HIDE DEF R
<1>3. PICK m \in T : \A n \in T : <<n, m>> \notin R
      BY <1>1, WFMin
<1>4. \A n \in T : ~(n < m)
      BY <1>2, <1>3
<1>5. QED BY <1>3, <1>4

\* Induction over the natural numbers, for a set.
LEMMA NatSetInduction ==
    ASSUME NEW S, 0 \in S, \A n \in Nat : n \in S => n + 1 \in S
    PROVE  Nat \subseteq S
<1>1. SUFFICES ASSUME Nat \ S # {} PROVE FALSE
      OBVIOUS
<1>2. PICK m \in Nat \ S : \A n \in Nat \ S : m <= n
      BY <1>1, LeastNat
<1>3. m # 0
      BY <1>2
<1>4. m - 1 \in Nat /\ m - 1 \notin Nat \ S
      BY <1>2, <1>3
<1>5. (m - 1) + 1 \in S
      BY <1>4
<1>6. QED BY <1>2, <1>5

-----------------------------------------------------------------------------
(* The rows that a mask keeps. *)

\* How many numbers of S are no greater than x: the place of x in the order of S.
Place(S, x) == Cardinality({y \in S : y <= x})

\* Places count from one and grow with the numbers.
LEMMA PlacesGrow ==
    ASSUME NEW S \in SUBSET Nat, IsFiniteSet(S)
    PROVE  /\ Cardinality(S) \in Nat
           /\ \A x \in S : Place(S, x) \in 1..Cardinality(S)
           /\ \A x, y \in S : x < y => Place(S, x) < Place(S, y)
<1> DEFINE Below(x) == {y \in S : y <= x}
<1>1. Cardinality(S) \in Nat
      BY FS_CardinalityType
<1>2. ASSUME NEW x \in S
      PROVE  /\ Below(x) \in SUBSET S /\ IsFiniteSet(Below(x)) /\ x \in Below(x)
             /\ Cardinality(Below(x)) \in Nat /\ Cardinality(Below(x)) <= Cardinality(S)
  <2>1. Below(x) \in SUBSET S /\ x \in Below(x)
        OBVIOUS
  <2> HIDE DEF Below
  <2>2. QED BY <2>1, FS_Subset, FS_CardinalityType
<1>3. ASSUME NEW x \in S PROVE Cardinality(Below(x)) # 0
  <2> HIDE DEF Below
  <2>1. QED BY <1>2, FS_EmptySet
<1>4. ASSUME NEW x \in S, NEW y \in S, x < y
      PROVE  Cardinality(Below(x)) < Cardinality(Below(y))
  <2>1. Below(x) \subseteq Below(y) /\ y \notin Below(x)
    <3>1. x \in Nat /\ y \in Nat /\ \A z \in S : z \in Nat
          OBVIOUS
    <3>2. \A z \in S : z <= x => z <= y
          BY <1>4, <3>1
    <3>3. ~(y <= x)
          BY <1>4, <3>1
    <3>4. QED BY <3>2, <3>3
  <2> HIDE DEF Below
  <2>2. y \in Below(y) /\ Below(x) # Below(y)
        BY <1>2, <2>1
  <2>3. Cardinality(Below(x)) <= Cardinality(Below(y))
        /\ Cardinality(Below(x)) # Cardinality(Below(y))
        BY <1>2, <2>1, <2>2, FS_Subset
  <2>4. QED BY <1>2, <2>3
<1>5. \A x : Place(S, x) = Cardinality(Below(x))
      BY DEF Place
<1> HIDE DEF Below
<1>6. QED BY <1>1, <1>2, <1>3, <1>4, <1>5

\* Ascending lists the numbers of a set, each once and in order.
LEMMA AscendingLists ==
    ASSUME NEW S \in SUBSET Nat, IsFiniteSet(S)
    PROVE  /\ Cardinality(S) \in Nat
           /\ Ascending(S) \in [1..Cardinality(S) -> S]
           /\ \A i, j \in 1..Cardinality(S) : i < j => Ascending(S)[i] < Ascending(S)[j]
           /\ \A x \in S : \E i \in 1..Cardinality(S) : Ascending(S)[i] = x
<1> DEFINE I == 1..Cardinality(S)
           f == [x \in S |-> Place(S, x)]
<1>1. /\ Cardinality(S) \in Nat /\ f \in [S -> I]
      /\ \A x, y \in S : x < y => f[x] < f[y]
      BY PlacesGrow
<1>2. IsFiniteSet(I) /\ Cardinality(I) = Cardinality(S)
  <2>1. ASSUME NEW k \in Nat PROVE IsFiniteSet(1..k) /\ Cardinality(1..k) = k
        BY FS_Interval
  <2>2. QED BY <1>1, <2>1
<1>3. \A x \in S : f[x] \in I /\ f[x] = Place(S, x)
      BY <1>1
<1> HIDE DEF f
<1>4. \A x, y \in S : f[x] = f[y] => x = y
  <2>1. ASSUME NEW x \in S, NEW y \in S, f[x] = f[y] PROVE x = y
    <3>1. x \in Nat /\ y \in Nat /\ f[x] \in Nat /\ f[y] \in Nat
          BY <1>1, <1>3
    <3>2. ~(x < y) /\ ~(y < x)
          BY <1>1, <2>1, <3>1
    <3>3. QED BY <3>1, <3>2
  <2>2. QED BY <2>1
<1>5. f \in Injection(S, I)
      BY <1>1, <1>4 DEF Injection, IsInjective
<1>6. f \in Surjection(S, I)
      BY <1>2, <1>5, FS_Injection
<1>7. \A i \in I : \E x \in S : f[x] = i
      BY <1>6 DEF Surjection
<1>8. ASSUME NEW i \in I PROVE Ascending(S)[i] \in S /\ f[Ascending(S)[i]] = i
  <2>1. \E x \in S : Cardinality({y \in S : y <= x}) = i
        BY <1>3, <1>7 DEF Place
  <2>2. Ascending(S)[i] = CHOOSE x \in S : Cardinality({y \in S : y <= x}) = i
        BY DEF Ascending
  <2>3. QED BY <1>3, <2>1, <2>2 DEF Place
<1>9. DOMAIN Ascending(S) = I
      BY DEF Ascending
<1>10. Ascending(S) \in [I -> S]
  <2>1. Ascending(S) = [i \in I |-> Ascending(S)[i]]
        BY DEF Ascending
  <2>2. QED BY <1>8, <2>1
<1>11. ASSUME NEW i \in I, NEW j \in I, i < j PROVE Ascending(S)[i] < Ascending(S)[j]
  <2>1. i \in Nat /\ j \in Nat
        BY <1>1
  <2> DEFINE x == Ascending(S)[i]
             y == Ascending(S)[j]
  <2>2. x \in S /\ y \in S /\ f[x] = i /\ f[y] = j
        BY <1>8
  <2> HIDE DEF x, y
  <2>3. x # y /\ ~(y < x)
        BY <1>1, <1>11, <2>1, <2>2
  <2>4. x \in Nat /\ y \in Nat
        BY <2>2
  <2>5. x < y
        BY <2>3, <2>4
  <2>6. QED BY <2>5 DEF x, y
<1>12. ASSUME NEW x \in S PROVE \E i \in I : Ascending(S)[i] = x
       BY <1>3, <1>4, <1>8
<1>13. QED BY <1>1, <1>10, <1>11, <1>12

\* A batch of rows, numbered from one.
Batch(b) == /\ b = [fields |-> b.fields, rows |-> b.rows]
            /\ \E m \in Nat : DOMAIN b.rows = 1..m

\* t is what s has at the positions of S, in the order of s and each position once.
Keeps(t, s, S) ==
    \E m \in Nat : \E at \in [1..m -> S] :
        /\ \A i, j \in 1..m : i < j => at[i] < at[j]
        /\ \A r \in S : \E i \in 1..m : at[i] = r
        /\ t = [i \in 1..m |-> s[at[i]]]

\* FilterRows keeps the rows the mask marks, in their order.
LEMMA FilterRowsKeep ==
    ASSUME NEW b, Batch(b), NEW mask, DOMAIN mask = DOMAIN b.rows,
           NEW S, S = {r \in DOMAIN mask : mask[r]}
    PROVE  Batch(FilterRows(b, mask)) /\ Keeps(FilterRows(b, mask).rows, b.rows, S)
<1> DEFINE at == Ascending(S)
           n  == Cardinality(S)
           t  == [i \in 1..n |-> b.rows[at[i]]]
<1>1. PICK m \in Nat : DOMAIN b.rows = 1..m
      BY DEF Batch
<1>2. S \in SUBSET Nat /\ IsFiniteSet(S)
  <2>1. IsFiniteSet(1..m)
        BY FS_Interval
  <2>2. S \subseteq 1..m
        BY <1>1
  <2>3. QED BY <2>1, <2>2, FS_Subset
<1>3. /\ n \in Nat /\ at \in [1..n -> S]
      /\ \A i, j \in 1..n : i < j => at[i] < at[j]
      /\ \A r \in S : \E i \in 1..n : at[i] = r
      BY <1>2, AscendingLists
<1>4. FilterRows(b, mask) = [fields |-> b.fields, rows |-> t]
  <2>1. Picked(b.rows, S) = t
        BY <1>3 DEF Picked
  <2>2. FilterRows(b, mask) = [b EXCEPT !.rows = Picked(b.rows, S)]
        BY DEF FilterRows, Batch
  <2> HIDE DEF t
  <2>3. QED BY <2>1, <2>2 DEF Batch
<1>5. DOMAIN t = 1..n
      OBVIOUS
<1>6. Keeps(t, b.rows, S)
      BY <1>3 DEF Keeps
<1> HIDE DEF t, n, at
<1>7. QED BY <1>3, <1>4, <1>5, <1>6 DEF Batch

\* The rows that are kept.
LEMMA KeptRows ==
    ASSUME NEW t, NEW s, NEW S, Keeps(t, s, S)
    PROVE  /\ \A i \in DOMAIN t : \E r \in S : t[i] = s[r]
           /\ \A r \in S : \E i \in DOMAIN t : t[i] = s[r]
           /\ ToSet(t) = {s[r] : r \in S}
<1>1. PICK m \in Nat : \E at \in [1..m -> S] :
          (\A r \in S : \E i \in 1..m : at[i] = r) /\ t = [i \in 1..m |-> s[at[i]]]
      BY DEF Keeps
<1>2. PICK at \in [1..m -> S] :
          (\A r \in S : \E i \in 1..m : at[i] = r) /\ t = [i \in 1..m |-> s[at[i]]]
      BY <1>1
<1>3. DOMAIN t = 1..m /\ \A i \in DOMAIN t : t[i] = s[at[i]] /\ at[i] \in S
      BY <1>2
<1>4. \A r \in S : \E i \in DOMAIN t : t[i] = s[r]
      BY <1>2, <1>3
<1>5. QED BY <1>3, <1>4 DEF ToSet

-----------------------------------------------------------------------------
(* The assignment of nodes to shards. *)

\* What the constructors of frames establish: rows numbered from one, an index that
\* is built from the rows, and no edge that dangles.
IsFrame(g) ==
    /\ Batch(g.nodes.data) /\ g.nodes.index = IdIndex(g.nodes.data)
    /\ Batch(g.edges.data)
    /\ ~Dangles(g.nodes, g.edges)

Methods == {"hash", "range", "label"}

\* What a finite set is taken to is finite.
LEMMA ImageFinite ==
    ASSUME NEW I, IsFiniteSet(I), NEW f
    PROVE  IsFiniteSet({f[i] : i \in I})
<1> DEFINE T == {f[i] : i \in I}
           h == [i \in I |-> f[i]]
<1>1. h \in [I -> T] /\ \A y \in T : \E i \in I : h[i] = y
      OBVIOUS
<1> HIDE DEF h, T
<1>2. h \in Surjection(I, T)
      BY <1>1 DEF Surjection
<1>3. IsFiniteSet(T)
      BY <1>2, FS_Surjection
<1>4. QED BY <1>3 DEF T

\* There are as many ids as rows, at most.
LEMMA IdsFinite ==
    ASSUME NEW g, IsFrame(g)
    PROVE  /\ \E m \in Nat : DOMAIN IdsOf(g) = 1..m /\ Len(IdsOf(g)) = m
           /\ IsFiniteSet(DOMAIN IdsOf(g)) /\ IsFiniteSet(AllIds(g))
<1>1. PICK m \in Nat : DOMAIN g.nodes.data.rows = 1..m
      BY DEF IsFrame, Batch
<1>2. IdsOf(g) = [r \in 1..m |-> g.nodes.data.rows[r]["_id"]]
      BY <1>1 DEF IdsOf, Column
<1>3. DOMAIN IdsOf(g) = 1..m
      BY <1>2
<1>4. Len(IdsOf(g)) = m
      BY <1>2
<1>5. IsFiniteSet(1..m)
      BY FS_Interval
<1>6. IsFiniteSet({IdsOf(g)[i] : i \in DOMAIN IdsOf(g)})
      BY <1>3, <1>5, ImageFinite
<1>7. QED BY <1>3, <1>4, <1>5, <1>6 DEF AllIds, ToSet

\* The remainder of a division is the number of a shard, counted from 1.
LEMMA Remainder ==
    ASSUME NEW k \in Nat, NEW n \in Nat \ {0}
    PROVE  (k % n) + 1 \in 1..n
<1>1. k % n \in 0..(n - 1)
      OBVIOUS
<1>2. QED BY <1>1

\* HashShard answers a shard for every hash.
LEMMA HashTotal ==
    ASSUME NEW x \in DOMAIN Hash, NEW n \in Nat \ {0}
    PROVE  HashShard(x, n) \in 1..n
<1>1. Hash[x] \in Nat
      BY HashAssumption
<1>2. QED BY <1>1, Remainder DEF HashShard

\* A band has at least one id, and the last shard takes what is left.
LEMMA RangeTotal ==
    ASSUME NEW g, IsFrame(g), NEW x, NEW n \in Nat \ {0}
    PROVE  RangeShard(IdsOf(g), x, n) \in 1..n
<1> DEFINE S    == {y \in ToSet(IdsOf(g)) : y < x}
           rank == Cardinality(S)
           part == (Len(IdsOf(g)) + n - 1) \div n
           band == Max({1, part})
<1>1. rank \in Nat
  <2>1. IsFiniteSet(S)
        BY IdsFinite, FS_Subset DEF AllIds
  <2>2. QED BY <2>1, FS_CardinalityType
<1>2. part \in Int
  <2>1. Len(IdsOf(g)) + n - 1 \in Int
        BY IdsFinite
  <2>2. QED BY <2>1
<1> HIDE DEF rank, part
<1>3. band \in Nat \ {0}
  <2>1. \E u \in {1, part} : \A v \in {1, part} : u >= v
        BY <1>2
  <2>2. band \in {1, part} /\ band >= 1
        BY <2>1 DEF Max
  <2>3. QED BY <1>2, <2>2
<1> HIDE DEF band
<1>4. rank \div band \in Nat
      BY <1>1, <1>3
<1> DEFINE turn == rank \div band
<1> HIDE DEF turn
<1>5. Min({turn, n - 1}) \in 0..(n - 1)
  <2>1. turn \in Nat
        BY <1>4 DEF turn
  <2>2. \E u \in {turn, n - 1} : \A v \in {turn, n - 1} : u <= v
        BY <2>1
  <2>3. Min({turn, n - 1}) \in {turn, n - 1} /\ Min({turn, n - 1}) <= n - 1
        BY <2>2 DEF Min
  <2>4. QED BY <2>1, <2>3
<1>6. RangeShard(IdsOf(g), x, n) = Min({turn, n - 1}) + 1
      BY DEF RangeShard, turn, band, part, rank
<1> DEFINE last == Min({turn, n - 1})
<1> HIDE DEF last
<1>7. last + 1 \in 1..n
  <2>1. last \in 0..(n - 1)
        BY <1>5 DEF last
  <2>2. QED BY <2>1
<1>8. QED BY <1>6, <1>7 DEF last

\* Labels are numbered from zero.
LEMMA LabelTotal ==
    ASSUME NEW g, IsFrame(g), NEW x \in DOMAIN Hash, NEW n \in Nat \ {0}
    PROVE  LabelShard(g, x, n) \in 1..n
<1> DEFINE first(y) == Head(Label(g, y))
           labelled == {i \in DOMAIN IdsOf(g) : Label(g, IdsOf(g)[i]) # <<>>}
           opening  == Min({i \in labelled : first(IdsOf(g)[i]) = first(x)})
           earlier  == {i \in labelled : i < opening}
           f        == [i \in earlier |-> first(IdsOf(g)[i])]
           before   == {first(IdsOf(g)[i]) : i \in earlier}
<1>1. IsFiniteSet(earlier)
      BY IdsFinite, FS_Subset
<1>2. before = {f[i] : i \in earlier}
      OBVIOUS
<1>3. LabelShard(g, x, n) = IF Label(g, x) = <<>> THEN HashShard(x, n) ELSE (Cardinality(before) % n) + 1
      BY DEF LabelShard
<1> HIDE DEF f, earlier, before
<1>4. Cardinality(before) \in Nat
      BY <1>1, <1>2, ImageFinite, FS_CardinalityType
<1>5. QED BY <1>3, <1>4, HashTotal, Remainder

\* Every node has a shard, whatever the method.
LEMMA AssignedTotal ==
    ASSUME NEW g, IsFrame(g), AllIds(g) \subseteq DOMAIN Hash, NEW n \in Nat \ {0},
           NEW method \in Methods
    PROVE  /\ DOMAIN Assigned(g, n, method) = AllIds(g)
           /\ \A x \in AllIds(g) : Assigned(g, n, method)[x] \in 1..n
<1>1. ASSUME NEW x \in AllIds(g) PROVE Assigned(g, n, method)[x] \in 1..n
  <2>1. CASE method = "hash"
        BY <2>1, HashTotal DEF Assigned, AllIds
  <2>2. CASE method = "range"
        BY <2>2, RangeTotal DEF Assigned, AllIds
  <2>3. CASE method = "label"
        BY <2>3, LabelTotal DEF Assigned, AllIds
  <2>4. QED BY <2>1, <2>2, <2>3 DEF Methods
<1>2. DOMAIN Assigned(g, n, method) = AllIds(g)
      BY DEF Assigned, AllIds
<1>3. QED BY <1>1, <1>2

-----------------------------------------------------------------------------
(* The part of a graph on some of its nodes. *)

\* The node rows of some ids.
Members(g, X) == {r \in DOMAIN g.nodes.data.rows : g.nodes.data.rows[r]["_id"] \in X}

\* A part of g: the nodes of X, and the edges of the rows R.
IsPart(h, g, X, R) ==
    /\ IsFrame(h) /\ AllIds(h) = AllIds(g) \cap X
    /\ Keeps(h.nodes.data.rows, g.nodes.data.rows, Members(g, X))
    /\ Keeps(EdgeRows(h), EdgeRows(g), R)

\* A graph has the nodes whose ids its node rows say.
LEMMA IndexOfIds ==
    ASSUME NEW g, IsFrame(g)
    PROVE  \A x : HasNode(g.nodes, x) <=> x \in AllIds(g)
<1>1. DOMAIN g.nodes.index = ToSet(Column(g.nodes.data, "_id"))
      BY DEF IsFrame, IdIndex
<1>2. QED BY <1>1 DEF HasNode, AllIds, IdsOf

\* Both ends of every edge are nodes.
LEMMA EndsAreNodes ==
    ASSUME NEW g, IsFrame(g), NEW r \in DOMAIN EdgeRows(g)
    PROVE  EdgeRows(g)[r]["_src"] \in AllIds(g) /\ EdgeRows(g)[r]["_dst"] \in AllIds(g)
<1>1. HasNode(g.nodes, EdgeRows(g)[r]["_src"]) /\ HasNode(g.nodes, EdgeRows(g)[r]["_dst"])
      BY DEF IsFrame, Dangles, EdgeRows
<1>2. QED BY <1>1, IndexOfIds

\* NodesIn keeps the nodes of X: their rows in order, their ids and an index of them.
LEMMA NodesInKeep ==
    ASSUME NEW g, IsFrame(g), NEW X
    PROVE  /\ Batch(NodesIn(g.nodes, X).data)
           /\ NodesIn(g.nodes, X).index = IdIndex(NodesIn(g.nodes, X).data)
           /\ Keeps(NodesIn(g.nodes, X).data.rows, g.nodes.data.rows, Members(g, X))
           /\ ToSet(Column(NodesIn(g.nodes, X).data, "_id")) = AllIds(g) \cap X
<1> DEFINE b    == g.nodes.data
           mask == [r \in DOMAIN b.rows |-> b.rows[r]["_id"] \in X]
           kept == FilterRows(b, mask)
           S    == {r \in DOMAIN mask : mask[r]}
<1>1. Batch(b)
      BY DEF IsFrame
<1>2. DOMAIN mask = DOMAIN b.rows /\ S = Members(g, X)
      BY DEF Members
<1>3. NodesIn(g.nodes, X) = [data |-> kept, index |-> IdIndex(kept)]
      BY DEF NodesIn, NodesOf
<1> HIDE DEF mask
<1>4. Batch(kept) /\ Keeps(kept.rows, b.rows, Members(g, X))
      BY <1>1, <1>2, FilterRowsKeep
<1> HIDE DEF kept
<1>5. /\ \A i \in DOMAIN kept.rows : \E r \in Members(g, X) : kept.rows[i] = b.rows[r]
      /\ \A r \in Members(g, X) : \E i \in DOMAIN kept.rows : kept.rows[i] = b.rows[r]
      BY <1>4, KeptRows
<1>6. ToSet(Column(kept, "_id")) = {kept.rows[i]["_id"] : i \in DOMAIN kept.rows}
      BY DEF ToSet, Column
<1>7. AllIds(g) = {b.rows[r]["_id"] : r \in DOMAIN b.rows}
      BY DEF AllIds, IdsOf, ToSet, Column
<1>8. ToSet(Column(kept, "_id")) = AllIds(g) \cap X
  <2>1. ASSUME NEW i \in DOMAIN kept.rows PROVE kept.rows[i]["_id"] \in AllIds(g) \cap X
        BY <1>5, <1>7 DEF Members
  <2>2. ASSUME NEW x \in AllIds(g) \cap X PROVE \E i \in DOMAIN kept.rows : x = kept.rows[i]["_id"]
    <3>1. PICK r \in DOMAIN b.rows : x = b.rows[r]["_id"]
          BY <1>7, <2>2
    <3>2. r \in Members(g, X)
          BY <2>2, <3>1 DEF Members
    <3>3. QED BY <1>5, <3>1, <3>2
  <2>3. QED BY <1>6, <2>1, <2>2
<1>9. QED BY <1>3, <1>4, <1>8

\* EdgesAt keeps the edges of the rows R, in order.
LEMMA EdgesAtKeep ==
    ASSUME NEW edges, Batch(edges.data), NEW R \in SUBSET DOMAIN edges.data.rows
    PROVE  /\ Batch(EdgesAt(edges, R).data)
           /\ Keeps(EdgesAt(edges, R).data.rows, edges.data.rows, R)
<1> DEFINE b    == edges.data
           mask == [r \in DOMAIN b.rows |-> r \in R]
           S    == {r \in DOMAIN mask : mask[r]}
<1>1. DOMAIN mask = DOMAIN b.rows /\ S = R
      OBVIOUS
<1>2. EdgesAt(edges, R).data = FilterRows(b, mask)
      BY DEF EdgesAt, EdgesOf
<1> HIDE DEF mask
<1>3. Batch(FilterRows(b, mask)) /\ Keeps(FilterRows(b, mask).rows, b.rows, R)
      BY <1>1, FilterRowsKeep
<1>4. QED BY <1>2, <1>3

\* No edge of the part dangles, so that it is a graph of its own.
LEMMA CutOut ==
    ASSUME NEW g, IsFrame(g), NEW X, NEW R \in SUBSET DOMAIN EdgeRows(g),
           \A r \in R : EdgeRows(g)[r]["_src"] \in X /\ EdgeRows(g)[r]["_dst"] \in X
    PROVE  /\ NewGraph(NodesIn(g.nodes, X), EdgesAt(g.edges, R)).status = "ok"
           /\ IsPart(NewGraph(NodesIn(g.nodes, X), EdgesAt(g.edges, R)).value, g, X, R)
<1> DEFINE nodes == NodesIn(g.nodes, X)
           edges == EdgesAt(g.edges, R)
           h     == Unchecked(nodes, edges)
<1>1. /\ Batch(nodes.data) /\ nodes.index = IdIndex(nodes.data)
      /\ Keeps(nodes.data.rows, g.nodes.data.rows, Members(g, X))
      /\ ToSet(Column(nodes.data, "_id")) = AllIds(g) \cap X
      BY NodesInKeep
<1>2. Batch(edges.data) /\ Keeps(edges.data.rows, EdgeRows(g), R)
      BY EdgesAtKeep DEF IsFrame, EdgeRows
<1> HIDE DEF nodes, edges
<1>3. ~Dangles(nodes, edges)
  <2>1. DOMAIN nodes.index = AllIds(g) \cap X
        BY <1>1 DEF IdIndex
  <2>2. ASSUME NEW i \in DOMAIN edges.data.rows
        PROVE  edges.data.rows[i]["_src"] \in AllIds(g) \cap X /\ edges.data.rows[i]["_dst"] \in AllIds(g) \cap X
    <3>1. PICK r \in R : edges.data.rows[i] = EdgeRows(g)[r]
          BY <1>2, KeptRows
    <3>2. r \in DOMAIN EdgeRows(g)
          OBVIOUS
    <3>3. QED BY <3>1, <3>2, EndsAreNodes
  <2>3. QED BY <2>1, <2>2 DEF Dangles, HasNode
<1>4. h.nodes = nodes /\ h.edges = edges
      BY DEF Unchecked
<1>5. NewGraph(nodes, edges) = [status |-> "ok", value |-> h]
      BY <1>3 DEF NewGraph, Ok
<1> HIDE DEF h
<1>6. IsPart(h, g, X, R)
      BY <1>1, <1>2, <1>3, <1>4 DEF IsPart, IsFrame, AllIds, IdsOf, EdgeRows
<1>7. QED BY <1>5, <1>6 DEF nodes, edges

\* A subgraph of a frame, on whatever ids, is a frame again: the nodes of these ids
\* with their rows and the edges that have both ends among them, each once and in
\* order, and the index built anew.  (What GraphFrame::subgraph promises its callers.)
THEOREM SubgraphCorrect ==
    ASSUME NEW h, IsFrame(h), NEW X
    PROVE  /\ Subgraph(h, X).status = "ok"
           /\ IsPart(Subgraph(h, X).value, h, X, {r \in DOMAIN EdgeRows(h) :
                  EdgeRows(h)[r]["_src"] \in X /\ EdgeRows(h)[r]["_dst"] \in X})
<1> DEFINE nodes == NodesIn(h.nodes, X)
           R     == {r \in DOMAIN EdgeRows(h) : EdgeRows(h)[r]["_src"] \in X /\ EdgeRows(h)[r]["_dst"] \in X}
           Q     == {r \in DOMAIN EdgeRows(h) :
                        HasNode(nodes, EdgeRows(h)[r]["_src"]) /\ HasNode(nodes, EdgeRows(h)[r]["_dst"])}
<1>1. DOMAIN nodes.index = AllIds(h) \cap X
  <2>1. /\ nodes.index = IdIndex(nodes.data)
        /\ ToSet(Column(nodes.data, "_id")) = AllIds(h) \cap X
        BY NodesInKeep
  <2>2. QED BY <2>1 DEF IdIndex
<1>2. Subgraph(h, X) = NewGraph(nodes, EdgesAt(h.edges, Q))
      BY DEF Subgraph, Induced
<1> HIDE DEF nodes
<1>3. Q = R
      BY <1>1, EndsAreNodes DEF HasNode
<1>4. R \in SUBSET DOMAIN EdgeRows(h) /\ \A r \in R : EdgeRows(h)[r]["_src"] \in X /\ EdgeRows(h)[r]["_dst"] \in X
      OBVIOUS
<1> HIDE DEF Q, R
<1>5. /\ NewGraph(NodesIn(h.nodes, X), EdgesAt(h.edges, R)).status = "ok"
      /\ IsPart(NewGraph(NodesIn(h.nodes, X), EdgesAt(h.edges, R)).value, h, X, R)
      BY <1>4, CutOut
<1>6. QED BY <1>2, <1>3, <1>5 DEF nodes, R

-----------------------------------------------------------------------------
(* partition. *)

\* The rows inside a shard, and those between two shards.
Inside(g, shard, k) ==
    {r \in DOMAIN EdgeRows(g) : shard[EdgeRows(g)[r]["_src"]] = k /\ shard[EdgeRows(g)[r]["_dst"]] = k}
Between(g, shard) ==
    {r \in DOMAIN EdgeRows(g) : shard[EdgeRows(g)[r]["_src"]] # shard[EdgeRows(g)[r]["_dst"]]}
HomeOf(shard, k) == {x \in DOMAIN shard : shard[x] = k}

\* p cuts g into n graphs: every node is in one of them, with its row and once; an
\* edge row is in the graph of its two ends, or in the boundary where they are in
\* two; and rows keep their order.
CutsUp(p, g, n) ==
    /\ DOMAIN p.shardOf = AllIds(g) /\ \A x \in AllIds(g) : p.shardOf[x] \in 1..n
    /\ DOMAIN p.shards = 1..n
    /\ \A k \in 1..n : IsPart(p.shards[k], g, HomeOf(p.shardOf, k), Inside(g, p.shardOf, k))
    /\ Batch(p.boundary.data)
    /\ Keeps(p.boundary.data.rows, EdgeRows(g), Between(g, p.shardOf))

\* Results that are all ok are collected into their values.
LEMMA AllCollected ==
    ASSUME NEW results, \A i \in DOMAIN results : results[i].status = "ok"
    PROVE  Collected(results) = Ok([i \in DOMAIN results |-> results[i].value])
<1>1. {i \in DOMAIN results : results[i].status # "ok"} = {}
      OBVIOUS
<1>2. FirstError(results) = "ok"
      BY <1>1 DEF FirstError
<1>3. QED BY <1>2 DEF Collected, Unless

\* Whatever the graph, the number of shards and the method, partition cuts the graph
\* up: no node or edge is lost or doubled, and no shard has an edge that dangles.
\* (What partition promises of GraphPartitioner's shards and boundary edges.)
THEOREM PartitionCorrect ==
    ASSUME NEW g, IsFrame(g), AllIds(g) \subseteq DOMAIN Hash, NEW n \in Nat \ {0},
           NEW method \in Methods
    PROVE  /\ Partition(g, n, method).status = "ok"
           /\ CutsUp(Partition(g, n, method).value, g, n)
<1> DEFINE shard    == Assigned(g, n, method)
           rows     == DOMAIN EdgeRows(g)
           sides(r) == <<shard[EdgeRows(g)[r]["_src"]], shard[EdgeRows(g)[r]["_dst"]]>>
           made(k)  == NewGraph(NodesIn(g.nodes, {x \in DOMAIN shard : shard[x] = k}),
                                EdgesAt(g.edges, {r \in rows : sides(r) = <<k, k>>}))
           shards   == [k \in 1..n |-> made(k)]
           graphs   == [k \in DOMAIN shards |-> shards[k].value]
           boundary == EdgesAt(g.edges, {r \in rows : sides(r)[1] # sides(r)[2]})
           p        == [shards |-> graphs, boundary |-> boundary, shardOf |-> shard]
<1>1. DOMAIN shard = AllIds(g) /\ \A x \in AllIds(g) : shard[x] \in 1..n
      BY AssignedTotal
<1>2. Partition(g, n, method) = Then(Collected(shards), LAMBDA v :
          Ok([shards |-> v, boundary |-> boundary, shardOf |-> shard]))
      BY DEF Partition
<1> HIDE DEF shard
<1>3. ASSUME NEW k \in 1..n
      PROVE  made(k).status = "ok" /\ IsPart(made(k).value, g, HomeOf(shard, k), Inside(g, shard, k))
  <2> DEFINE R == {r \in rows : sides(r) = <<k, k>>}
             X == {x \in DOMAIN shard : shard[x] = k}
  <2>1. R = Inside(g, shard, k) /\ X = HomeOf(shard, k) /\ R \in SUBSET rows
        BY DEF Inside, HomeOf
  <2>2. \A r \in R : EdgeRows(g)[r]["_src"] \in X /\ EdgeRows(g)[r]["_dst"] \in X
        BY <1>1, EndsAreNodes
  <2>3. made(k) = NewGraph(NodesIn(g.nodes, X), EdgesAt(g.edges, R))
        OBVIOUS
  <2> HIDE DEF R, X, made
  <2>4. made(k).status = "ok" /\ IsPart(made(k).value, g, X, R)
        BY <2>1, <2>2, <2>3, CutOut
  <2>5. QED BY <2>1, <2>4
<1>4. {r \in rows : sides(r)[1] # sides(r)[2]} = Between(g, shard) /\ Between(g, shard) \in SUBSET rows
      BY DEF Between
<1>5. Batch(boundary.data) /\ Keeps(boundary.data.rows, EdgeRows(g), Between(g, shard))
  <2>1. boundary = EdgesAt(g.edges, Between(g, shard))
        BY <1>4
  <2> HIDE DEF boundary
  <2>2. QED BY <1>4, <2>1, EdgesAtKeep DEF IsFrame, EdgeRows
<1> HIDE DEF made, boundary
<1>6. Collected(shards) = Ok(graphs)
  <2>1. \A k \in DOMAIN shards : shards[k].status = "ok"
        BY <1>3
  <2> HIDE DEF shards
  <2>2. QED BY <2>1, AllCollected
<1>7. DOMAIN graphs = 1..n /\ \A k \in 1..n : graphs[k] = made(k).value
      OBVIOUS
<1> HIDE DEF shards, graphs
<1>8. Partition(g, n, method) = [status |-> "ok", value |-> p]
      BY <1>2, <1>6 DEF Then, Ok
<1>9. CutsUp(p, g, n)
      BY <1>1, <1>3, <1>5, <1>7 DEF CutsUp
<1> HIDE DEF p
<1>10. QED BY <1>8, <1>9

-----------------------------------------------------------------------------
(* distributed_expand. *)

\* An edge leads from x to y in the direction and with a type that is searched for.
RowLeads(row, types, dir, x, y) ==
    /\ row["_type"] \in types
    /\ \/ dir # "in" /\ row["_src"] = x /\ row["_dst"] = y
       \/ dir # "out" /\ row["_dst"] = x /\ row["_src"] = y
Leads(rows, types, dir, x, y) == \E r \in DOMAIN rows : RowLeads(rows[r], types, dir, x, y)

\* The ends of paths of at most k edges from a node of S.
Within(g, types, dir, S, k) ==
    {y \in AllIds(g) \cup S : \E j \in 0..k : \E path \in [0..j -> AllIds(g) \cup S] :
        /\ path[0] \in S /\ path[j] = y
        /\ \A i \in 0..(j - 1) : Leads(EdgeRows(g), types, dir, path[i], path[i + 1])}

\* The nodes that an edge leads to from S.
LedTo(g, types, dir, S) == {y \in AllIds(g) : \E x \in S : Leads(EdgeRows(g), types, dir, x, y)}

\* An edge leads from a node to a node.
LEMMA LeadsToNodes ==
    ASSUME NEW g, IsFrame(g), NEW types, NEW dir, NEW x, NEW y, Leads(EdgeRows(g), types, dir, x, y)
    PROVE  x \in AllIds(g) /\ y \in AllIds(g)
BY EndsAreNodes DEF Leads, RowLeads

\* Within no hops there are only the nodes a search starts from.
LEMMA WithinZero ==
    ASSUME NEW g, NEW types, NEW dir, NEW S
    PROVE  Within(g, types, dir, S, 0) = S
<1>1. ASSUME NEW y \in S
      PROVE  \E j \in 0..0 : \E path \in [0..j -> AllIds(g) \cup S] :
                /\ path[0] \in S /\ path[j] = y
                /\ \A i \in 0..(j - 1) : Leads(EdgeRows(g), types, dir, path[i], path[i + 1])
  <2> DEFINE path == [i \in 0..0 |-> y]
  <2>1. path \in [0..0 -> AllIds(g) \cup S] /\ path[0] = y
        OBVIOUS
  <2> HIDE DEF path
  <2>2. QED BY <2>1
<1>2. ASSUME NEW y, NEW j \in 0..0, NEW path, path[0] \in S, path[j] = y PROVE y \in S
      BY <1>2
<1>3. QED BY <1>1, <1>2 DEF Within

\* One more edge.
LEMMA WithinNext ==
    ASSUME NEW g, IsFrame(g), NEW types, NEW dir, NEW S, NEW k \in Nat
    PROVE  Within(g, types, dir, S, k + 1) =
               Within(g, types, dir, S, k) \cup LedTo(g, types, dir, Within(g, types, dir, S, k))
<1> DEFINE V       == AllIds(g) \cup S
           L(x, y) == Leads(EdgeRows(g), types, dir, x, y)
           Path(path, j, y) == /\ path \in [0..j -> V] /\ path[0] \in S /\ path[j] = y
                               /\ \A i \in 0..(j - 1) : L(path[i], path[i + 1])
           W(m)    == Within(g, types, dir, S, m)
<1>1. \A m \in Nat : \A y : y \in W(m) <=> y \in V /\ \E j \in 0..m : \E path \in [0..j -> V] : Path(path, j, y)
      BY DEF Within
<1>2. \A x, y : L(x, y) => y \in AllIds(g)
      BY LeadsToNodes
<1>3. ASSUME NEW y \in W(k) PROVE y \in W(k + 1)
  <2>1. PICK j \in 0..k : \E path \in [0..j -> V] : Path(path, j, y)
        BY <1>1, <1>3
  <2>2. j \in 0..(k + 1) /\ k + 1 \in Nat
        BY <2>1
  <2>3. y \in V
        BY <1>1, <1>3
  <2> HIDE DEF W, Path, V
  <2>4. QED BY <1>1, <2>1, <2>2, <2>3
<1>4. ASSUME NEW x \in W(k), NEW y, L(x, y) PROVE y \in W(k + 1)
  <2>1. PICK j \in 0..k : \E path \in [0..j -> V] : Path(path, j, x)
        BY <1>1, <1>4
  <2>2. PICK path \in [0..j -> V] : Path(path, j, x)
        BY <2>1
  <2>3. y \in V
        BY <1>2, <1>4
  <2>4. j \in Nat /\ j + 1 \in 0..(k + 1) /\ k + 1 \in Nat
        BY <2>1
  <2> DEFINE longer == [i \in 0..(j + 1) |-> IF i <= j THEN path[i] ELSE y]
  <2>5. longer \in [0..(j + 1) -> V]
        BY <2>2, <2>3, <2>4
  <2>6. longer[0] \in S /\ longer[j + 1] = y
        BY <2>2, <2>4
  <2>7. ASSUME NEW i \in 0..j PROVE L(longer[i], longer[i + 1])
    <3>1. CASE i = j
      <4>1. longer[i] = x /\ longer[i + 1] = y
            BY <2>2, <2>4, <3>1
      <4> HIDE DEF longer, L
      <4>2. QED BY <4>1, <1>4
    <3>2. CASE i # j
      <4>1. i \in 0..(j - 1) /\ longer[i] = path[i] /\ longer[i + 1] = path[i + 1]
            BY <2>4, <3>2
      <4>2. L(path[i], path[i + 1])
            BY <2>2, <4>1
      <4> HIDE DEF longer, L
      <4>3. QED BY <4>1, <4>2
    <3>3. QED BY <3>1, <3>2
  <2> HIDE DEF longer
  <2>8. (j + 1) - 1 = j
        BY <2>4
  <2>9. Path(longer, j + 1, y)
        BY <2>5, <2>6, <2>7, <2>8
  <2> HIDE DEF W, Path, L, V
  <2>10. QED BY <1>1, <2>3, <2>4, <2>5, <2>9
<1>5. ASSUME NEW y \in W(k + 1), y \notin W(k) PROVE \E x \in W(k) : L(x, y)
  <2>0. k + 1 \in Nat
        OBVIOUS
  <2>1. y \in V /\ \E j \in 0..(k + 1) : \E path \in [0..j -> V] : Path(path, j, y)
    <3> HIDE DEF W, Path, L, V
    <3>1. QED BY <1>1, <1>5, <2>0
  <2>2. PICK j \in 0..(k + 1) : \E path \in [0..j -> V] : Path(path, j, y)
        BY <2>1
  <2>3. j \notin 0..k
    <3> HIDE DEF W, Path, L, V
    <3>1. QED BY <1>1, <1>5, <2>1, <2>2
  <2>4. j = k + 1
        BY <2>3
  <2>5. PICK path \in [0..(k + 1) -> V] : Path(path, k + 1, y)
        BY <2>2, <2>4
  <2> DEFINE x       == path[k]
             shorter == [i \in 0..k |-> path[i]]
  <2>6. shorter \in [0..k -> V] /\ x \in V /\ L(x, y)
    <3>1. k \in 0..(k + 1) /\ k \in 0..((k + 1) - 1) /\ \A i \in 0..k : i \in 0..(k + 1)
          OBVIOUS
    <3>2. L(path[k], path[k + 1]) /\ path[k + 1] = y
          BY <2>5, <3>1
    <3> HIDE DEF V, L
    <3>3. QED BY <2>5, <3>1, <3>2
  <2>7. Path(shorter, k, x)
    <3>1. shorter[0] \in S /\ shorter[k] = x
          BY <2>5
    <3>2. ASSUME NEW i \in 0..(k - 1) PROVE L(shorter[i], shorter[i + 1])
      <4>1. i \in 0..((k + 1) - 1) /\ shorter[i] = path[i] /\ shorter[i + 1] = path[i + 1]
            OBVIOUS
      <4>2. L(path[i], path[i + 1])
            BY <2>5, <4>1
      <4> HIDE DEF shorter, L
      <4>3. QED BY <4>1, <4>2
    <3> HIDE DEF shorter
    <3>3. QED BY <2>6, <3>1, <3>2
  <2>8. k \in 0..k
        OBVIOUS
  <2>9. x \in W(k)
    <3> HIDE DEF W, Path, L, V, x, shorter
    <3>1. QED BY <1>1, <2>6, <2>7, <2>8
  <2>10. QED BY <2>6, <2>9
<1> HIDE DEF W, L
<1>6. LedTo(g, types, dir, W(k)) = {y \in AllIds(g) : \E x \in W(k) : L(x, y)}
      BY DEF LedTo, L
<1>7. W(k + 1) = W(k) \cup LedTo(g, types, dir, W(k))
      BY <1>2, <1>3, <1>4, <1>5, <1>6
<1>8. QED BY <1>7 DEF W

\* What is found from some nodes over the edges of a frame.
LEMMA AcrossLeads ==
    ASSUME NEW rows, NEW from, NEW types, NEW dir
    PROVE  /\ \A e \in Across(rows, from, types, dir) :
                  /\ e.row \in DOMAIN rows
                  /\ \E x \in from : RowLeads(rows[e.row], types, dir, x, e.to)
           /\ \A x \in from : \A y : Leads(rows, types, dir, x, y) =>
                  \E e \in Across(rows, from, types, dir) : e.to = y
<1> DEFINE A == Across(rows, from, types, dir)
<1>1. ASSUME NEW e \in A
      PROVE  e.row \in DOMAIN rows /\ \E x \in from : RowLeads(rows[e.row], types, dir, x, e.to)
      BY DEF Across, RowLeads
<1>2. ASSUME NEW x \in from, NEW y, Leads(rows, types, dir, x, y) PROVE \E e \in A : e.to = y
  <2>1. PICK r \in DOMAIN rows : RowLeads(rows[r], types, dir, x, y)
        BY <1>2 DEF Leads
  <2>2. CASE dir # "in" /\ rows[r]["_src"] = x /\ rows[r]["_dst"] = y
    <3>1. [row |-> r, to |-> rows[r]["_dst"]] \in A
          BY <2>1, <2>2 DEF Across, RowLeads
    <3>2. QED BY <3>1, <2>2
  <2>3. CASE dir # "out" /\ rows[r]["_dst"] = x /\ rows[r]["_src"] = y
    <3>1. [row |-> r, to |-> rows[r]["_src"]] \in A
          BY <2>1, <2>3 DEF Across, RowLeads
    <3>2. QED BY <3>1, <2>3
  <2>4. QED BY <2>1, <2>2, <2>3 DEF RowLeads
<1>3. QED BY <1>1, <1>2

\* The edges that are kept lead where their rows in the graph lead.
LEMMA KeptLeads ==
    ASSUME NEW t, NEW rows, NEW R \in SUBSET DOMAIN rows, Keeps(t, rows, R), NEW types, NEW dir
    PROVE  \A x, y : Leads(t, types, dir, x, y) <=> \E r \in R : RowLeads(rows[r], types, dir, x, y)
<1>1. /\ \A i \in DOMAIN t : \E r \in R : t[i] = rows[r]
      /\ \A r \in R : \E i \in DOMAIN t : t[i] = rows[r]
      BY KeptRows
<1>2. ASSUME NEW x, NEW y, Leads(t, types, dir, x, y) PROVE \E r \in R : RowLeads(rows[r], types, dir, x, y)
  <2>1. PICK i \in DOMAIN t : RowLeads(t[i], types, dir, x, y)
        BY <1>2 DEF Leads
  <2>2. PICK r \in R : t[i] = rows[r]
        BY <1>1
  <2>3. QED BY <2>1, <2>2
<1>3. ASSUME NEW x, NEW y, NEW r \in R, RowLeads(rows[r], types, dir, x, y) PROVE Leads(t, types, dir, x, y)
  <2>1. PICK i \in DOMAIN t : t[i] = rows[r]
        BY <1>1
  <2>2. QED BY <1>3, <2>1 DEF Leads
<1>4. QED BY <1>2, <1>3

\* An edge of the graph is one of the shard of its ends, or of the boundary.
LEMMA LeadsSomewhere ==
    ASSUME NEW g, IsFrame(g), NEW n \in Nat \ {0}, NEW p, CutsUp(p, g, n), NEW types, NEW dir,
           NEW x, NEW y
    PROVE  /\ x \in AllIds(g) => p.shardOf[x] \in 1..n
           /\ \A k \in 1..n : Leads(EdgeRows(p.shards[k]), types, dir, x, y) =>
                  Leads(EdgeRows(g), types, dir, x, y)
           /\ Leads(p.boundary.data.rows, types, dir, x, y) => Leads(EdgeRows(g), types, dir, x, y)
           /\ Leads(EdgeRows(g), types, dir, x, y) =>
                  \/ Leads(EdgeRows(p.shards[p.shardOf[x]]), types, dir, x, y)
                  \/ Leads(p.boundary.data.rows, types, dir, x, y)
<1> DEFINE rows   == EdgeRows(g)
           In(k)  == Inside(g, p.shardOf, k)
           across == Between(g, p.shardOf)
<1>1. ASSUME NEW k \in 1..n
      PROVE  \A u, v : Leads(EdgeRows(p.shards[k]), types, dir, u, v) <=>
                           \E r \in In(k) : RowLeads(rows[r], types, dir, u, v)
  <2>1. Keeps(EdgeRows(p.shards[k]), rows, In(k))
        BY DEF CutsUp, IsPart
  <2>2. In(k) \in SUBSET DOMAIN rows
        BY DEF Inside
  <2> HIDE DEF In
  <2>3. QED BY <2>1, <2>2, KeptLeads
<1>2. \A u, v : Leads(p.boundary.data.rows, types, dir, u, v) <=>
                    \E r \in across : RowLeads(rows[r], types, dir, u, v)
  <2>1. Keeps(p.boundary.data.rows, rows, across)
        BY DEF CutsUp
  <2>2. across \in SUBSET DOMAIN rows
        BY DEF Between
  <2> HIDE DEF across
  <2>3. QED BY <2>1, <2>2, KeptLeads
<1>3. x \in AllIds(g) => p.shardOf[x] \in 1..n
      BY DEF CutsUp
<1>4. ASSUME NEW k \in 1..n, Leads(EdgeRows(p.shards[k]), types, dir, x, y) PROVE Leads(rows, types, dir, x, y)
      BY <1>1, <1>4 DEF Inside, Leads
<1>5. Leads(p.boundary.data.rows, types, dir, x, y) => Leads(rows, types, dir, x, y)
      BY <1>2 DEF Between, Leads
<1>6. ASSUME Leads(rows, types, dir, x, y)
      PROVE  \/ Leads(EdgeRows(p.shards[p.shardOf[x]]), types, dir, x, y)
             \/ Leads(p.boundary.data.rows, types, dir, x, y)
  <2>1. x \in AllIds(g)
        BY <1>6, LeadsToNodes
  <2>2. PICK r \in DOMAIN rows : RowLeads(rows[r], types, dir, x, y)
        BY <1>6 DEF Leads
  <2>3. CASE r \in across
        BY <1>2, <2>2, <2>3
  <2>4. CASE r \notin across
    <3>1. p.shardOf[rows[r]["_src"]] = p.shardOf[rows[r]["_dst"]]
          BY <2>4 DEF Between
    <3>2. rows[r]["_src"] = x \/ rows[r]["_dst"] = x
          BY <2>2 DEF RowLeads
    <3>3. r \in In(p.shardOf[x])
          BY <3>1, <3>2 DEF Inside
    <3> DEFINE k == p.shardOf[x]
    <3>4. k \in 1..n
          BY <1>3, <2>1
    <3> HIDE DEF k, In
    <3>5. r \in In(k)
          BY <3>3 DEF k
    <3>6. Leads(EdgeRows(p.shards[k]), types, dir, x, y)
          BY <1>1, <2>2, <3>4, <3>5
    <3>7. QED BY <3>6 DEF k
  <2>5. QED BY <2>3, <2>4
<1>7. QED BY <1>3, <1>4, <1>5, <1>6

\* One round goes from the frontier over every edge of the graph, whichever shards
\* its ends are in.
LEMMA RoundGoesOn ==
    ASSUME NEW g, IsFrame(g), NEW n \in Nat \ {0}, NEW p, CutsUp(p, g, n), NEW types, NEW dir,
           NEW s, s.frontier \subseteq s.visited
    PROVE  /\ Round(p, types, dir, s).visited = s.visited \cup LedTo(g, types, dir, s.frontier)
           /\ Round(p, types, dir, s).frontier = Round(p, types, dir, s).visited \ s.visited
           /\ \A i \in Round(p, types, dir, s).boundary \ s.boundary :
                  /\ i \in DOMAIN p.boundary.data.rows
                  /\ p.boundary.data.rows[i]["_src"] \in Round(p, types, dir, s).visited
                  /\ p.boundary.data.rows[i]["_dst"] \in Round(p, types, dir, s).visited
           /\ s.boundary \subseteq Round(p, types, dir, s).boundary
<1> DEFINE F        == s.frontier
           brows    == p.boundary.data.rows
           direct(k) == DirectExpand(p, k, F, types, dir)
           inside   == UNION {direct(k) : k \in DOMAIN p.shards}
           over     == Across(brows, F, types, dir)
           mid      == s.visited \cup inside
           crossing == {e \in over : e.to \notin mid}
           all      == mid \cup {e.to : e \in crossing}
           bound    == s.boundary \cup {e.row : e \in crossing}
<1>1. Round(p, types, dir, s) = [frontier |-> all \ s.visited, visited |-> all, boundary |-> bound]
      BY DEF Round
<1>2. /\ DOMAIN p.shards = 1..n /\ DOMAIN p.shardOf = AllIds(g)
      BY DEF CutsUp
<1>3. ASSUME NEW k \in 1..n, NEW y \in direct(k) PROVE \E x \in F : Leads(EdgeRows(g), types, dir, x, y)
  <2> DEFINE seeds == {x \in F : x \in DOMAIN p.shardOf /\ p.shardOf[x] = k}
             A     == Across(EdgeRows(p.shards[k]), seeds, types, dir)
  <2>1. \E e \in A : e.to = y
        BY <1>3 DEF DirectExpand
  <2>2. PICK e \in A : e.to = y
        BY <2>1
  <2> HIDE DEF seeds
  <2>3. e.row \in DOMAIN EdgeRows(p.shards[k]) /\ \E x \in seeds : RowLeads(EdgeRows(p.shards[k])[e.row], types, dir, x, e.to)
        BY <2>2, AcrossLeads
  <2>4. PICK x \in seeds : Leads(EdgeRows(p.shards[k]), types, dir, x, y)
        BY <2>2, <2>3 DEF Leads
  <2>5. x \in F
        BY <2>4 DEF seeds
  <2>6. Leads(EdgeRows(g), types, dir, x, y)
        BY <2>4, LeadsSomewhere
  <2>7. QED BY <2>5, <2>6
<1>4. ASSUME NEW x \in F, NEW y, x \in AllIds(g), Leads(EdgeRows(p.shards[p.shardOf[x]]), types, dir, x, y)
      PROVE  y \in inside
  <2> DEFINE k     == p.shardOf[x]
             seeds == {z \in F : z \in DOMAIN p.shardOf /\ p.shardOf[z] = k}
             A     == Across(EdgeRows(p.shards[k]), seeds, types, dir)
  <2>1. k \in DOMAIN p.shards /\ x \in seeds
        BY <1>2, <1>4 DEF CutsUp
  <2>2. direct(k) = {e.to : e \in A}
        BY DEF DirectExpand
  <2>3. Leads(EdgeRows(p.shards[k]), types, dir, x, y)
        BY <1>4
  <2> HIDE DEF seeds, k
  <2>4. \E e \in A : e.to = y
        BY <2>1, <2>3, AcrossLeads
  <2>5. y \in direct(k)
        BY <2>2, <2>4
  <2> HIDE DEF direct
  <2>6. QED BY <2>1, <2>5
<1>5. ASSUME NEW e \in over
      PROVE  e.row \in DOMAIN brows /\ \E x \in F : RowLeads(brows[e.row], types, dir, x, e.to)
  <2> HIDE DEF brows, F
  <2>1. QED BY <1>5, AcrossLeads
<1>6. ASSUME NEW x \in F, NEW y, Leads(brows, types, dir, x, y) PROVE \E e \in over : e.to = y
  <2> HIDE DEF brows, F
  <2>1. QED BY <1>6, AcrossLeads
<1> HIDE DEF direct, over
<1>7. ASSUME NEW y \in inside PROVE y \in LedTo(g, types, dir, F)
  <2>1. PICK x \in F : Leads(EdgeRows(g), types, dir, x, y)
        BY <1>2, <1>3
  <2>2. QED BY <2>1, LeadsToNodes DEF LedTo
<1>8. ASSUME NEW e \in crossing PROVE e.to \in LedTo(g, types, dir, F)
  <2>1. PICK x \in F : RowLeads(brows[e.row], types, dir, x, e.to)
        BY <1>5
  <2> DEFINE y == e.to
  <2>2. Leads(brows, types, dir, x, y)
        BY <1>5, <2>1 DEF Leads
  <2> HIDE DEF y
  <2>3. Leads(EdgeRows(g), types, dir, x, y)
        BY <2>2, LeadsSomewhere
  <2>4. y \in AllIds(g)
        BY <2>3, LeadsToNodes
  <2>5. y \in LedTo(g, types, dir, F)
        BY <2>3, <2>4 DEF LedTo
  <2>6. QED BY <2>5 DEF y
<1>9. ASSUME NEW y \in LedTo(g, types, dir, F) PROVE y \in all
  <2>1. PICK x \in F : Leads(EdgeRows(g), types, dir, x, y)
        BY DEF LedTo
  <2>2. x \in AllIds(g)
        BY <2>1, LeadsToNodes
  <2>3. CASE Leads(EdgeRows(p.shards[p.shardOf[x]]), types, dir, x, y)
        BY <1>4, <2>2, <2>3
  <2>4. CASE Leads(brows, types, dir, x, y)
    <3>1. PICK e \in over : e.to = y
          BY <1>6, <2>4
    <3>2. e \in crossing \/ e.to \in mid
          OBVIOUS
    <3> HIDE DEF mid, crossing
    <3>3. QED BY <3>1, <3>2
  <2>5. QED BY <2>1, <2>3, <2>4, LeadsSomewhere
<1> HIDE DEF inside
<1>10. all = s.visited \cup LedTo(g, types, dir, F)
  <2>1. all \subseteq s.visited \cup LedTo(g, types, dir, F)
        BY <1>7, <1>8
  <2>2. s.visited \subseteq all
        OBVIOUS
  <2> HIDE DEF all
  <2>3. QED BY <1>9, <2>1, <2>2
<1>11. ASSUME NEW i \in bound \ s.boundary
       PROVE  i \in DOMAIN brows /\ brows[i]["_src"] \in all /\ brows[i]["_dst"] \in all
  <2>1. PICK e \in crossing : e.row = i
        OBVIOUS
  <2>2. i \in DOMAIN brows /\ \E x \in F : RowLeads(brows[i], types, dir, x, e.to)
        BY <1>5, <2>1
  <2>3. e.to \in all
        BY <2>1
  <2>4. F \subseteq all
        OBVIOUS
  <2> HIDE DEF all, F
  <2>5. QED BY <2>2, <2>3, <2>4 DEF RowLeads
<1> HIDE DEF all, bound
<1>12. s.boundary \subseteq bound
       BY DEF bound
<1>13. QED BY <1>1, <1>10, <1>11, <1>12

\* f is the states of a search after each of m rounds.
After(p, types, dir, s, m, f) ==
    f = [k \in 0..m |-> IF k = 0 THEN s ELSE Round(p, types, dir, f[k - 1])]

\* A search has a state after each of any number of rounds.
LEMMA AfterExists ==
    ASSUME NEW p, NEW types, NEW dir, NEW s
    PROVE  \A m \in Nat : \E f : After(p, types, dir, s, m, f)
<1> DEFINE T    == {m \in Nat : \E f : After(p, types, dir, s, m, f)}
           N(t) == Round(p, types, dir, t)
<1>1. 0 \in T
  <2> DEFINE f == [k \in 0..0 |-> s]
  <2>1. f = [k \in 0..0 |-> IF k = 0 THEN s ELSE N(f[k - 1])]
        OBVIOUS
  <2> HIDE DEF f
  <2>2. QED BY <2>1 DEF After
<1>2. ASSUME NEW m \in Nat, m \in T PROVE m + 1 \in T
  <2>1. PICK f : After(p, types, dir, s, m, f)
        BY <1>2
  <2>2. \A k \in 0..m : f[k] = IF k = 0 THEN s ELSE N(f[k - 1])
    <3> HIDE DEF N
    <3>1. f = [k \in 0..m |-> IF k = 0 THEN s ELSE N(f[k - 1])]
          BY <2>1 DEF After, N
    <3>2. QED BY <3>1
  <2> DEFINE h == [k \in 0..(m + 1) |-> IF k <= m THEN f[k] ELSE N(f[m])]
  <2>3. \A k \in 0..(m + 1) : h[k] = IF k = 0 THEN s ELSE N(h[k - 1])
    <3> HIDE DEF N
    <3> TAKE k \in 0..(m + 1)
    <3>1. CASE k <= m
          BY <3>1, <2>2
    <3>2. CASE k = m + 1
          BY <3>2
    <3>3. QED BY <3>1, <3>2
  <2>4. h = [k \in 0..(m + 1) |-> h[k]]
        OBVIOUS
  <2> HIDE DEF h
  <2>5. After(p, types, dir, s, m + 1, h)
        BY <2>3, <2>4 DEF After
  <2>6. QED BY <2>5
<1>3. Nat \subseteq T
  <2> HIDE DEF T
  <2>1. QED BY <1>1, <1>2, NatSetInduction
<1>4. QED BY <1>3

\* What is found after k rounds, and that only the frontier has neighbours that are
\* not found.
Searched(g, p, types, dir, seeds, s, k) ==
    /\ s.visited = Within(g, types, dir, seeds, k)
    /\ s.frontier \subseteq s.visited
    /\ \A x \in s.visited \ s.frontier : \A y : Leads(EdgeRows(g), types, dir, x, y) => y \in s.visited
    /\ \A i \in s.boundary : /\ i \in DOMAIN p.boundary.data.rows
                             /\ p.boundary.data.rows[i]["_src"] \in s.visited
                             /\ p.boundary.data.rows[i]["_dst"] \in s.visited

\* A round of a search over the shards finds what is one hop further.
LEMMA SearchedNext ==
    ASSUME NEW g, IsFrame(g), NEW n \in Nat \ {0}, NEW p, CutsUp(p, g, n), NEW types, NEW dir,
           NEW seeds, NEW s, NEW k \in Nat, Searched(g, p, types, dir, seeds, s, k)
    PROVE  Searched(g, p, types, dir, seeds, Round(p, types, dir, s), k + 1)
<1> DEFINE t       == Round(p, types, dir, s)
           L(x, y) == Leads(EdgeRows(g), types, dir, x, y)
<1>1. /\ s.visited = Within(g, types, dir, seeds, k)
      /\ s.frontier \subseteq s.visited
      /\ \A x \in s.visited \ s.frontier : \A y : L(x, y) => y \in s.visited
      BY DEF Searched
<1>2. /\ t.visited = s.visited \cup LedTo(g, types, dir, s.frontier)
      /\ t.frontier = t.visited \ s.visited
      /\ \A i \in t.boundary \ s.boundary : /\ i \in DOMAIN p.boundary.data.rows
                                            /\ p.boundary.data.rows[i]["_src"] \in t.visited
                                            /\ p.boundary.data.rows[i]["_dst"] \in t.visited
      BY <1>1, RoundGoesOn
<1> HIDE DEF t
<1>3. \A x, y : L(x, y) => y \in AllIds(g)
      BY LeadsToNodes
<1>4. \A S : LedTo(g, types, dir, S) = {y \in AllIds(g) : \E x \in S : L(x, y)}
      BY DEF LedTo
<1> HIDE DEF L
<1>5. s.visited \cup LedTo(g, types, dir, s.visited) = t.visited
      BY <1>1, <1>2, <1>4
<1>6. t.visited = Within(g, types, dir, seeds, k + 1)
  <2> DEFINE W == Within(g, types, dir, seeds, k)
  <2>1. Within(g, types, dir, seeds, k + 1) = W \cup LedTo(g, types, dir, W)
        BY WithinNext
  <2>2. W = s.visited
        BY <1>1
  <2> HIDE DEF W
  <2>3. QED BY <1>5, <2>1, <2>2
<1>7. t.frontier \subseteq t.visited
      BY <1>2
<1>8. \A x \in t.visited \ t.frontier : \A y : L(x, y) => y \in t.visited
      BY <1>2, <1>3, <1>4, <1>5
<1>9. \A i \in t.boundary : /\ i \in DOMAIN p.boundary.data.rows
                            /\ p.boundary.data.rows[i]["_src"] \in t.visited
                            /\ p.boundary.data.rows[i]["_dst"] \in t.visited
  <2>1. s.visited \subseteq t.visited
        BY <1>2
  <2>2. QED BY <1>2, <2>1 DEF Searched
<1>10. Searched(g, p, types, dir, seeds, t, k + 1)
       BY <1>6, <1>7, <1>8, <1>9 DEF Searched, L
<1>11. QED BY <1>10 DEF t

\* After some rounds a search over the shards has found what is within as many hops.
LEMMA RoundsSearch ==
    ASSUME NEW g, IsFrame(g), NEW n \in Nat \ {0}, NEW p, CutsUp(p, g, n), NEW types, NEW dir,
           NEW seeds, NEW s, Searched(g, p, types, dir, seeds, s, 0), NEW hops \in Nat
    PROVE  Searched(g, p, types, dir, seeds, Rounds(p, types, dir, s, hops), hops)
<1> DEFINE after == CHOOSE f : After(p, types, dir, s, hops, f)
           T     == {k \in Nat : k <= hops => Searched(g, p, types, dir, seeds, after[k], k)}
<1>1. After(p, types, dir, s, hops, after)
      BY AfterExists
<1>2. Rounds(p, types, dir, s, hops) = after[hops]
      BY DEF Rounds, After
<1> HIDE DEF after
<1>3. \A k \in 0..hops : after[k] = IF k = 0 THEN s ELSE Round(p, types, dir, after[k - 1])
      BY <1>1 DEF After
<1>4. 0 \in T
      BY <1>3
<1>5. ASSUME NEW k \in Nat, k \in T PROVE k + 1 \in T
  <2>1. SUFFICES ASSUME k + 1 <= hops PROVE Searched(g, p, types, dir, seeds, after[k + 1], k + 1)
        OBVIOUS
  <2>2. k <= hops /\ k + 1 \in 0..hops /\ k + 1 # 0 /\ (k + 1) - 1 = k
        BY <2>1
  <2>3. Searched(g, p, types, dir, seeds, after[k], k)
        BY <1>5, <2>2
  <2>4. after[k + 1] = Round(p, types, dir, after[k])
        BY <1>3, <2>2
  <2>5. QED BY <2>3, <2>4, SearchedNext
<1>6. Nat \subseteq T
  <2> HIDE DEF T
  <2>1. QED BY <1>4, <1>5, NatSetInduction
<1>7. Searched(g, p, types, dir, seeds, after[hops], hops)
      BY <1>6
<1>8. QED BY <1>2, <1>7

\* A search over the shards and the boundary finds, for any seeds, types, direction
\* and number of hops, what paths of so many edges of the graph that was cut up lead
\* to; an edge of the boundary that it records is between two nodes it found; and
\* from each shard it puts out the nodes it found there and the edges between them.
\* (What PartitionedGraph::distributed_expand promises beside GraphFrame's search.)
THEOREM DistributedSearchCorrect ==
    ASSUME NEW g, IsFrame(g), NEW n \in Nat \ {0}, NEW p, CutsUp(p, g, n), NEW types, NEW dir,
           NEW seeds, NEW hops \in Nat
    PROVE  LET s == Rounds(p, types, dir, [frontier |-> seeds, visited |-> seeds, boundary |-> {}], hops)
           IN /\ s.visited = Within(g, types, dir, seeds, hops)
              /\ \A i \in s.boundary : /\ i \in DOMAIN p.boundary.data.rows
                                       /\ p.boundary.data.rows[i]["_src"] \in s.visited
                                       /\ p.boundary.data.rows[i]["_dst"] \in s.visited
              /\ \A k \in 1..n :
                    /\ Subgraph(p.shards[k], s.visited).status = "ok"
                    /\ AllIds(Subgraph(p.shards[k], s.visited).value) =
                           {x \in AllIds(g) : x \in s.visited /\ p.shardOf[x] = k}
                    /\ IsPart(Subgraph(p.shards[k], s.visited).value, p.shards[k], s.visited,
                              {r \in DOMAIN EdgeRows(p.shards[k]) :
                                  /\ EdgeRows(p.shards[k])[r]["_src"] \in s.visited
                                  /\ EdgeRows(p.shards[k])[r]["_dst"] \in s.visited})
<1> DEFINE first == [frontier |-> seeds, visited |-> seeds, boundary |-> {}]
           s     == Rounds(p, types, dir, first, hops)
<1>1. Searched(g, p, types, dir, seeds, first, 0)
      BY WithinZero DEF Searched
<1> HIDE DEF first
<1>2. Searched(g, p, types, dir, seeds, s, hops)
      BY <1>1, RoundsSearch
<1> HIDE DEF s
<1>3. ASSUME NEW k \in 1..n
      PROVE  /\ Subgraph(p.shards[k], s.visited).status = "ok"
             /\ AllIds(Subgraph(p.shards[k], s.visited).value) =
                    {x \in AllIds(g) : x \in s.visited /\ p.shardOf[x] = k}
             /\ IsPart(Subgraph(p.shards[k], s.visited).value, p.shards[k], s.visited,
                       {r \in DOMAIN EdgeRows(p.shards[k]) :
                           /\ EdgeRows(p.shards[k])[r]["_src"] \in s.visited
                           /\ EdgeRows(p.shards[k])[r]["_dst"] \in s.visited})
  <2> DEFINE h == p.shards[k]
             X == s.visited
             R == {r \in DOMAIN EdgeRows(h) : EdgeRows(h)[r]["_src"] \in X /\ EdgeRows(h)[r]["_dst"] \in X}
  <2>1. IsFrame(h) /\ AllIds(h) = AllIds(g) \cap HomeOf(p.shardOf, k) /\ DOMAIN p.shardOf = AllIds(g)
        BY DEF CutsUp, IsPart
  <2> HIDE DEF h, X
  <2>2. Subgraph(h, X).status = "ok" /\ IsPart(Subgraph(h, X).value, h, X, R)
        BY <2>1, SubgraphCorrect
  <2>3. AllIds(Subgraph(h, X).value) = {x \in AllIds(g) : x \in X /\ p.shardOf[x] = k}
        BY <2>1, <2>2 DEF IsPart, HomeOf
  <2>4. QED BY <2>2, <2>3 DEF h, X
<1>4. QED BY <1>2, <1>3 DEF Searched, s, first

-----------------------------------------------------------------------------
(* Lists, and folds of them.                                                *)

\* s is a list, of anything.
IsList(s) == \E m \in Nat : DOMAIN s = 1..m /\ s = [i \in 1..m |-> s[i]]

\* The neighbours of some nodes, in any direction.
Around(g, S) == UNION {ToSet(To(OutOf(g, x)) \o To(InTo(g, x))) : x \in S}
\* One round of WithinHops, of Flood, and of ComponentIds.
Adjoined(g, cfg, enter, S) == S \cup ((UNION {AdjacentIds(g, x, cfg) : x \in S}) \cap enter)
Flooded(g, s) ==
    LET near == Around(g, s.frontier) IN [found |-> s.found \cup near, frontier |-> near \ s.found]
Numbered(g, acc, row) ==
    LET ids  == IdsOf(g)
        here == Flood(g, ids[row])
    IN IF acc.of[ids[row]] # Null THEN acc
       ELSE [next |-> acc.next + 1,
             of   |-> [x \in DOMAIN acc.of |-> IF x \in here THEN acc.next ELSE acc.of[x]]]

\* What a fold adds to t for x.
Added(kind, t, x) ==
    CASE kind.fold = "new"    -> IF x \in ToSet(t) THEN t ELSE Append(t, x)
      [] kind.fold = "list"   -> t \o x
      [] kind.fold = "fields" -> WithNew(t, [i \in DOMAIN x.fields |-> x.fields[i].name])
      [] kind.fold = "sum"    -> t + x
      [] kind.fold = "around" -> t \cup Around(kind.g, t)
      [] kind.fold = "within" -> Adjoined(kind.g, kind.cfg, kind.enter, t)
      [] kind.fold = "flood"  -> Flooded(kind.g, t)
      [] kind.fold = "number" -> Numbered(kind.g, t, x)
      [] kind.fold = "seeds"  -> Seeded(kind.g, t, x)
      [] kind.fold = "draws"  -> Drawn(kind.g, t, kind.i, kind.found[x])
      [] kind.fold = "walks"  -> UNION {Further(kind.g, walk, kind.dir, kind.types) : walk \in t}
Folding(name) == [fold |-> name]

\* h is what there is after each of the first m of the list.
UpTo(kind, base, s, m, h) == h = [k \in 0..m |-> IF k = 0 THEN base ELSE Added(kind, h[k - 1], s[k])]
\* f is what there is for each part of the first m of the list, the largest taken last.
OfParts(kind, base, s, m, f) ==
    f = [T \in SUBSET (1..m) |-> IF T = {} THEN base ELSE Added(kind, f[T \ {Max(T)}], s[Max(T)])]

\* The largest of some numbers.
LEMMA MaxIs ==
    ASSUME NEW T, NEW k \in T, T \subseteq Int, \A j \in T : j <= k
    PROVE  Max(T) = k
<1> DEFINE P(x) == x \in T /\ \A j \in T : x >= j
<1>1. P(k)
      OBVIOUS
<1>2. \A x : P(x) => x = k
      OBVIOUS
<1>3. Max(T) = CHOOSE x \in T : \A j \in T : x >= j
      BY DEF Max
<1>4. P(Max(T))
      BY <1>1, <1>3
<1>5. QED BY <1>2, <1>4

\* There is such a fold of every list.
LEMMA PartsExist ==
    ASSUME NEW kind, NEW base, NEW s
    PROVE  \A m \in Nat : \E f : OfParts(kind, base, s, m, f)
<1> DEFINE N(t, x) == Added(kind, t, x)
           E(m) == \E f : OfParts(kind, base, s, m, f)
           S    == {m \in Nat : E(m)}
<1>1. 0 \in S
  <2> DEFINE f == [T \in SUBSET (1..0) |-> base]
  <2>1. SUBSET (1..0) = {{}}
        OBVIOUS
  <2>2. f = [T \in SUBSET (1..0) |-> IF T = {} THEN base ELSE N(f[T \ {Max(T)}], s[Max(T)])]
    <3> HIDE DEF N
    <3>1. QED BY <2>1
  <2> HIDE DEF f
  <2>3. QED BY <2>2 DEF OfParts
<1>2. ASSUME NEW m \in Nat, m \in S PROVE m + 1 \in S
  <2>1. PICK f : OfParts(kind, base, s, m, f)
        BY <1>2
  <2> DEFINE n == m + 1
             g == [T \in SUBSET (1..n) |-> IF n \in T THEN N(f[T \ {n}], s[n]) ELSE f[T]]
  <2>2. \A T \in SUBSET (1..m) : f[T] = IF T = {} THEN base ELSE N(f[T \ {Max(T)}], s[Max(T)])
    <3>1. f = [T \in SUBSET (1..m) |-> IF T = {} THEN base ELSE N(f[T \ {Max(T)}], s[Max(T)])]
          BY <2>1 DEF OfParts
    <3> HIDE DEF N
    <3>2. QED BY <3>1
  <2>3. ASSUME NEW T \in SUBSET (1..n)
        PROVE  g[T] = IF T = {} THEN base ELSE N(g[T \ {Max(T)}], s[Max(T)])
    <3> HIDE DEF N
    <3>1. CASE n \in T
      <4>1. Max(T) = n
        <5>1. n \in T /\ T \subseteq Int /\ \A j \in T : j <= n
              BY <3>1
        <5> HIDE DEF n
        <5>2. QED BY ONLY <5>1, MaxIs, Zenon
      <4>2. T \ {n} \in SUBSET (1..m) /\ T \ {n} \in SUBSET (1..n) /\ n \notin T \ {n} /\ T # {}
            BY <3>1
      <4>3. g[T \ {n}] = f[T \ {n}] /\ g[T] = N(f[T \ {n}], s[n])
            BY <3>1, <4>2
      <4>4. QED BY <4>1, <4>2, <4>3
    <3>2. CASE n \notin T
      <4>1. T \in SUBSET (1..m)
            BY <3>2
      <4>2. \A x : n \notin T \ {x} /\ T \ {x} \in SUBSET (1..n)
            BY <3>2
      <4>3. g[T] = f[T] /\ \A x : g[T \ {x}] = f[T \ {x}]
            BY <3>2, <4>2
      <4>4. QED BY <4>1, <4>3, <2>2
    <3>3. QED BY <3>1, <3>2
  <2>4. g = [T \in SUBSET (1..n) |-> g[T]]
        OBVIOUS
  <2> HIDE DEF g, N
  <2>5. g = [T \in SUBSET (1..n) |-> IF T = {} THEN base ELSE N(g[T \ {Max(T)}], s[Max(T)])]
        BY <2>3, <2>4
  <2>6. OfParts(kind, base, s, n, g)
        BY <2>5 DEF OfParts, N
  <2>7. QED BY <2>6
<1>3. Nat \subseteq S
  <2> HIDE DEF S
  <2>1. QED BY <1>1, <1>2, NatSetInduction
<1>4. QED BY <1>3

\* A fold of a list is what there is after its last.
LEMMA PartsGrow ==
    ASSUME NEW kind, NEW base, NEW s, NEW m \in Nat, NEW f, OfParts(kind, base, s, m, f)
    PROVE  \E h : UpTo(kind, base, s, m, h) /\ f[1..m] = h[m]
<1> DEFINE N(t, x) == Added(kind, t, x)
           h == [k \in 0..m |-> f[1..k]]
<1>1. \A T \in SUBSET (1..m) : f[T] = IF T = {} THEN base ELSE N(f[T \ {Max(T)}], s[Max(T)])
  <2>1. f = [T \in SUBSET (1..m) |-> IF T = {} THEN base ELSE N(f[T \ {Max(T)}], s[Max(T)])]
        BY DEF OfParts
  <2> HIDE DEF N
  <2>2. QED BY <2>1
<1>2. ASSUME NEW k \in 0..m PROVE h[k] = IF k = 0 THEN base ELSE N(h[k - 1], s[k])
  <2> HIDE DEF N
  <2>1. CASE k = 0
    <3>1. 1..k = {} /\ {} \in SUBSET (1..m)
          BY <2>1
    <3>2. f[{}] = base
          BY <1>1, <3>1
    <3>3. QED BY <2>1, <3>1, <3>2
  <2>2. CASE k # 0
    <3>1. 1..k \in SUBSET (1..m) /\ k \in 1..k /\ 1..k # {} /\ k - 1 \in 0..m
          BY <2>2
    <3>2. Max(1..k) = k
      <4> DEFINE T == 1..k
      <4>1. k \in T /\ T \subseteq Int /\ \A j \in T : j <= k
            BY <3>1
      <4> HIDE DEF T
      <4>2. Max(T) = k
            BY ONLY <4>1, MaxIs, Zenon
      <4>3. QED BY <4>2 DEF T
    <3>3. (1..k) \ {k} = 1..(k - 1)
          OBVIOUS
    <3>4. f[1..k] = N(f[1..(k - 1)], s[k])
          BY <1>1, <3>1, <3>2, <3>3
    <3>5. QED BY <2>2, <3>1, <3>4
  <2>3. QED BY <2>1, <2>2
<1>3. h = [k \in 0..m |-> h[k]] /\ h[m] = f[1..m]
      OBVIOUS
<1> HIDE DEF h, N
<1>4. h = [k \in 0..m |-> IF k = 0 THEN base ELSE N(h[k - 1], s[k])]
      BY <1>2, <1>3
<1>5. UpTo(kind, base, s, m, h)
      BY <1>4 DEF UpTo, N
<1>6. QED BY <1>3, <1>5

\* How long a list is.
LEMMA ListLen ==
    ASSUME NEW s, NEW m \in Nat, DOMAIN s = 1..m
    PROVE  Len(s) = m
BY SMT

\* What a fold comes to, step by step.
LEMMA FoldSteps ==
    ASSUME NEW kind, NEW base, NEW s, NEW m \in Nat
    PROVE  /\ \E f : OfParts(kind, base, s, m, f)
           /\ \A f : OfParts(kind, base, s, m, f) => \E h : UpTo(kind, base, s, m, h) /\ f[1..m] = h[m]
BY PartsExist, PartsGrow

\* The names that are new.
LEMMA WithNewFolds ==
    ASSUME NEW acc, NEW s, NEW m \in Nat, DOMAIN s = 1..m
    PROVE  \E h : UpTo(Folding("new"), acc, s, m, h) /\ WithNew(acc, s) = h[m]
<1> DEFINE N(t, x) == IF x \in ToSet(t) THEN t ELSE Append(t, x)
           W == CHOOSE f : f = [T \in SUBSET (1..m) |-> IF T = {} THEN acc ELSE N(f[T \ {Max(T)}], s[Max(T)])]
<1>1. WithNew(acc, s) = W[1..m]
      BY DEF WithNew, FoldLeft, MapThenFoldSet
<1>2. \A t, x : Added(Folding("new"), t, x) = N(t, x)
      BY DEF Added, Folding
<1> HIDE DEF N
<1>3. ASSUME NEW f
      PROVE  OfParts(Folding("new"), acc, s, m, f)
             <=> f = [T \in SUBSET (1..m) |-> IF T = {} THEN acc ELSE N(f[T \ {Max(T)}], s[Max(T)])]
      BY <1>2 DEF OfParts
<1>4. OfParts(Folding("new"), acc, s, m, W)
      BY <1>3, FoldSteps
<1> HIDE DEF W
<1>5. QED BY <1>1, <1>4, FoldSteps

\* One more at the end.
LEMMA OneMore ==
    ASSUME NEW U, NEW t \in Seq(U), NEW x \in U
    PROVE  /\ Append(t, x) \in Seq(U) /\ ToSet(Append(t, x)) = ToSet(t) \cup {x}
           /\ IsInjective(t) /\ x \notin ToSet(t) => IsInjective(Append(t, x))
<1> DEFINE u == Append(t, x)
<1>1. /\ u \in Seq(U) /\ Len(t) \in Nat /\ DOMAIN t = 1..Len(t) /\ DOMAIN u = 1..(Len(t) + 1)
      /\ \A i \in 1..Len(t) : u[i] = t[i]
      /\ u[Len(t) + 1] = x
      BY AppendProperties, LenProperties
<1> HIDE DEF u
<1> DEFINE n == Len(t)
<1> HIDE DEF n
<1>2. /\ n \in Nat /\ DOMAIN t = 1..n /\ DOMAIN u = 1..(n + 1)
      /\ (\A i \in 1..n : u[i] = t[i]) /\ u[n + 1] = x
      BY <1>1 DEF n
<1>3. ToSet(u) = ToSet(t) \cup {x}
  <2>1. ASSUME NEW y \in ToSet(u) PROVE y \in ToSet(t) \cup {x}
        BY <1>2 DEF ToSet
  <2>2. ASSUME NEW y \in ToSet(t) \cup {x} PROVE y \in ToSet(u)
    <3>1. n + 1 \in 1..(n + 1) /\ \A i \in 1..n : i \in 1..(n + 1)
          BY <1>2
    <3>2. QED BY <1>2, <3>1 DEF ToSet
  <2>3. QED BY <2>1, <2>2
<1>4. ASSUME IsInjective(t), x \notin ToSet(t) PROVE IsInjective(u)
  <2>1. \A i \in 1..n : t[i] # x
        BY <1>2, <1>4 DEF ToSet
  <2>2. \A i, j \in 1..n : t[i] = t[j] => i = j
        BY <1>2, <1>4 DEF IsInjective
  <2>3. \A i \in 1..(n + 1) : i \in 1..n \/ i = n + 1
        BY <1>2
  <2>4. \A i, j \in 1..(n + 1) : u[i] = u[j] => i = j
        BY <1>2, <2>1, <2>2, <2>3
  <2>5. QED BY <1>2, <2>4 DEF IsInjective
<1>5. QED BY <1>1, <1>3, <1>4 DEF u

\* The names that are new, each once, come after the others.
LEMMA WithNewLists ==
    ASSUME NEW U, NEW acc \in Seq(U), NEW s \in Seq(U)
    PROVE  /\ WithNew(acc, s) \in Seq(U) /\ ToSet(WithNew(acc, s)) = ToSet(acc) \cup ToSet(s)
           /\ IsInjective(acc) => IsInjective(WithNew(acc, s))
<1> DEFINE m == Len(s)
<1>1. m \in Nat /\ DOMAIN s = 1..m /\ \A i \in 1..m : s[i] \in U
      BY LenProperties, ElementOfSeq
<1> HIDE DEF m
<1>2. PICK h : UpTo(Folding("new"), acc, s, m, h) /\ WithNew(acc, s) = h[m]
      BY <1>1, WithNewFolds
<1>3. h[0] = acc /\ \A k \in 1..m : h[k] = IF s[k] \in ToSet(h[k - 1]) THEN h[k - 1] ELSE Append(h[k - 1], s[k])
  <2> DEFINE N(t, x) == Added(Folding("new"), t, x)
  <2>1. h = [k \in 0..m |-> IF k = 0 THEN acc ELSE N(h[k - 1], s[k])]
        BY <1>2 DEF UpTo
  <2>2. \A t, x : N(t, x) = IF x \in ToSet(t) THEN t ELSE Append(t, x)
        BY DEF Added, Folding
  <2> HIDE DEF N
  <2>3. h[0] = acc /\ \A k \in 1..m : h[k] = N(h[k - 1], s[k])
        BY <1>1, <2>1
  <2>4. QED BY <2>2, <2>3
<1> DEFINE P(k) == /\ h[k] \in Seq(U) /\ ToSet(h[k]) = ToSet(acc) \cup {s[i] : i \in 1..k}
                   /\ IsInjective(acc) => IsInjective(h[k])
           T == {k \in Nat : k <= m => P(k)}
<1>4. 0 \in T
      BY <1>3
<1>5. ASSUME NEW k \in Nat, k \in T PROVE k + 1 \in T
  <2>1. SUFFICES ASSUME k + 1 <= m PROVE P(k + 1)
        OBVIOUS
  <2>2. P(k) /\ k + 1 \in 1..m /\ (k + 1) - 1 = k
        BY <1>1, <1>5, <2>1
  <2>3. s[k + 1] \in U /\ h[k + 1] = IF s[k + 1] \in ToSet(h[k]) THEN h[k] ELSE Append(h[k], s[k + 1])
        BY <1>1, <1>3, <2>2
  <2>4. {s[i] : i \in 1..(k + 1)} = {s[i] : i \in 1..k} \cup {s[k + 1]}
    <3>1. 1..(k + 1) = (1..k) \cup {k + 1}
          OBVIOUS
    <3>2. QED BY <3>1
  <2>5. CASE s[k + 1] \in ToSet(h[k])
        BY <2>2, <2>3, <2>4, <2>5
  <2>6. CASE s[k + 1] \notin ToSet(h[k])
    <3> DEFINE x == s[k + 1]
               t == h[k]
    <3>1. t \in Seq(U) /\ x \in U /\ h[k + 1] = Append(t, x)
          BY <2>2, <2>3, <2>6
    <3>2. /\ Append(t, x) \in Seq(U) /\ ToSet(Append(t, x)) = ToSet(t) \cup {x}
          /\ IsInjective(t) /\ x \notin ToSet(t) => IsInjective(Append(t, x))
      <4> HIDE DEF x, t
      <4>1. QED BY <3>1, OneMore
    <3>3. QED BY <2>2, <2>4, <2>6, <3>1, <3>2
  <2>7. QED BY <2>5, <2>6
<1>6. Nat \subseteq T
  <2> HIDE DEF T
  <2>1. QED BY <1>4, <1>5, NatSetInduction
<1>7. P(m)
  <2>1. m \in T
        BY <1>1, <1>6
  <2> HIDE DEF P
  <2>2. QED BY <1>1, <2>1
<1>8. {s[i] : i \in 1..m} = ToSet(s)
      BY <1>1 DEF ToSet
<1>9. QED BY <1>2, <1>7, <1>8

\* A sum.
LEMMA SumFolds ==
    ASSUME NEW base, NEW s, NEW m \in Nat, DOMAIN s = 1..m
    PROVE  \E h : UpTo(Folding("sum"), base, s, m, h) /\ FoldLeft(+, base, s) = h[m]
<1> DEFINE N(t, x) == t + x
           W == CHOOSE f : f = [T \in SUBSET (1..m) |-> IF T = {} THEN base ELSE N(f[T \ {Max(T)}], s[Max(T)])]
           total == FoldLeft(+, base, s)
<1>1. total = W[1..m]
      BY DEF FoldLeft, MapThenFoldSet
<1>2. \A t, x : Added(Folding("sum"), t, x) = N(t, x)
      BY DEF Added, Folding
<1> HIDE DEF N
<1>3. ASSUME NEW f
      PROVE  OfParts(Folding("sum"), base, s, m, f)
             <=> f = [T \in SUBSET (1..m) |-> IF T = {} THEN base ELSE N(f[T \ {Max(T)}], s[Max(T)])]
      BY <1>2 DEF OfParts
<1>4. OfParts(Folding("sum"), base, s, m, W)
      BY <1>3, FoldSteps
<1> HIDE DEF W, total
<1>5. \E h : UpTo(Folding("sum"), base, s, m, h) /\ total = h[m]
      BY <1>1, <1>4, FoldSteps
<1>6. QED BY <1>5 DEF total

-----------------------------------------------------------------------------
(* Lists put together.                                                      *)

\* After how many of the lists how much is put together.
Gone(ss, m, f) == f = [k \in 0..m |-> IF k = 0 THEN <<>> ELSE f[k - 1] \o ss[k]]

\* FlattenSeq puts the lists together one by one.
LEMMA FlattenSteps ==
    ASSUME NEW U, NEW ss \in Seq(Seq(U))
    PROVE  \E f : Gone(ss, Len(ss), f) /\ FlattenSeq(ss) = f[Len(ss)]
<1> DEFINE m    == Len(ss)
           kind == Folding("list")
           none == <<>>
           W    == CHOOSE f : f = [i \in 1..m |-> IF i = 1 THEN ss[i] ELSE f[i - 1] \o ss[i]]
<1>1. m \in Nat /\ DOMAIN ss = 1..m /\ ss = [i \in 1..m |-> ss[i]] /\ \A i \in 1..m : ss[i] \in Seq(U)
      BY LenProperties, ElementOfSeq
<1>2. \A t, x : Added(kind, t, x) = t \o x
      BY DEF Added, Folding
<1>3. \A h : UpTo(kind, none, ss, m, h) <=> h = [k \in 0..m |-> IF k = 0 THEN none ELSE h[k - 1] \o ss[k]]
      BY <1>2 DEF UpTo
<1>4. \A x \in Seq(U) : none \o x = x
      BY ConcatEmptySeq
<1>5. FlattenSeq(ss) = IF m = 0 THEN ss ELSE W[m]
      BY DEF FlattenSeq
<1> HIDE DEF m, kind
<1>6. PICK h : h = [k \in 0..m |-> IF k = 0 THEN none ELSE h[k - 1] \o ss[k]]
  <2>1. \E h : UpTo(kind, none, ss, m, h)
    <3> HIDE DEF none
    <3>1. QED BY <1>1, FoldSteps, PartsExist, PartsGrow
  <2>2. QED BY <1>3, <2>1
<1>7. W = [i \in 1..m |-> IF i = 1 THEN ss[i] ELSE W[i - 1] \o ss[i]]
  <2> DEFINE g == [i \in 1..m |-> h[i]]
  <2>1. \A i \in 1..m : h[i] = h[i - 1] \o ss[i]
    <3> TAKE i \in 1..m
    <3>1. i \in 0..m /\ i # 0
          BY <1>1
    <3> HIDE DEF none
    <3>2. QED BY <1>6, <3>1
  <2>2. h[0] = none
    <3> HIDE DEF none
    <3>1. 0 \in 0..m
          BY <1>1
    <3>2. QED BY <1>6, <3>1
  <2>3. \A i \in 1..m : g[i] = IF i = 1 THEN ss[i] ELSE g[i - 1] \o ss[i]
    <3> TAKE i \in 1..m
    <3>1. CASE i = 1
      <4> HIDE DEF none, g
      <4>0. 1 \in 1..m /\ 1 - 1 = 0
            BY <3>1
      <4>1. h[1] = h[1 - 1] \o ss[1]
            BY <2>1, <4>0
      <4>5. h[1] = none \o ss[1]
            BY <2>2, <4>0, <4>1
      <4>6. g[i] = h[1]
            BY <3>1 DEF g
      <4>7. ss[1] \in Seq(U)
            BY <1>1, <4>0
      <4>8. h[1] = ss[1]
            BY <1>4, <4>5, <4>7
      <4>9. QED BY <3>1, <4>6, <4>8
    <3>2. CASE i # 1
      <4>1. i - 1 \in 1..m
            BY <1>1, <3>2
      <4>2. g[i] = h[i] /\ g[i - 1] = h[i - 1]
            BY <4>1
      <4>3. QED BY <2>1, <3>2, <4>2
    <3>3. QED BY <3>1, <3>2
  <2>4. g = [i \in 1..m |-> g[i]]
        OBVIOUS
  <2> HIDE DEF g
  <2>5. g = [i \in 1..m |-> IF i = 1 THEN ss[i] ELSE g[i - 1] \o ss[i]]
        BY <2>3, <2>4
  <2>6. QED BY <2>5
<1> HIDE DEF W
<1> DEFINE f == [k \in 0..m |-> IF k = 0 THEN none ELSE W[k]]
<1>8. \A k \in 0..m : f[k] = IF k = 0 THEN none ELSE f[k - 1] \o ss[k]
  <2> TAKE k \in 0..m
  <2>1. CASE k = 0
        BY <2>1
  <2>2. CASE k = 1
    <3>1. 1 \in 1..m /\ 1 \in 0..m /\ 0 \in 0..m /\ 1 # 0 /\ 1 - 1 = 0
          BY <1>1, <2>2
    <3>2. W[1] = ss[1]
          BY <1>7, <3>1
    <3>3. f[0] = none /\ f[1] = W[1]
          BY <3>1
    <3>4. ss[1] \in Seq(U)
          BY <1>1, <3>1
    <3> HIDE DEF none, f
    <3>5. f[1] = none \o ss[1]
          BY <1>4, <3>2, <3>3, <3>4
    <3>6. f[1] = f[1 - 1] \o ss[1]
          BY <3>1, <3>3, <3>5
    <3>7. QED BY <2>2, <3>1, <3>6
  <2>3. CASE k # 0 /\ k # 1
    <3>1. k \in 1..m /\ k - 1 \in 1..m /\ k - 1 \in 0..m /\ k - 1 # 0
          BY <1>1, <2>3
    <3>2. W[k] = W[k - 1] \o ss[k]
          BY <1>7, <2>3, <3>1
    <3>3. f[k] = W[k] /\ f[k - 1] = W[k - 1]
          BY <2>3, <3>1
    <3> HIDE DEF f
    <3>4. QED BY <2>3, <3>2, <3>3
  <2>4. QED BY <2>1, <2>2, <2>3
<1>9. f = [k \in 0..m |-> f[k]]
      OBVIOUS
<1>10. f[m] = FlattenSeq(ss)
  <2>1. CASE m = 0
    <3>1. ss = none
          BY <1>1, <2>1
    <3>2. f[m] = none
          BY <2>1
    <3> HIDE DEF none, f
    <3>3. QED BY <1>5, <2>1, <3>1, <3>2
  <2>2. CASE m # 0
    <3>1. m \in 0..m
          BY <1>1
    <3>2. QED BY <1>5, <2>2, <3>1
  <2>3. QED BY <2>1, <2>2
<1> HIDE DEF f
<1>11. f = [k \in 0..m |-> IF k = 0 THEN none ELSE f[k - 1] \o ss[k]]
  <2> HIDE DEF none
  <2>1. QED BY <1>8, <1>9
<1>12. Gone(ss, m, f)
       BY <1>11 DEF Gone
<1>13. QED BY <1>10, <1>12 DEF m

\* Where each of the lists is in what they are put together to: list k after place o[k - 1].
Lies(ss, m, o, flat) ==
    /\ o[0] = 0 /\ \A k \in 0..m : o[k] \in Nat
    /\ \A k \in 1..m : o[k] = o[k - 1] + Len(ss[k])
    /\ Len(flat) = o[m] /\ DOMAIN flat = 1..o[m]
    /\ \A k \in 1..m : \A i \in 1..Len(ss[k]) : o[k - 1] + i \in 1..o[m] /\ flat[o[k - 1] + i] = ss[k][i]
    /\ \A q \in 1..o[m] : \E k \in 1..m : \E i \in 1..Len(ss[k]) : q = o[k - 1] + i

\* FlattenSeq puts lists together so.
LEMMA FlattenLies ==
    ASSUME NEW U, NEW ss \in Seq(Seq(U))
    PROVE  FlattenSeq(ss) \in Seq(U) /\ \E o : Lies(ss, Len(ss), o, FlattenSeq(ss))
<1> DEFINE m == Len(ss)
<1>1. m \in Nat /\ \A k \in 1..m : /\ ss[k] \in Seq(U) /\ Len(ss[k]) \in Nat
                                   /\ DOMAIN ss[k] = 1..Len(ss[k])
      BY LenProperties, ElementOfSeq
<1>2. PICK f : Gone(ss, m, f) /\ FlattenSeq(ss) = f[m]
      BY FlattenSteps
<1> HIDE DEF m
<1>3. f[0] = <<>> /\ \A k \in 1..m : f[k] = f[k - 1] \o ss[k]
  <2>1. f = [k \in 0..m |-> IF k = 0 THEN <<>> ELSE f[k - 1] \o ss[k]]
        BY <1>2 DEF Gone
  <2>2. 0 \in 0..m /\ \A k \in 1..m : k \in 0..m /\ k # 0
        BY <1>1
  <2>3. QED BY <2>1, <2>2
<1> DEFINE o == [k \in 0..m |-> Len(f[k])]
           P(k) == f[k] \in Seq(U) /\ Lies(ss, k, o, f[k])
           T == {k \in Nat : k <= m => P(k)}
<1>4. 0 \in T
  <2>1. o[0] = 0 /\ 0 \in 0..m
    <3>1. 0 \in 0..m
          BY <1>1
    <3>2. o[0] = Len(f[0])
          BY <3>1
    <3>3. Len(f[0]) = 0
          BY <1>3
    <3>4. QED BY <3>1, <3>2, <3>3
  <2>2. f[0] \in Seq(U) /\ DOMAIN f[0] = 1..0 /\ Len(f[0]) = 0
        BY <1>3
  <2> HIDE DEF o
  <2>3. Lies(ss, 0, o, f[0])
        BY <2>1, <2>2 DEF Lies
  <2>4. QED BY <2>2, <2>3
<1>5. ASSUME NEW k \in Nat, k \in T PROVE k + 1 \in T
  <2>1. SUFFICES ASSUME k + 1 <= m PROVE P(k + 1)
        OBVIOUS
  <2> DEFINE n == k + 1
  <2>2. P(k) /\ n \in 1..m /\ n - 1 = k /\ k \in 0..m /\ n \in 0..m
        BY <1>1, <1>5, <2>1
  <2>3. o[k] = Len(f[k]) /\ o[n] = Len(f[n])
        BY <2>2
  <2>4. f[n] = f[k] \o ss[n]
        BY <1>3, <2>2
  <2> HIDE DEF o
  <2> DEFINE s == f[k]
             t == ss[n]
             a == Len(s)
             b == Len(t)
             u == f[n]
  <2>5. s \in Seq(U) /\ t \in Seq(U) /\ a \in Nat /\ b \in Nat
        BY <1>1, <2>2, LenProperties
  <2>6. /\ u \in Seq(U) /\ Len(u) = a + b /\ DOMAIN u = 1..(a + b)
        /\ \A i \in 1..a : u[i] = s[i]
        /\ \A i \in 1..b : u[a + i] = t[i]
    <3>1. u = s \o t
          BY <2>4
    <3> HIDE DEF u, s, t
    <3>2. u \in Seq(U) /\ Len(u) = a + b
          BY <2>5, <3>1, ConcatProperties
    <3>3. DOMAIN u = 1..(a + b)
          BY <3>2, LenProperties
    <3>4. \A i \in 1..(a + b) : u[i] = IF i <= a THEN s[i] ELSE t[i - a]
          BY <2>5, <3>1, ConcatProperties
    <3> HIDE DEF a, b
    <3>5. \A i \in 1..a : i \in 1..(a + b) /\ i <= a
          BY <2>5
    <3>6. \A i \in 1..b : a + i \in 1..(a + b) /\ ~(a + i <= a) /\ (a + i) - a = i
          BY <2>5
    <3>7. QED BY <3>2, <3>3, <3>4, <3>5, <3>6
  <2>7. o[k] = a /\ o[n] = a + b
        BY <2>3, <2>6
  <2>8. Lies(ss, k, o, s)
        BY <2>2
  <2> HIDE DEF s, t, u, a, b, P
  <2>9. /\ o[0] = 0 /\ (\A j \in 0..k : o[j] \in Nat)
        /\ \A j \in 1..k : o[j] = o[j - 1] + Len(ss[j])
        /\ \A j \in 1..k : \A i \in 1..Len(ss[j]) : o[j - 1] + i \in 1..a /\ s[o[j - 1] + i] = ss[j][i]
        /\ \A q \in 1..a : \E j \in 1..k : \E i \in 1..Len(ss[j]) : q = o[j - 1] + i
        BY <2>7, <2>8 DEF Lies
  <2>10. (\A j \in 0..n : j \in 0..k \/ j = n) /\ (\A j \in 1..n : j \in 1..k \/ j = n) /\ n \in 1..n
         /\ 1..k \subseteq 1..n
        BY <2>2
  <2>11. Len(ss[n]) = b /\ n - 1 = k
        BY <2>2 DEF b, t
  <2>12. /\ \A j \in 0..n : o[j] \in Nat
         /\ \A j \in 1..n : o[j] = o[j - 1] + Len(ss[j])
    <3> HIDE DEF n
    <3>1. ASSUME NEW j \in 0..n PROVE o[j] \in Nat
          BY <2>5, <2>7, <2>9, <2>10
    <3>2. ASSUME NEW j \in 1..n PROVE o[j] = o[j - 1] + Len(ss[j])
      <4>1. CASE j \in 1..k
            BY <2>9, <4>1
      <4>2. CASE j = n
            BY <2>7, <2>11, <4>2
      <4>3. QED BY <2>10, <4>1, <4>2
    <3>3. QED BY <3>1, <3>2
  <2> HIDE DEF n
  <2>13. \A j \in 1..n : \A i \in 1..Len(ss[j]) : o[j - 1] + i \in 1..(a + b) /\ u[o[j - 1] + i] = ss[j][i]
    <3> TAKE j \in 1..n
    <3> TAKE i \in 1..Len(ss[j])
    <3>1. CASE j \in 1..k
      <4>1. o[j - 1] + i \in 1..a /\ s[o[j - 1] + i] = ss[j][i]
            BY <2>9, <3>1
      <4> DEFINE q == o[j - 1] + i
      <4>2. q \in 1..a /\ s[q] = ss[j][i]
            BY <4>1
      <4> HIDE DEF q
      <4>3. q \in 1..(a + b) /\ u[q] = ss[j][i]
            BY <2>5, <2>6, <4>2
      <4>4. QED BY <4>3 DEF q
    <3>2. CASE j = n
      <4>1. o[j - 1] = a /\ i \in 1..b /\ ss[j] = t
            BY <2>7, <2>11, <3>2 DEF t
      <4>2. QED BY <2>5, <2>6, <4>1
    <3>3. QED BY <2>10, <3>1, <3>2
  <2>14. \A q \in 1..(a + b) : \E j \in 1..n : \E i \in 1..Len(ss[j]) : q = o[j - 1] + i
    <3> TAKE q \in 1..(a + b)
    <3>1. CASE q \in 1..a
          BY <2>9, <2>10, <3>1
    <3>2. CASE q \notin 1..a
      <4>1. q - a \in 1..b /\ q = a + (q - a)
            BY <2>5, <3>2
      <4>2. QED BY <2>7, <2>10, <2>11, <4>1
    <3>3. QED BY <3>1, <3>2
  <2>15. Lies(ss, n, o, u)
        BY <2>6, <2>7, <2>9, <2>12, <2>13, <2>14 DEF Lies
  <2>16. QED BY <2>6, <2>15 DEF P, u, n
<1>6. Nat \subseteq T
  <2> HIDE DEF T
  <2>1. QED BY <1>4, <1>5, NatSetInduction
<1>7. P(m)
  <2>1. m \in T
        BY <1>1, <1>6
  <2> HIDE DEF P
  <2>2. QED BY <1>1, <2>1
<1> HIDE DEF o
<1>8. QED BY <1>2, <1>7 DEF m

\* What is in lists put together.
LEMMA FlattenHas ==
    ASSUME NEW U, NEW ss \in Seq(Seq(U))
    PROVE  /\ FlattenSeq(ss) \in Seq(U)
           /\ ToSet(FlattenSeq(ss)) = UNION {ToSet(ss[k]) : k \in DOMAIN ss}
           /\ (\A k \in DOMAIN ss : IsInjective(ss[k]))
              /\ (\A k, l \in DOMAIN ss : k # l => ToSet(ss[k]) \cap ToSet(ss[l]) = {})
                 => IsInjective(FlattenSeq(ss))
<1> DEFINE m == Len(ss)
           flat == FlattenSeq(ss)
<1>1. /\ m \in Nat /\ DOMAIN ss = 1..m
      /\ \A k \in 1..m : ss[k] \in Seq(U) /\ DOMAIN ss[k] = 1..Len(ss[k])
      BY LenProperties, ElementOfSeq
<1>2. flat \in Seq(U)
      BY FlattenLies
<1>3. PICK o : Lies(ss, m, o, flat)
      BY FlattenLies
<1> HIDE DEF m, flat
<1>4. /\ DOMAIN flat = 1..o[m]
      /\ \A k \in 1..m : \A i \in 1..Len(ss[k]) : o[k - 1] + i \in 1..o[m] /\ flat[o[k - 1] + i] = ss[k][i]
      /\ \A q \in 1..o[m] : \E k \in 1..m : \E i \in 1..Len(ss[k]) : q = o[k - 1] + i
      BY <1>3 DEF Lies
<1>5. ASSUME NEW q \in 1..o[m]
      PROVE  \E k \in 1..m : \E i \in 1..Len(ss[k]) : q = o[k - 1] + i /\ flat[q] = ss[k][i] /\ ss[k][i] \in ToSet(ss[k])
  <2>1. PICK k \in 1..m : \E i \in 1..Len(ss[k]) : q = o[k - 1] + i
        BY <1>4
  <2>2. PICK i \in 1..Len(ss[k]) : q = o[k - 1] + i
        BY <2>1
  <2>3. flat[o[k - 1] + i] = ss[k][i] /\ ss[k][i] \in ToSet(ss[k])
        BY <1>1, <1>4 DEF ToSet
  <2>4. QED BY <2>2, <2>3
<1>6. ToSet(flat) = UNION {ToSet(ss[k]) : k \in DOMAIN ss}
  <2>1. ASSUME NEW x \in ToSet(flat) PROVE \E k \in 1..m : x \in ToSet(ss[k])
    <3>1. PICK q \in 1..o[m] : x = flat[q]
          BY <1>4 DEF ToSet
    <3>2. QED BY <1>5, <3>1
  <2>2. ASSUME NEW k \in 1..m, NEW x \in ToSet(ss[k]) PROVE x \in ToSet(flat)
    <3>1. PICK i \in 1..Len(ss[k]) : x = ss[k][i]
          BY <1>1 DEF ToSet
    <3> DEFINE q == o[k - 1] + i
    <3>2. q \in 1..o[m] /\ flat[q] = x
          BY <1>4, <3>1
    <3> HIDE DEF q
    <3>3. QED BY <1>4, <3>2 DEF ToSet
  <2>3. QED BY <1>1, <2>1, <2>2
<1>7. ASSUME \A k \in 1..m : IsInjective(ss[k]),
             \A k, l \in 1..m : k # l => ToSet(ss[k]) \cap ToSet(ss[l]) = {}
      PROVE  IsInjective(flat)
  <2>1. SUFFICES ASSUME NEW p \in 1..o[m], NEW q \in 1..o[m], flat[p] = flat[q] PROVE p = q
        BY <1>4 DEF IsInjective
  <2>2. PICK k \in 1..m : \E i \in 1..Len(ss[k]) : p = o[k - 1] + i /\ flat[p] = ss[k][i] /\ ss[k][i] \in ToSet(ss[k])
        BY <1>5
  <2>3. PICK i \in 1..Len(ss[k]) : p = o[k - 1] + i /\ flat[p] = ss[k][i] /\ ss[k][i] \in ToSet(ss[k])
        BY <2>2
  <2>4. PICK l \in 1..m : \E j \in 1..Len(ss[l]) : q = o[l - 1] + j /\ flat[q] = ss[l][j] /\ ss[l][j] \in ToSet(ss[l])
        BY <1>5
  <2>5. PICK j \in 1..Len(ss[l]) : q = o[l - 1] + j /\ flat[q] = ss[l][j] /\ ss[l][j] \in ToSet(ss[l])
        BY <2>4
  <2>6. k = l
    <3>1. ss[k][i] \in ToSet(ss[k]) \cap ToSet(ss[l])
          BY <2>1, <2>3, <2>5
    <3>2. QED BY <1>7, <3>1
  <2>7. i = j
    <3>1. IsInjective(ss[k]) /\ i \in DOMAIN ss[k] /\ j \in DOMAIN ss[k] /\ ss[k][i] = ss[k][j]
          BY <1>1, <1>7, <2>1, <2>3, <2>5, <2>6
    <3>2. QED BY <3>1 DEF IsInjective
  <2>8. QED BY <2>3, <2>5, <2>6, <2>7
<1>8. QED BY <1>1, <1>2, <1>6, <1>7 DEF flat

-----------------------------------------------------------------------------
(* Compressed rows.                                                         *)

\* As many values as arguments, where no two have the same.
LEMMA SameSize ==
    ASSUME NEW Q, IsFiniteSet(Q), NEW f, \A x, y \in Q : f[x] = f[y] => x = y
    PROVE  IsFiniteSet({f[x] : x \in Q}) /\ Cardinality({f[x] : x \in Q}) = Cardinality(Q)
<1> DEFINE T == {f[x] : x \in Q}
           h == [x \in Q |-> f[x]]
<1>1. h \in [Q -> T] /\ (\A x \in Q : h[x] = f[x]) /\ \A y \in T : \E x \in Q : f[x] = y
      OBVIOUS
<1> HIDE DEF h, T
<1>2. h \in Injection(Q, T) /\ h \in Surjection(Q, T)
      BY <1>1 DEF Injection, Surjection, IsInjective
<1>3. IsFiniteSet(T) /\ Cardinality(T) = Cardinality(Q)
      BY <1>2, FS_Surjection
<1>4. QED BY <1>3 DEF T

\* The elements that come before x in the order R.
Ahead(S, R, x) == {y \in S : <<y, x>> \in R}

\* In a total order each place is one element's.
LEMMA PlacesOf ==
    ASSUME NEW S, IsFiniteSet(S), NEW R, \A x \in S : <<x, x>> \notin R,
           \A x, y, z \in S : <<x, y>> \in R /\ <<y, z>> \in R => <<x, z>> \in R,
           \A x, y \in S : x # y => <<x, y>> \in R \/ <<y, x>> \in R
    PROVE  /\ \A x \in S : IsFiniteSet(Ahead(S, R, x)) /\ Cardinality(Ahead(S, R, x)) \in 0..(Cardinality(S) - 1)
           /\ \A x, y \in S : <<x, y>> \in R => Cardinality(Ahead(S, R, x)) < Cardinality(Ahead(S, R, y))
           /\ \A i \in 0..(Cardinality(S) - 1) : \E x \in S : Cardinality(Ahead(S, R, x)) = i
<1> DEFINE A(x) == Ahead(S, R, x)
           n    == Cardinality(S)
           c    == [x \in S |-> Cardinality(A(x))]
           I    == 0..(n - 1)
<1>1. n \in Nat
      BY FS_CardinalityType
<1>2. ASSUME NEW x \in S PROVE A(x) \in SUBSET S /\ x \notin A(x) /\ A(x) # S
      BY DEF Ahead
<1> HIDE DEF A, n
<1>3. ASSUME NEW x \in S
      PROVE  IsFiniteSet(A(x)) /\ Cardinality(A(x)) \in Nat /\ Cardinality(A(x)) \in I
  <2>1. IsFiniteSet(A(x)) /\ Cardinality(A(x)) <= n /\ Cardinality(A(x)) # n
        BY <1>2, FS_Subset DEF n
  <2>2. Cardinality(A(x)) \in Nat
        BY <2>1, FS_CardinalityType
  <2> DEFINE a == Cardinality(A(x))
  <2> HIDE DEF a
  <2>3. a \in Nat /\ a <= n /\ a # n
        BY <2>1, <2>2 DEF a
  <2>4. a \in 0..(n - 1)
        BY <1>1, <2>3
  <2>5. QED BY <2>1, <2>2, <2>4 DEF a
<1>4. ASSUME NEW x \in S, NEW y \in S, <<x, y>> \in R PROVE Cardinality(A(x)) < Cardinality(A(y))
  <2>1. A(x) \in SUBSET A(y) /\ x \in A(y) /\ x \notin A(x)
    <3>1. \A z \in S : <<z, x>> \in R => <<z, y>> \in R
          BY <1>4
    <3>2. QED BY <1>4, <3>1 DEF A, Ahead
  <2>2. Cardinality(A(x)) <= Cardinality(A(y)) /\ Cardinality(A(x)) # Cardinality(A(y))
        BY <1>3, <2>1, FS_Subset
  <2>3. Cardinality(A(x)) \in Nat /\ Cardinality(A(y)) \in Nat
        BY <1>3
  <2>4. QED BY <2>2, <2>3
<1>5. c \in [S -> I] /\ \A x \in S : c[x] = Cardinality(A(x)) /\ c[x] \in Nat
      BY <1>3
<1> HIDE DEF c
<1>6. \A x, y \in S : c[x] = c[y] => x = y
  <2> SUFFICES ASSUME NEW x \in S, NEW y \in S, c[x] = c[y], x # y PROVE FALSE
      OBVIOUS
  <2>1. <<x, y>> \in R \/ <<y, x>> \in R
        OBVIOUS
  <2>2. c[x] < c[y] \/ c[y] < c[x]
        BY <1>4, <1>5, <2>1
  <2>3. c[x] \in Nat /\ c[y] \in Nat
        BY <1>5
  <2>4. QED BY <2>2, <2>3
<1>7. IsFiniteSet(I) /\ Cardinality(I) = n
  <2>1. 0 \in Int /\ n - 1 \in Int
        BY <1>1
  <2>2. IsFiniteSet(I) /\ Cardinality(I) = IF 0 > n - 1 THEN 0 ELSE (n - 1) - 0 + 1
        BY <2>1, FS_Interval
  <2> HIDE DEF I
  <2>3. QED BY <1>1, <2>2
<1>8. c \in Injection(S, I)
      BY <1>5, <1>6 DEF Injection, IsInjective
<1>9. c \in Surjection(S, I)
  <2> HIDE DEF I
  <2>1. QED BY <1>7, <1>8, FS_Injection DEF n
<1>10. \A i \in I : \E x \in S : c[x] = i
      BY <1>9 DEF Surjection
<1>11. QED BY <1>3, <1>4, <1>5, <1>10 DEF A, n

\* The entries that Csr sorts, and their order.
Entries(from, to) == {<<from[r], to[r], r>> : r \in DOMAIN from}
InOrder(from, to) == {e \in Entries(from, to) \X Entries(from, to) : CsrOrder(e[1], e[2])}
AheadOf(from, to, e) == {x \in Entries(from, to) : CsrOrder(x, e)}
SortedRows(from, to) ==
    [p \in DOMAIN from |-> CHOOSE e \in Entries(from, to) : Cardinality(AheadOf(from, to, e)) = p - 1]

\* Entries are told apart by their rows, and put in order by it where all else is the same.
LEMMA EntriesInOrder ==
    ASSUME NEW m \in Nat, NEW from \in [1..m -> Nat], NEW to \in [1..m -> Nat]
    PROVE  /\ \A e \in Entries(from, to) :
                 /\ e[1] \in Nat /\ e[2] \in Nat /\ e[3] \in 1..m
                 /\ e = <<from[e[3]], to[e[3]], e[3]>> /\ e[1] = from[e[3]] /\ e[2] = to[e[3]]
           /\ IsFiniteSet(Entries(from, to)) /\ Cardinality(Entries(from, to)) = m
           /\ \A e \in Entries(from, to) : Ahead(Entries(from, to), InOrder(from, to), e) = AheadOf(from, to, e)
           /\ \A e \in Entries(from, to) : IsFiniteSet(AheadOf(from, to, e)) /\ Cardinality(AheadOf(from, to, e)) \in 0..(m - 1)
           /\ \A e, f \in Entries(from, to) :
                 CsrOrder(e, f) => Cardinality(AheadOf(from, to, e)) < Cardinality(AheadOf(from, to, f))
           /\ \A e, f \in Entries(from, to) : e # f => CsrOrder(e, f) \/ CsrOrder(f, e)
           /\ \A i \in 0..(m - 1) : \E e \in Entries(from, to) : Cardinality(AheadOf(from, to, e)) = i
<1> DEFINE E == Entries(from, to)
           R == InOrder(from, to)
           t == [r \in 1..m |-> <<from[r], to[r], r>>]
<1>1. DOMAIN from = 1..m /\ \A r \in 1..m : from[r] \in Nat /\ to[r] \in Nat
      OBVIOUS
<1>2. E = {t[r] : r \in 1..m}
      BY <1>1 DEF Entries
<1>3. \A r \in 1..m : t[r] = <<from[r], to[r], r>>
      OBVIOUS
<1> HIDE DEF t
<1>4. \A q, r \in 1..m : t[q] = t[r] => q = r
      BY <1>3
<1>5. IsFiniteSet(1..m) /\ Cardinality(1..m) = m
      BY FS_Interval
<1>6. IsFiniteSet(E) /\ Cardinality(E) = m
  <2> DEFINE Q == 1..m
  <2>1. IsFiniteSet(Q) /\ Cardinality(Q) = m /\ E = {t[r] : r \in Q} /\ \A q, r \in Q : t[q] = t[r] => q = r
        BY <1>2, <1>4, <1>5
  <2> HIDE DEF Q, E
  <2>2. IsFiniteSet({t[r] : r \in Q}) /\ Cardinality({t[r] : r \in Q}) = Cardinality(Q)
        BY <2>1, SameSize
  <2>3. QED BY <2>1, <2>2
<1>7. \A e \in E : /\ e[1] \in Nat /\ e[2] \in Nat /\ e[3] \in 1..m
                   /\ e = <<from[e[3]], to[e[3]], e[3]>> /\ e[1] = from[e[3]] /\ e[2] = to[e[3]]
  <2> TAKE e \in E
  <2>1. PICK r \in 1..m : e = <<from[r], to[r], r>>
        BY <1>2, <1>3
  <2>2. e[1] = from[r] /\ e[2] = to[r] /\ e[3] = r
        BY <2>1
  <2>3. QED BY <1>1, <2>1, <2>2
<1> HIDE DEF E
<1>8. \A e, f : <<e, f>> \in R <=> e \in E /\ f \in E /\ CsrOrder(e, f)
      BY DEF InOrder, E
<1> HIDE DEF R
<1>9. \A e, f \in E : e # f => CsrOrder(e, f) \/ CsrOrder(f, e)
  <2> SUFFICES ASSUME NEW e \in E, NEW f \in E, e # f PROVE CsrOrder(e, f) \/ CsrOrder(f, e)
      OBVIOUS
  <2>1. e[3] # f[3]
        BY <1>7
  <2>2. /\ e[1] \in Nat /\ e[2] \in Nat /\ e[3] \in Nat
        /\ f[1] \in Nat /\ f[2] \in Nat /\ f[3] \in Nat
        BY <1>7
  <2>3. QED BY <2>1, <2>2 DEF CsrOrder
<1>10. \A e \in E : ~CsrOrder(e, e)
  <2> SUFFICES ASSUME NEW e \in E PROVE ~CsrOrder(e, e)
      OBVIOUS
  <2>1. e[1] \in Nat /\ e[2] \in Nat /\ e[3] \in Nat
        BY <1>7
  <2>2. QED BY <2>1 DEF CsrOrder
<1>11. \A e, f, g \in E : CsrOrder(e, f) /\ CsrOrder(f, g) => CsrOrder(e, g)
  <2> SUFFICES ASSUME NEW e \in E, NEW f \in E, NEW g \in E, CsrOrder(e, f) /\ CsrOrder(f, g) PROVE CsrOrder(e, g)
      OBVIOUS
  <2>1. /\ e[1] \in Nat /\ e[2] \in Nat /\ e[3] \in Nat
        /\ f[1] \in Nat /\ f[2] \in Nat /\ f[3] \in Nat
        /\ g[1] \in Nat /\ g[2] \in Nat /\ g[3] \in Nat
        BY <1>7
  <2> DEFINE e1 == e[1]  e2 == e[2]  e3 == e[3]
             f1 == f[1]  f2 == f[2]  f3 == f[3]
             g1 == g[1]  g2 == g[2]  g3 == g[3]
  <2>2. /\ e1 < f1 \/ (e1 = f1 /\ (e2 < f2 \/ (e2 = f2 /\ e3 < f3)))
        /\ f1 < g1 \/ (f1 = g1 /\ (f2 < g2 \/ (f2 = g2 /\ f3 < g3)))
        BY DEF CsrOrder
  <2>3. /\ e1 \in Nat /\ e2 \in Nat /\ e3 \in Nat /\ f1 \in Nat /\ f2 \in Nat /\ f3 \in Nat
        /\ g1 \in Nat /\ g2 \in Nat /\ g3 \in Nat
        BY <2>1
  <2> HIDE DEF e1, e2, e3, f1, f2, f3, g1, g2, g3
  <2>4. e1 < g1 \/ (e1 = g1 /\ (e2 < g2 \/ (e2 = g2 /\ e3 < g3)))
        BY <2>2, <2>3
  <2>5. QED BY <2>4 DEF CsrOrder, e1, e2, e3, g1, g2, g3
<1>12. /\ \A x \in E : <<x, x>> \notin R
       /\ \A x, y, z \in E : <<x, y>> \in R /\ <<y, z>> \in R => <<x, z>> \in R
       /\ \A x, y \in E : x # y => <<x, y>> \in R \/ <<y, x>> \in R
       BY <1>8, <1>9, <1>10, <1>11
<1>13. \A e \in E : Ahead(E, R, e) = AheadOf(from, to, e)
       BY <1>8 DEF Ahead, AheadOf, E
<1>14. /\ \A x \in E : IsFiniteSet(Ahead(E, R, x)) /\ Cardinality(Ahead(E, R, x)) \in 0..(Cardinality(E) - 1)
       /\ \A x, y \in E : <<x, y>> \in R => Cardinality(Ahead(E, R, x)) < Cardinality(Ahead(E, R, y))
       /\ \A i \in 0..(Cardinality(E) - 1) : \E x \in E : Cardinality(Ahead(E, R, x)) = i
       BY <1>6, <1>12, PlacesOf
<1>15. /\ \A e \in E : IsFiniteSet(AheadOf(from, to, e)) /\ Cardinality(AheadOf(from, to, e)) \in 0..(m - 1)
       /\ \A e, f \in E : CsrOrder(e, f) => Cardinality(AheadOf(from, to, e)) < Cardinality(AheadOf(from, to, f))
       /\ \A i \in 0..(m - 1) : \E e \in E : Cardinality(AheadOf(from, to, e)) = i
       BY <1>6, <1>8, <1>13, <1>14
<1>16. QED BY <1>6, <1>7, <1>9, <1>13, <1>15 DEF E, R

\* Sorted, each entry comes once, behind so many as come before it.
LEMMA RowsSorted ==
    ASSUME NEW m \in Nat, NEW from \in [1..m -> Nat], NEW to \in [1..m -> Nat]
    PROVE  /\ DOMAIN SortedRows(from, to) = 1..m
           /\ \A p \in 1..m : /\ SortedRows(from, to)[p] \in Entries(from, to)
                              /\ Cardinality(AheadOf(from, to, SortedRows(from, to)[p])) = p - 1
           /\ \A e \in Entries(from, to) : \E p \in 1..m : SortedRows(from, to)[p] = e
<1> DEFINE E    == Entries(from, to)
           c(e) == Cardinality(AheadOf(from, to, e))
           s    == SortedRows(from, to)
<1>1. DOMAIN from = 1..m /\ DOMAIN s = 1..m
      BY DEF SortedRows
<1>2. \A p \in 1..m : s[p] = CHOOSE e \in E : c(e) = p - 1
      BY <1>1 DEF SortedRows
<1>3. /\ \A e \in E : c(e) \in 0..(m - 1)
      /\ \A e, f \in E : CsrOrder(e, f) => c(e) < c(f)
      /\ \A e, f \in E : e # f => CsrOrder(e, f) \/ CsrOrder(f, e)
      /\ \A i \in 0..(m - 1) : \E e \in E : c(e) = i
      BY EntriesInOrder
<1> HIDE DEF E, c, s
<1>4. \A p \in 1..m : s[p] \in E /\ c(s[p]) = p - 1
  <2> TAKE p \in 1..m
  <2>1. p - 1 \in 0..(m - 1)
        OBVIOUS
  <2>2. \E e \in E : c(e) = p - 1
        BY <1>3, <2>1
  <2>3. QED BY <1>2, <2>2
<1>5. ASSUME NEW e \in E PROVE \E p \in 1..m : s[p] = e
  <2> DEFINE p == c(e) + 1
  <2>1. p \in 1..m /\ p - 1 = c(e)
        BY <1>3
  <2>2. s[p] \in E /\ c(s[p]) = c(e)
        BY <1>4, <2>1
  <2>3. c(e) \in Int
        BY <1>3
  <2> HIDE DEF p
  <2>4. ~CsrOrder(s[p], e) /\ ~CsrOrder(e, s[p])
        BY <1>3, <2>2, <2>3
  <2>5. s[p] = e
        BY <1>3, <2>2, <2>4
  <2>6. QED BY <2>1, <2>5
<1>6. QED BY <1>1, <1>4, <1>5 DEF E, c, s

\* The entries of rows that lead from one of the first i nodes, and from node i.
Upto(from, to, i) == {e \in Entries(from, to) : e[1] <= i}
RowsOf(from, i)   == {r \in DOMAIN from : from[r] = i}

\* The entries of the first i nodes are those in as many places.
LEMMA FirstEntries ==
    ASSUME NEW m \in Nat, NEW n \in Nat, NEW from \in [1..m -> 1..n], NEW to \in [1..m -> 1..n], NEW i \in Nat
    PROVE  /\ IsFiniteSet(Upto(from, to, i)) /\ Cardinality(Upto(from, to, i)) \in 0..m
           /\ \A e \in Entries(from, to) :
                 e[1] <= i <=> Cardinality(AheadOf(from, to, e)) < Cardinality(Upto(from, to, i))
<1> DEFINE E    == Entries(from, to)
           A(e) == AheadOf(from, to, e)
           U    == Upto(from, to, i)
<1>1. from \in [1..m -> Nat] /\ to \in [1..m -> Nat]
      OBVIOUS
<1>2. /\ \A e \in E : e[1] \in Nat /\ e[2] \in Nat /\ e[3] \in 1..m
      /\ IsFiniteSet(E) /\ Cardinality(E) = m
      /\ \A e \in E : IsFiniteSet(A(e)) /\ Cardinality(A(e)) \in 0..(m - 1)
      BY <1>1, EntriesInOrder
<1>3. U \in SUBSET E
      BY DEF Upto
<1>4. IsFiniteSet(U) /\ Cardinality(U) <= m
  <2> HIDE DEF E, U
  <2>1. QED BY <1>2, <1>3, FS_Subset
<1>5. Cardinality(U) \in Nat
  <2> HIDE DEF U
  <2>1. QED BY <1>4, FS_CardinalityType
<1>6. ASSUME NEW e \in E, e[1] <= i PROVE Cardinality(A(e)) < Cardinality(U)
  <2>1. ASSUME NEW x \in A(e) PROVE x \in U /\ x # e
    <3>1. x \in E /\ CsrOrder(x, e)
          BY DEF AheadOf
    <3>2. x[1] \in Nat /\ x[2] \in Nat /\ x[3] \in Nat /\ e[1] \in Nat /\ e[2] \in Nat /\ e[3] \in Nat
      <4> HIDE DEF E, A
      <4>1. \A y \in E : y[1] \in Nat /\ y[2] \in Nat /\ y[3] \in Nat
            BY <1>2
      <4>2. e \in E
            OBVIOUS
      <4>3. QED BY <3>1, <4>1, <4>2, Zenon
    <3>3. x[1] <= e[1] /\ x # e
          BY <3>1, <3>2 DEF CsrOrder
    <3>4. x[1] <= i
          BY <1>6, <3>2, <3>3
    <3>5. QED BY <3>1, <3>3, <3>4 DEF Upto
  <2>2. e \in U
        BY <1>6 DEF Upto
  <2>3. A(e) \in SUBSET U /\ A(e) # U
        BY <2>1, <2>2
  <2> HIDE DEF A, U, E
  <2>4. Cardinality(A(e)) <= Cardinality(U) /\ Cardinality(A(e)) # Cardinality(U)
        BY <1>4, <2>3, FS_Subset
  <2>5. Cardinality(A(e)) \in Nat
        BY <1>2
  <2>6. QED BY <1>5, <2>4, <2>5
<1>7. ASSUME NEW e \in E, ~(e[1] <= i) PROVE ~(Cardinality(A(e)) < Cardinality(U))
  <2>1. ASSUME NEW x \in U PROVE x \in A(e)
    <3>1. x \in E /\ x[1] <= i
          BY DEF Upto
    <3>2. x[1] \in Nat /\ e[1] \in Nat
          BY <1>2, <3>1
    <3>3. x[1] < e[1]
          BY <1>7, <3>1, <3>2
    <3>4. QED BY <3>1, <3>3 DEF AheadOf, CsrOrder
  <2>2. U \in SUBSET A(e)
        BY <2>1
  <2> HIDE DEF A, U, E
  <2>3. Cardinality(U) <= Cardinality(A(e))
        BY <1>2, <2>2, FS_Subset
  <2>4. Cardinality(A(e)) \in Nat
        BY <1>2
  <2>5. QED BY <1>5, <2>3, <2>4
<1> HIDE DEF A, U, E
<1>8. Cardinality(U) \in 0..m
      BY <1>4, <1>5
<1>9. QED BY <1>4, <1>6, <1>7, <1>8 DEF A, U, E

\* How many they are grows with the degrees.
LEMMA EntriesGrow ==
    ASSUME NEW m \in Nat, NEW n \in Nat, NEW from \in [1..m -> 1..n], NEW to \in [1..m -> 1..n]
    PROVE  /\ Cardinality(Upto(from, to, 0)) = 0
           /\ \A i \in 1..n : /\ Cardinality(RowsOf(from, i)) \in Nat
                              /\ Cardinality(Upto(from, to, i)) = Cardinality(Upto(from, to, i - 1)) + Cardinality(RowsOf(from, i))
           /\ Cardinality(Upto(from, to, n)) = m
<1> DEFINE E    == Entries(from, to)
           U(i) == Upto(from, to, i)
           t    == [r \in 1..m |-> <<from[r], to[r], r>>]
<1>1. from \in [1..m -> Nat] /\ to \in [1..m -> Nat] /\ DOMAIN from = 1..m
      OBVIOUS
<1>2. /\ \A e \in E : /\ e[1] \in Nat /\ e[3] \in 1..m /\ e = <<from[e[3]], to[e[3]], e[3]>> /\ e[1] = from[e[3]]
      /\ IsFiniteSet(E) /\ Cardinality(E) = m
  <2>1. \A e \in Entries(from, to) :
                 /\ e[1] \in Nat /\ e[2] \in Nat /\ e[3] \in 1..m
                 /\ e = <<from[e[3]], to[e[3]], e[3]>> /\ e[1] = from[e[3]] /\ e[2] = to[e[3]]
        BY <1>1, EntriesInOrder, Zenon
  <2>2. IsFiniteSet(E) /\ Cardinality(E) = m
        BY <1>1, EntriesInOrder
  <2>3. QED BY <2>1, <2>2, Zenon
<1>3. \A e \in E : e[1] \in 1..n
  <2>1. \A r \in 1..m : from[r] \in 1..n
        OBVIOUS
  <2> HIDE DEF E
  <2>2. QED BY <1>2, <2>1
<1>4. U(0) = {} /\ U(n) = E
  <2>1. \A e \in E : ~(e[1] <= 0) /\ e[1] <= n
        BY <1>3
  <2>2. QED BY <2>1 DEF Upto
<1>5. Cardinality(U(0)) = 0
      BY <1>4, FS_EmptySet
<1>6. ASSUME NEW i \in 1..n
      PROVE  /\ Cardinality(RowsOf(from, i)) \in Nat
             /\ Cardinality(U(i)) = Cardinality(U(i - 1)) + Cardinality(RowsOf(from, i))
  <2> DEFINE Q == RowsOf(from, i)
             V == {t[r] : r \in Q}
  <2>1. Q \in SUBSET (1..m) /\ IsFiniteSet(1..m)
        BY <1>1, FS_Interval DEF RowsOf
  <2>2. IsFiniteSet(Q)
    <3> HIDE DEF Q
    <3>1. QED BY <2>1, FS_Subset
  <2>3. Cardinality(Q) \in Nat
    <3> HIDE DEF Q
    <3>1. QED BY <2>2, FS_CardinalityType
  <2>4. \A r \in 1..m : t[r] = <<from[r], to[r], r>>
        OBVIOUS
  <2> HIDE DEF t
  <2>5. \A r, q \in Q : t[r] = t[q] => r = q
        BY <2>1, <2>4
  <2>6. IsFiniteSet(V) /\ Cardinality(V) = Cardinality(Q)
    <3> HIDE DEF Q
    <3>1. QED BY <2>2, <2>5, SameSize
  <2>7. V = {e \in E : e[1] = i}
    <3>1. ASSUME NEW r \in Q PROVE t[r] \in E /\ t[r][1] = i
      <4>1. r \in 1..m /\ r \in DOMAIN from /\ from[r] = i
            BY <1>1, <2>1 DEF RowsOf
      <4>2. t[r] = <<from[r], to[r], r>>
            BY <2>4, <4>1
      <4>3. <<from[r], to[r], r>> \in E
            BY <4>1 DEF Entries
      <4>4. QED BY <4>1, <4>2, <4>3
    <3>2. ASSUME NEW e \in E, e[1] = i PROVE \E r \in Q : e = t[r]
      <4>1. e[3] \in 1..m /\ from[e[3]] = i /\ e = t[e[3]]
            BY <1>2, <2>4, <3>2
      <4>2. QED BY <1>1, <4>1 DEF RowsOf
    <3>3. QED BY <3>1, <3>2
  <2>8. U(i) = U(i - 1) \cup V /\ U(i - 1) \cap V = {}
    <3>1. \A e \in E : (e[1] <= i <=> e[1] <= i - 1 \/ e[1] = i) /\ ~(e[1] <= i - 1 /\ e[1] = i)
      <4>1. \A e \in E : e[1] \in Int
            BY <1>2
      <4>2. QED BY <4>1
    <3> HIDE DEF E
    <3>2. /\ \A x : x \in U(i) <=> x \in E /\ x[1] <= i
          /\ \A x : x \in U(i - 1) <=> x \in E /\ x[1] <= i - 1
          BY DEF Upto, E
    <3> HIDE DEF U
    <3>3. QED BY <2>7, <3>1, <3>2
  <2>9. IsFiniteSet(U(i - 1)) /\ Cardinality(U(i - 1)) \in 0..m
    <3>1. i - 1 \in Nat
          OBVIOUS
    <3>2. QED BY <3>1, FirstEntries
  <2> HIDE DEF U, V, Q
  <2>10. Cardinality(U(i)) = Cardinality(U(i - 1)) + Cardinality(V) - Cardinality({})
    <3> DEFINE W == U(i - 1)
    <3>1. IsFiniteSet(W) /\ IsFiniteSet(V) /\ U(i) = W \cup V /\ W \cap V = {}
          BY <2>6, <2>8, <2>9
    <3> HIDE DEF W
    <3>2. Cardinality(W \cup V) = Cardinality(W) + Cardinality(V) - Cardinality(W \cap V)
          BY <3>1, FS_Union
    <3>3. Cardinality(U(i)) = Cardinality(W) + Cardinality(V) - Cardinality({})
          BY <3>1, <3>2
    <3>4. QED BY <3>3 DEF W
  <2>11. Cardinality({}) = 0
         BY FS_EmptySet
  <2>12. QED BY <2>3, <2>6, <2>9, <2>10, <2>11 DEF Q
<1>7. Cardinality(U(n)) = m
      BY <1>2, <1>4
<1>8. QED BY <1>5, <1>6, <1>7

\* What Csr puts together: where the rows of each node begin, and the rows in order.
LEMMA CsrIs ==
    ASSUME NEW m \in Nat, NEW n \in Nat, NEW from \in [1..m -> 1..n], NEW to \in [1..m -> 1..n]
    PROVE  LET csr == Csr(from, to, n)
           IN /\ Len(csr.offsets) - 1 = n
              /\ \A i \in 0..n : csr.offsets[i + 1] = Cardinality(Upto(from, to, i))
              /\ \A p \in 1..m : /\ csr.neighbors[p] = SortedRows(from, to)[p][2]
                                 /\ csr.edgeIds[p] = SortedRows(from, to)[p][3]
<1> DEFINE csr  == Csr(from, to, n)
           d(i) == Cardinality(RowsOf(from, i))
           u(i) == Cardinality(Upto(from, to, i))
           s    == SortedRows(from, to)
<1>3. u(0) = 0 /\ \A i \in 1..n : d(i) \in Nat /\ u(i) = u(i - 1) + d(i)
  <2>1. u(0) = 0
    <3>1. Upto(from, to, 0) = {}
      <4>1. \A e \in Entries(from, to) : ~(e[1] <= 0)
        <5> TAKE e \in Entries(from, to)
        <5>1. PICK r \in 1..m : e = <<from[r], to[r], r>>
              BY DEF Entries
        <5>2. e[1] = from[r] /\ from[r] \in 1..n
              BY <5>1
        <5>3. QED BY <5>2
      <4>2. QED BY <4>1 DEF Upto
    <3>2. QED BY <3>1, FS_EmptySet
  <2>2. \A i \in 1..n : d(i) \in Nat /\ u(i) = u(i - 1) + d(i)
        BY EntriesGrow
  <2>3. QED BY <2>1, <2>2
<1> DEFINE ok(f) == f = [i \in 0..n |-> IF i = 0 THEN 0 ELSE f[i - 1] + d(i)]
           off   == CHOOSE f : ok(f)
<1>1. /\ csr.offsets = [i \in 1..(n + 1) |-> off[i - 1]]
      /\ csr.neighbors = [p \in DOMAIN s |-> s[p][2]]
      /\ csr.edgeIds = [p \in DOMAIN s |-> s[p][3]]
      BY DEF Csr, RowsOf, SortedRows, AheadOf, Entries
<1>2. DOMAIN s = 1..m
      BY DEF SortedRows
<1> HIDE DEF csr, d, u, s
<1>4. ok([i \in 0..n |-> u(i)])
  <2> DEFINE f == [i \in 0..n |-> u(i)]
  <2>1. ASSUME NEW i \in 0..n PROVE f[i] = IF i = 0 THEN 0 ELSE f[i - 1] + d(i)
    <3>1. CASE i = 0
          BY <1>3, <3>1
    <3>2. CASE i # 0
      <4>1. i \in 1..n /\ i - 1 \in 0..n
            BY <3>2
      <4>2. f[i] = u(i) /\ f[i - 1] = u(i - 1)
            BY <4>1
      <4> HIDE DEF f
      <4>3. QED BY <1>3, <3>2, <4>1, <4>2
    <3>3. QED BY <3>1, <3>2
  <2>2. QED BY <2>1
<1>5. ok(off)
  <2> HIDE DEF ok
  <2>1. QED BY <1>4
<1> HIDE DEF off
<1>6. \A i \in 0..n : off[i] = u(i)
  <2> DEFINE T == {i \in Nat : i <= n => off[i] = u(i)}
  <2>1. off[0] = 0 /\ \A i \in 1..n : off[i] = off[i - 1] + d(i)
    <3>1. 0 \in 0..n /\ \A i \in 1..n : i \in 0..n /\ i # 0
          OBVIOUS
    <3>2. QED BY <1>5, <3>1
  <2> HIDE DEF ok
  <2>2. 0 \in T
        BY <1>3, <2>1
  <2>3. ASSUME NEW i \in Nat, i \in T PROVE i + 1 \in T
    <3>1. SUFFICES ASSUME i + 1 <= n PROVE off[i + 1] = u(i + 1)
          OBVIOUS
    <3>2. i + 1 \in 1..n /\ (i + 1) - 1 = i /\ off[i] = u(i)
          BY <2>3, <3>1
    <3>3. QED BY <1>3, <2>1, <3>2
  <2>4. Nat \subseteq T
    <3> HIDE DEF T
    <3>1. QED BY <2>2, <2>3, NatSetInduction
  <2>5. QED BY <2>4
<1>7. Len(csr.offsets) = n + 1
  <2>1. DOMAIN csr.offsets = 1..(n + 1) /\ n + 1 \in Nat
        BY <1>1
  <2>2. QED BY <2>1, ListLen
<1>8. \A i \in 0..n : csr.offsets[i + 1] = u(i)
  <2> TAKE i \in 0..n
  <2>1. i + 1 \in 1..(n + 1) /\ (i + 1) - 1 = i
        OBVIOUS
  <2>2. QED BY <1>1, <1>6, <2>1
<1>9. \A p \in 1..m : csr.neighbors[p] = s[p][2] /\ csr.edgeIds[p] = s[p][3]
      BY <1>1, <1>2
<1>10. QED BY <1>7, <1>8, <1>9 DEF csr, u, s

\* s holds the rows of node i, each once, with what they lead to.
SliceHas(s, from, to, i) ==
    /\ DOMAIN s = 1..Cardinality(RowsOf(from, i))
    /\ s = [p \in DOMAIN s |-> s[p]]
    /\ \A p \in DOMAIN s : s[p] = [to |-> to[s[p].row], row |-> s[p].row] /\ s[p].row \in RowsOf(from, i)
    /\ \A p, q \in DOMAIN s : s[p].row = s[q].row => p = q
    /\ \A r \in RowsOf(from, i) : \E p \in DOMAIN s : s[p].row = r

\* A slice of compressed rows holds the rows of its node, and there is none of another.
LEMMA CsrSlices ==
    ASSUME NEW m \in Nat, NEW n \in Nat, NEW from \in [1..m -> 1..n], NEW to \in [1..m -> 1..n]
    PROVE  /\ \A i \in 1..n : SliceHas(Slice(Csr(from, to, n), i), from, to, i)
           /\ \A i : i \notin 1..n => Slice(Csr(from, to, n), i) = <<>>
<1> DEFINE csr  == Csr(from, to, n)
           E    == Entries(from, to)
           d(i) == Cardinality(RowsOf(from, i))
           u(i) == Cardinality(Upto(from, to, i))
           c(e) == Cardinality(AheadOf(from, to, e))
           so   == SortedRows(from, to)
<1>1. /\ Len(csr.offsets) - 1 = n
      /\ \A i \in 0..n : csr.offsets[i + 1] = u(i)
      /\ \A p \in 1..m : csr.neighbors[p] = so[p][2] /\ csr.edgeIds[p] = so[p][3]
      BY CsrIs
<1>2. from \in [1..m -> Nat] /\ to \in [1..m -> Nat] /\ DOMAIN from = 1..m
      OBVIOUS
<1>3. \A e \in E : /\ e[1] \in Nat /\ e[2] \in Nat /\ e[3] \in 1..m
                   /\ e = <<from[e[3]], to[e[3]], e[3]>> /\ e[1] = from[e[3]] /\ e[2] = to[e[3]]
  <2>1. \A e \in Entries(from, to) :
                 /\ e[1] \in Nat /\ e[2] \in Nat /\ e[3] \in 1..m
                 /\ e = <<from[e[3]], to[e[3]], e[3]>> /\ e[1] = from[e[3]] /\ e[2] = to[e[3]]
        BY <1>2, EntriesInOrder, Zenon
  <2>2. QED BY <2>1, Zenon
<1>4. /\ \A p \in 1..m : so[p] \in E /\ c(so[p]) = p - 1
      /\ \A e \in E : \E p \in 1..m : so[p] = e
  <2>1. /\ \A p \in 1..m : so[p] \in Entries(from, to) /\ Cardinality(AheadOf(from, to, so[p])) = p - 1
        /\ \A e \in Entries(from, to) : \E p \in 1..m : so[p] = e
        BY <1>2, RowsSorted, Zenon
  <2>2. QED BY <2>1, Zenon
<1>5. \A i \in 0..n : u(i) \in 0..m /\ \A e \in E : e[1] <= i <=> c(e) < u(i)
  <2> TAKE i \in 0..n
  <2>1. i \in Nat
        OBVIOUS
  <2>2. QED BY <2>1, FirstEntries
<1>6. \A i \in 1..n : d(i) \in Nat /\ u(i) = u(i - 1) + d(i)
      BY EntriesGrow
<1>7. \A r \in 1..m : <<from[r], to[r], r>> \in E
      BY <1>2 DEF Entries
<1>8. \A i, r : r \in RowsOf(from, i) <=> r \in 1..m /\ from[r] = i
      BY <1>2 DEF RowsOf
<1> HIDE DEF csr, E, d, u, c, so
<1>9. ASSUME NEW i \in 1..n
      PROVE  SliceHas(Slice(csr, i), from, to, i)
  <2> DEFINE s == Slice(csr, i)
             o == u(i - 1)
             k == d(i)
  <2>1. i \in 0..n /\ i - 1 \in 0..n /\ (i - 1) + 1 = i
        OBVIOUS
  <2>2. csr.offsets[i + 1] = u(i) /\ csr.offsets[i] = o
        BY <1>1, <2>1
  <2>3. o \in 0..m /\ u(i) \in 0..m /\ k \in Nat /\ u(i) = o + k /\ u(i) - o = k
        BY <1>5, <1>6, <2>1
  <2>4. s = [p \in 1..k |-> [to |-> csr.neighbors[o + p], row |-> csr.edgeIds[o + p]]]
        BY <1>1, <2>2, <2>3 DEF Slice
  <2>5. DOMAIN s = 1..k /\ \A p \in 1..k : s[p] = [to |-> csr.neighbors[o + p], row |-> csr.edgeIds[o + p]]
        BY <2>4
  <2> HIDE DEF s, o, k
  <2>6. \A p \in 1..k : /\ o + p \in 1..m /\ so[o + p] \in E /\ c(so[o + p]) = (o + p) - 1
                        /\ s[p].to = so[o + p][2] /\ s[p].row = so[o + p][3]
    <3> TAKE p \in 1..k
    <3>1. o + p \in 1..m
          BY <2>3
    <3>2. so[o + p] \in E /\ c(so[o + p]) = (o + p) - 1
          BY <1>4, <3>1
    <3>3. csr.neighbors[o + p] = so[o + p][2] /\ csr.edgeIds[o + p] = so[o + p][3]
          BY <1>1, <3>1
    <3>4. s[p].to = csr.neighbors[o + p] /\ s[p].row = csr.edgeIds[o + p]
          BY <2>5
    <3>5. QED BY <3>1, <3>2, <3>3, <3>4
  <2>7. \A p \in 1..k : s[p].row \in RowsOf(from, i) /\ s[p].to = to[s[p].row]
    <3> TAKE p \in 1..k
    <3> DEFINE e == so[o + p]
    <3>1. e \in E /\ c(e) = (o + p) - 1 /\ s[p].to = e[2] /\ s[p].row = e[3]
          BY <2>6
    <3>2. e[1] \in Nat /\ e[3] \in 1..m /\ e[1] = from[e[3]] /\ e[2] = to[e[3]]
          BY <1>3, <3>1
    <3> HIDE DEF e
    <3>3. p \in Nat /\ 1 <= p /\ p <= k
          BY <2>3
    <3>4. c(e) = (o + p) - 1 /\ u(i) = o + k /\ o \in Nat
          BY <2>3, <3>1
    <3>5. c(e) < u(i) /\ ~(c(e) < o)
          BY ONLY <2>3, <3>3, <3>4
    <3>6. e[1] <= i /\ ~(e[1] <= i - 1)
          BY <1>5, <2>1, <3>1, <3>5 DEF o
    <3>7. e[1] = i
          BY <3>2, <3>6
    <3>8. QED BY <1>8, <3>1, <3>2, <3>7
  <2>8. \A p \in 1..k : s[p] = [to |-> to[s[p].row], row |-> s[p].row]
        BY <2>5, <2>7
  <2>9. ASSUME NEW p \in 1..k, NEW q \in 1..k, s[p].row = s[q].row PROVE p = q
    <3> DEFINE e == so[o + p]
               f == so[o + q]
    <3>1. e \in E /\ c(e) = (o + p) - 1 /\ s[p].row = e[3] /\ f \in E /\ c(f) = (o + q) - 1 /\ s[q].row = f[3]
          BY <2>6
    <3> HIDE DEF e, f
    <3>2. e = <<from[e[3]], to[e[3]], e[3]>> /\ f = <<from[f[3]], to[f[3]], f[3]>>
          BY <1>3, <3>1
    <3>3. e = f
          BY <2>9, <3>1, <3>2
    <3>4. (o + p) - 1 = (o + q) - 1
          BY <3>1, <3>3
    <3>5. QED BY <2>3, <3>4
  <2>10. ASSUME NEW r \in RowsOf(from, i) PROVE \E p \in 1..k : s[p].row = r
    <3> DEFINE e == <<from[r], to[r], r>>
    <3>1. e \in E /\ e[1] = i /\ e[3] = r
          BY <1>7, <1>8
    <3> HIDE DEF e
    <3>2. PICK q \in 1..m : so[q] = e
          BY <1>4, <3>1
    <3>3. c(e) = q - 1
          BY <1>4, <3>2
    <3>4. e[1] <= i /\ ~(e[1] <= i - 1)
          BY <3>1
    <3>5. c(e) < u(i) /\ ~(c(e) < o)
          BY <1>5, <2>1, <3>1, <3>4 DEF o
    <3> DEFINE p == q - o
    <3>6. p \in 1..k /\ o + p = q
          BY <2>3, <3>3, <3>5
    <3> HIDE DEF p
    <3>7. s[p].row = r
          BY <2>6, <3>1, <3>2, <3>6
    <3>8. QED BY <3>6, <3>7
  <2>11. s = [p \in DOMAIN s |-> s[p]]
        BY <2>4 DEF s
  <2>12. k = Cardinality(RowsOf(from, i))
         BY DEF k, d
  <2>13. SliceHas(s, from, to, i)
         BY <2>5, <2>7, <2>8, <2>9, <2>10, <2>11, <2>12 DEF SliceHas
  <2>14. QED BY <2>13 DEF s
<1>10. ASSUME NEW i, i \notin 1..n PROVE Slice(csr, i) = <<>>
      BY <1>1, <1>10 DEF Slice
<1>11. QED BY <1>9, <1>10 DEF csr

-----------------------------------------------------------------------------
(* The indexes of frames.                                                   *)

\* The ends of the edges of a batch.
EndsOf(b) == {b.rows[r]["_src"] : r \in DOMAIN b.rows} \cup {b.rows[r]["_dst"] : r \in DOMAIN b.rows}

\* A list without a member twice, by number.
LEMMA LocalIs ==
    ASSUME NEW ids, NEW n \in Nat, DOMAIN ids = 1..n, IsInjective(ids)
    PROVE  /\ \A x \in ToSet(ids) : LocalOf(ids, x) \in 1..n /\ ids[LocalOf(ids, x)] = x
           /\ \A i \in 1..n : ids[i] \in ToSet(ids) /\ LocalOf(ids, ids[i]) = i
<1>1. ASSUME NEW x \in ToSet(ids) PROVE LocalOf(ids, x) \in 1..n /\ ids[LocalOf(ids, x)] = x
  <2>1. \E i \in DOMAIN ids : ids[i] = x
        BY DEF ToSet
  <2>2. QED BY <2>1 DEF LocalOf
<1>2. ASSUME NEW i \in 1..n PROVE ids[i] \in ToSet(ids) /\ LocalOf(ids, ids[i]) = i
  <2>1. ids[i] \in ToSet(ids)
        BY DEF ToSet
  <2>2. LocalOf(ids, ids[i]) \in 1..n /\ ids[LocalOf(ids, ids[i])] = ids[i]
        BY <1>1, <2>1
  <2>3. QED BY <2>1, <2>2 DEF IsInjective
<1>3. QED BY <1>1, <1>2

\* An edge frame numbers the ends of its rows, each once.
LEMMA NumberedEnds ==
    ASSUME NEW b, NEW m \in Nat, DOMAIN b.rows = 1..m
    PROVE  /\ \E n \in Nat : DOMAIN LocalIds(b) = 1..n /\ Len(LocalIds(b)) = n
           /\ LocalIds(b) = [i \in DOMAIN LocalIds(b) |-> LocalIds(b)[i]]
           /\ IsInjective(LocalIds(b))
           /\ ToSet(LocalIds(b)) = EndsOf(b)
<1> DEFINE U    == EndsOf(b)
           pair == [r \in 1..m |-> <<b.rows[r]["_src"], b.rows[r]["_dst"]>>]
           flat == FlattenSeq(pair)
           none == <<>>
<1>1. \A r \in 1..m : b.rows[r]["_src"] \in U /\ b.rows[r]["_dst"] \in U
      BY DEF EndsOf
<1>2. pair \in Seq(Seq(U)) /\ DOMAIN pair = 1..m
  <2>1. \A r \in 1..m : <<b.rows[r]["_src"], b.rows[r]["_dst"]>> \in Seq(U)
        BY <1>1
  <2>2. QED BY <2>1
<1>3. LocalIds(b) = WithNew(none, flat)
      BY DEF LocalIds
<1>4. \A r \in 1..m : ToSet(pair[r]) = {b.rows[r]["_src"], b.rows[r]["_dst"]}
  <2> TAKE r \in 1..m
  <2> DEFINE s == b.rows[r]["_src"]
             d == b.rows[r]["_dst"]
  <2>1. pair[r] = <<s, d>>
        OBVIOUS
  <2> HIDE DEF s, d
  <2>2. DOMAIN <<s, d>> = {1, 2} /\ <<s, d>>[1] = s /\ <<s, d>>[2] = d
        OBVIOUS
  <2>3. ToSet(<<s, d>>) = {s, d}
        BY <2>2 DEF ToSet
  <2>4. QED BY <2>1, <2>3 DEF s, d
<1> HIDE DEF pair
<1>5. flat \in Seq(U) /\ ToSet(flat) = UNION {ToSet(pair[r]) : r \in DOMAIN pair}
  <2> HIDE DEF U
  <2>1. QED BY <1>2, FlattenHas
<1>6. ToSet(flat) = U
  <2>1. DOMAIN pair = 1..m
        BY <1>2
  <2> HIDE DEF flat
  <2>2. ASSUME NEW x \in U PROVE x \in ToSet(flat)
    <3>1. PICK r \in 1..m : x \in {b.rows[r]["_src"], b.rows[r]["_dst"]}
          BY DEF EndsOf
    <3>2. x \in ToSet(pair[r])
          BY <1>4, <3>1
    <3>3. QED BY <1>5, <2>1, <3>2
  <2>3. ASSUME NEW x \in ToSet(flat) PROVE x \in U
    <3>1. PICK r \in 1..m : x \in ToSet(pair[r])
          BY <1>5, <2>1
    <3>2. x \in {b.rows[r]["_src"], b.rows[r]["_dst"]}
          BY <1>4, <3>1
    <3>3. QED BY <1>1, <3>2
  <2>4. QED BY <2>2, <2>3
<1>7. none \in Seq(U) /\ ToSet(none) = {} /\ IsInjective(none)
  <2>1. DOMAIN none = {}
        OBVIOUS
  <2>2. ToSet(none) = {}
        BY <2>1 DEF ToSet
  <2>3. IsInjective(none)
        BY <2>1 DEF IsInjective
  <2>4. QED BY <2>2, <2>3
<1> HIDE DEF flat, none, U
<1>8. /\ WithNew(none, flat) \in Seq(U) /\ ToSet(WithNew(none, flat)) = ToSet(none) \cup ToSet(flat)
      /\ IsInjective(WithNew(none, flat))
      BY <1>5, <1>7, WithNewLists
<1> DEFINE ids == LocalIds(b)
<1>9. ids \in Seq(U) /\ ToSet(ids) = U /\ IsInjective(ids)
      BY <1>3, <1>6, <1>7, <1>8
<1> HIDE DEF ids
<1>10. Len(ids) \in Nat /\ DOMAIN ids = 1..Len(ids) /\ ids = [i \in DOMAIN ids |-> ids[i]]
       BY <1>9
<1>11. QED BY <1>9, <1>10 DEF ids, U

\* A column of ends by number.
LEMMA EndsByNumber ==
    ASSUME NEW b, NEW m \in Nat, DOMAIN b.rows = 1..m, NEW n \in Nat, NEW ids, ids = LocalIds(b),
           DOMAIN ids = 1..n, NEW c \in {"_src", "_dst"}, NEW e, e = Endpoints(b, ids, c)
    PROVE  /\ e \in [1..m -> 1..n]
           /\ \A r \in 1..m : ids[e[r]] = b.rows[r][c] /\ \A i \in 1..n : e[r] = i <=> ids[i] = b.rows[r][c]
<1>1. IsInjective(ids) /\ ToSet(ids) = EndsOf(b)
      BY NumberedEnds
<1>2. /\ \A x \in ToSet(ids) : LocalOf(ids, x) \in 1..n /\ ids[LocalOf(ids, x)] = x
      /\ \A i \in 1..n : ids[i] \in ToSet(ids) /\ LocalOf(ids, ids[i]) = i
      BY <1>1, LocalIs
<1>3. e = [r \in 1..m |-> LocalOf(ids, b.rows[r][c])]
      BY DEF Endpoints
<1>4. \A r \in 1..m : e[r] = LocalOf(ids, b.rows[r][c])
      BY <1>3
<1>5. \A r \in 1..m : b.rows[r][c] \in ToSet(ids)
      BY <1>1 DEF EndsOf
<1>6. \A r \in 1..m : e[r] \in 1..n /\ ids[e[r]] = b.rows[r][c]
      BY <1>2, <1>4, <1>5
<1>7. e \in [1..m -> 1..n]
      BY <1>3, <1>6
<1>8. ASSUME NEW r \in 1..m, NEW i \in 1..n PROVE e[r] = i <=> ids[i] = b.rows[r][c]
      BY <1>2, <1>4, <1>6
<1>9. QED BY <1>6, <1>7, <1>8

\* The rows of a type.
LEMMA TypesIndexed ==
    ASSUME NEW b, NEW m \in Nat, DOMAIN b.rows = 1..m
    PROVE  /\ \A r \in 1..m : b.rows[r]["_type"] \in DOMAIN TypeIndex(b)
           /\ \A t \in DOMAIN TypeIndex(b) : \A r : r \in ToSet(TypeIndex(b)[t]) <=> r \in 1..m /\ b.rows[r]["_type"] = t
<1>1. ToSet(Column(b, "_type")) = {b.rows[r]["_type"] : r \in 1..m}
  <2> DEFINE col == [r \in 1..m |-> b.rows[r]["_type"]]
  <2>1. Column(b, "_type") = col /\ DOMAIN col = 1..m /\ \A r \in 1..m : col[r] = b.rows[r]["_type"]
        BY DEF Column
  <2> HIDE DEF col
  <2>2. ToSet(col) = {col[r] : r \in 1..m}
        BY <2>1 DEF ToSet
  <2>3. QED BY <2>1, <2>2
<1>2. DOMAIN TypeIndex(b) = {b.rows[r]["_type"] : r \in 1..m}
      BY <1>1 DEF TypeIndex
<1>3. ASSUME NEW t \in DOMAIN TypeIndex(b)
      PROVE  ToSet(TypeIndex(b)[t]) = {r \in 1..m : b.rows[r]["_type"] = t}
  <2> DEFINE R == {r \in 1..m : b.rows[r]["_type"] = t}
             a == Ascending(R)
  <2>1. TypeIndex(b)[t] = a
        BY <1>1, <1>2 DEF TypeIndex
  <2>2. R \in SUBSET Nat /\ R \in SUBSET (1..m) /\ IsFiniteSet(1..m)
        BY FS_Interval
  <2> HIDE DEF R
  <2>3. IsFiniteSet(R)
        BY <2>2, FS_Subset
  <2>4. /\ a \in [1..Cardinality(R) -> R]
        /\ \A x \in R : \E i \in 1..Cardinality(R) : a[i] = x
        BY <2>2, <2>3, AscendingLists
  <2> HIDE DEF a
  <2>5. ToSet(a) = R
        BY <2>4 DEF ToSet
  <2>6. QED BY <2>1, <2>5 DEF R
<1>4. QED BY <1>2, <1>3

\* The row of an id, where no other row has it.
LEMMA IdsIndexed ==
    ASSUME NEW b, NEW m \in Nat, DOMAIN b.rows = 1..m, IsInjective(Column(b, "_id"))
    PROVE  /\ DOMAIN IdIndex(b) = ToSet(Column(b, "_id"))
           /\ \A r \in 1..m : b.rows[r]["_id"] \in DOMAIN IdIndex(b) /\ IdIndex(b)[b.rows[r]["_id"]] = r
           /\ \A x \in DOMAIN IdIndex(b) : IdIndex(b)[x] \in 1..m /\ b.rows[IdIndex(b)[x]]["_id"] = x
<1> DEFINE col == Column(b, "_id")
           X   == ToSet(col)
<1>1. DOMAIN col = 1..m /\ \A r \in 1..m : col[r] = b.rows[r]["_id"]
      BY DEF Column
<1>2. DOMAIN IdIndex(b) = X
      BY DEF IdIndex
<1> HIDE DEF col
<1>3. \A r \in 1..m : b.rows[r]["_id"] \in X
      BY <1>1 DEF ToSet
<1>4. \A x \in X : \E r \in 1..m : b.rows[r]["_id"] = x
      BY <1>1 DEF ToSet
<1>5. \A r, q \in 1..m : b.rows[r]["_id"] = b.rows[q]["_id"] => r = q
      BY <1>1 DEF IsInjective, col
<1>6. ASSUME NEW r \in 1..m PROVE IdIndex(b)[b.rows[r]["_id"]] = r
  <2> DEFINE x == b.rows[r]["_id"]
             R == {q \in 1..m : b.rows[q]["_id"] = x}
  <2>1. IdIndex(b)[x] = Max(R)
        BY <1>3 DEF IdIndex, col
  <2>2. r \in R /\ R \subseteq Int /\ \A q \in R : q <= r
        BY <1>5
  <2> HIDE DEF R
  <2>3. Max(R) = r
        BY <2>2, MaxIs
  <2>4. QED BY <2>1, <2>3
<1>7. ASSUME NEW x \in X PROVE IdIndex(b)[x] \in 1..m /\ b.rows[IdIndex(b)[x]]["_id"] = x
  <2>1. PICK r \in 1..m : b.rows[r]["_id"] = x
        BY <1>4
  <2>2. IdIndex(b)[x] = r
        BY <1>6, <2>1
  <2>3. QED BY <2>1, <2>2
<1>8. QED BY <1>2, <1>3, <1>6, <1>7 DEF col

\* s lists the rows that have x in column c, each once, with the number of their other end.
RowsListed(e, s, c, d, x) ==
    /\ \E k \in Nat : DOMAIN s = 1..k /\ s = [p \in 1..k |-> s[p]]
    /\ \A p \in DOMAIN s : /\ s[p] = [to |-> s[p].to, row |-> s[p].row]
                           /\ s[p].row \in DOMAIN e.data.rows /\ s[p].to \in DOMAIN e.ids
                           /\ e.data.rows[s[p].row][c] = x
                           /\ e.ids[s[p].to] = e.data.rows[s[p].row][d]
    /\ \A p, q \in DOMAIN s : s[p].row = s[q].row => p = q
    /\ \A r \in DOMAIN e.data.rows : e.data.rows[r][c] = x => \E p \in DOMAIN s : s[p].row = r

\* So it is with the slices of the adjacencies of a batch.
LEMMA SliceListed ==
    ASSUME NEW b, NEW m \in Nat, DOMAIN b.rows = 1..m,
           NEW c \in {"_src", "_dst"}, NEW d \in {"_src", "_dst"},
           NEW e, e.data = b, e.ids = LocalIds(b), NEW n \in Nat, DOMAIN e.ids = 1..n, Len(e.ids) = n,
           NEW csr, csr = Csr(Endpoints(b, e.ids, c), Endpoints(b, e.ids, d), n)
    PROVE  /\ \A i \in 1..n : RowsListed(e, Slice(csr, i), c, d, e.ids[i])
           /\ \A i : i \notin 1..n => Slice(csr, i) = <<>>
<1> DEFINE ids  == e.ids
           from == Endpoints(b, ids, c)
           to   == Endpoints(b, ids, d)
<1>1. /\ from \in [1..m -> 1..n] /\ \A r \in 1..m : \A i \in 1..n : from[r] = i <=> ids[i] = b.rows[r][c]
      /\ to \in [1..m -> 1..n] /\ \A r \in 1..m : ids[to[r]] = b.rows[r][d]
  <2>1. ids = LocalIds(b) /\ DOMAIN ids = 1..n /\ from = Endpoints(b, ids, c) /\ to = Endpoints(b, ids, d)
        OBVIOUS
  <2> HIDE DEF ids, from, to
  <2>2. from \in [1..m -> 1..n] /\ \A r \in 1..m : \A i \in 1..n : from[r] = i <=> ids[i] = b.rows[r][c]
        BY <2>1, EndsByNumber
  <2>3. to \in [1..m -> 1..n] /\ \A r \in 1..m : ids[to[r]] = b.rows[r][d]
        BY <2>1, EndsByNumber
  <2>4. QED BY <2>2, <2>3
<1>2. csr = Csr(from, to, n)
      OBVIOUS
<1> HIDE DEF from, to
<1>3. /\ \A i \in 1..n : SliceHas(Slice(csr, i), from, to, i)
      /\ \A i : i \notin 1..n => Slice(csr, i) = <<>>
  <2>1. from \in [1..m -> 1..n] /\ to \in [1..m -> 1..n]
        BY <1>1
  <2>2. /\ \A i \in 1..n : SliceHas(Slice(Csr(from, to, n), i), from, to, i)
        /\ \A i : i \notin 1..n => Slice(Csr(from, to, n), i) = <<>>
    <3>1. m \in Nat /\ n \in Nat
          OBVIOUS
    <3>2. \A i \in 1..n : SliceHas(Slice(Csr(from, to, n), i), from, to, i)
          BY ONLY <2>1, <3>1, CsrSlices
    <3>3. \A i : i \notin 1..n => Slice(Csr(from, to, n), i) = <<>>
          BY ONLY <2>1, <3>1, CsrSlices
    <3>4. QED BY <3>2, <3>3
  <2>3. QED BY ONLY <1>2, <2>2, Zenon
<1>4. \A i \in 1..n : Cardinality(RowsOf(from, i)) \in Nat
      BY <1>1, EntriesGrow
<1>5. \A i, r : r \in RowsOf(from, i) <=> r \in 1..m /\ from[r] = i
      BY <1>1 DEF RowsOf
<1>6. ASSUME NEW i \in 1..n PROVE RowsListed(e, Slice(csr, i), c, d, ids[i])
  <2> DEFINE s == Slice(csr, i)
             k == Cardinality(RowsOf(from, i))
  <2>1. /\ DOMAIN s = 1..k
        /\ s = [p \in DOMAIN s |-> s[p]]
        /\ \A p \in DOMAIN s : /\ s[p] = [to |-> to[s[p].row], row |-> s[p].row]
                               /\ s[p].row \in RowsOf(from, i)
        /\ \A p, q \in DOMAIN s : s[p].row = s[q].row => p = q
        /\ \A r \in RowsOf(from, i) : \E p \in DOMAIN s : s[p].row = r
        BY <1>3 DEF SliceHas
  <2>2. k \in Nat
        BY <1>4
  <2> HIDE DEF s, k
  <2>3. ASSUME NEW p \in DOMAIN s
        PROVE  /\ s[p] = [to |-> s[p].to, row |-> s[p].row]
               /\ s[p].row \in 1..m /\ s[p].to \in 1..n
               /\ b.rows[s[p].row][c] = ids[i]
               /\ ids[s[p].to] = b.rows[s[p].row][d]
    <3>1. s[p] = [to |-> to[s[p].row], row |-> s[p].row] /\ s[p].row \in RowsOf(from, i)
          BY <2>1
    <3> DEFINE r == s[p].row
               t == to[r]
    <3>2. r \in 1..m /\ from[r] = i
          BY <1>5, <3>1
    <3>3. s[p] = [to |-> t, row |-> r]
          BY <3>1
    <3>4. t \in 1..n
          BY <1>1, <3>2
    <3>5. ids[t] = b.rows[r][d] /\ ids[i] = b.rows[r][c]
          BY <1>1, <3>2
    <3> HIDE DEF t
    <3>6. s[p].to = t
          BY <3>3
    <3>7. QED BY <3>2, <3>3, <3>4, <3>5, <3>6
  <2>4. ASSUME NEW r \in 1..m, b.rows[r][c] = ids[i] PROVE \E p \in DOMAIN s : s[p].row = r
    <3>1. r \in RowsOf(from, i)
          BY <1>1, <1>5, <2>4
    <3>2. QED BY <2>1, <3>1
  <2>5. DOMAIN e.data.rows = 1..m /\ DOMAIN e.ids = 1..n
        OBVIOUS
  <2>6. DOMAIN s = 1..k /\ s = [p \in 1..k |-> s[p]]
        BY <2>1
  <2>7. /\ \E j \in Nat : DOMAIN s = 1..j /\ s = [p \in 1..j |-> s[p]]
        /\ \A p, q \in DOMAIN s : s[p].row = s[q].row => p = q
        BY <2>1, <2>2, <2>6
  <2>8. RowsListed(e, s, c, d, ids[i])
        BY <2>3, <2>4, <2>5, <2>7 DEF RowsListed
  <2>9. QED BY <2>8 DEF s
<1>7. QED BY <1>3, <1>6

\* Both adjacencies of an edge frame say what its rows say.
LEMMA FrameSlices ==
    ASSUME NEW b, NEW m \in Nat, DOMAIN b.rows = 1..m
    PROVE  LET e == EdgesOf(b)
           IN \A i : /\ i \in DOMAIN e.ids =>
                           /\ RowsListed(e, Slice(e.out, i), "_src", "_dst", e.ids[i])
                           /\ RowsListed(e, Slice(e.in, i), "_dst", "_src", e.ids[i])
                     /\ i \notin DOMAIN e.ids => Slice(e.out, i) = <<>> /\ Slice(e.in, i) = <<>>
<1> DEFINE e   == EdgesOf(b)
           src == Endpoints(b, e.ids, "_src")
           dst == Endpoints(b, e.ids, "_dst")
<1>1. /\ e.data = b /\ e.ids = LocalIds(b)
      /\ e.out = Csr(src, dst, Len(e.ids)) /\ e.in = Csr(dst, src, Len(e.ids))
      BY DEF EdgesOf
<1>2. PICK n \in Nat : DOMAIN LocalIds(b) = 1..n /\ Len(LocalIds(b)) = n
      BY NumberedEnds
<1>3. DOMAIN e.ids = 1..n /\ Len(e.ids) = n
      BY <1>1, <1>2
<1> HIDE DEF e
<1> DEFINE out == e.out
           in  == e.in
<1>4. out = Csr(Endpoints(b, e.ids, "_src"), Endpoints(b, e.ids, "_dst"), n)
      BY <1>1, <1>3
<1>5. in = Csr(Endpoints(b, e.ids, "_dst"), Endpoints(b, e.ids, "_src"), n)
      BY <1>1, <1>3
<1>6. e.data = b /\ e.ids = LocalIds(b)
      BY <1>1
<1> HIDE DEF out, in, src, dst
<1>7. /\ \A i \in 1..n : RowsListed(e, Slice(out, i), "_src", "_dst", e.ids[i])
      /\ \A i : i \notin 1..n => Slice(out, i) = <<>>
  <2> DEFINE ids == e.ids
             f   == Endpoints(b, ids, "_src")
             t   == Endpoints(b, ids, "_dst")
  <2>1. DOMAIN ids = 1..n /\ Len(ids) = n /\ ids = LocalIds(b) /\ out = Csr(f, t, n)
        BY <1>3, <1>4, <1>6
  <2>2. QED BY <1>6, <2>1, SliceListed
<1>8. /\ \A i \in 1..n : RowsListed(e, Slice(in, i), "_dst", "_src", e.ids[i])
      /\ \A i : i \notin 1..n => Slice(in, i) = <<>>
  <2> DEFINE ids == e.ids
             f   == Endpoints(b, ids, "_dst")
             t   == Endpoints(b, ids, "_src")
  <2>1. DOMAIN ids = 1..n /\ Len(ids) = n /\ ids = LocalIds(b) /\ in = Csr(f, t, n)
        BY <1>3, <1>5, <1>6
  <2>2. QED BY <1>6, <2>1, SliceListed
<1>9. QED BY <1>3, <1>7, <1>8 DEF e, out, in

\* s lists what rows lead to from x in column c, each row once.
NeighborsListed(rows, s, c, d, x) ==
    /\ \E k \in Nat : DOMAIN s = 1..k /\ s = [p \in 1..k |-> s[p]]
    /\ \A p \in DOMAIN s : /\ s[p].row \in DOMAIN rows /\ rows[s[p].row][c] = x
                           /\ s[p] = [to |-> rows[s[p].row][d], row |-> s[p].row]
                           /\ s[p].to = rows[s[p].row][d]
    /\ \A p, q \in DOMAIN s : s[p].row = s[q].row => p = q
    /\ \A r \in DOMAIN rows : rows[r][c] = x => \E p \in DOMAIN s : s[p].row = r

\* No row is listed where there is none.
LEMMA NothingListed ==
    ASSUME NEW rows, NEW c, NEW d, NEW x, \A r \in DOMAIN rows : rows[r][c] # x
    PROVE  NeighborsListed(rows, <<>>, c, d, x)
<1> DEFINE s == <<>>
<1>1. s = [p \in 1..0 |-> s[p]] /\ DOMAIN s = 1..0 /\ DOMAIN s = {} /\ 0 \in Nat
      OBVIOUS
<1> HIDE DEF s
<1>2. NeighborsListed(rows, s, c, d, x)
      BY <1>1 DEF NeighborsListed
<1>3. QED BY <1>2 DEF s

\* The neighbours of a node.
LEMMA LedListed ==
    ASSUME NEW g, NEW csr, NEW i, NEW c, NEW d, NEW x,
           i = LocalOf(g.edges.ids, x), RowsListed(g.edges, Slice(csr, i), c, d, x)
    PROVE  NeighborsListed(EdgeRows(g), Led(g, csr, x), c, d, x)
<1> DEFINE s    == Slice(csr, i)
           l    == Led(g, csr, x)
           ids  == g.edges.ids
           rows == EdgeRows(g)
<1>1. l = [p \in DOMAIN s |-> [to |-> ids[s[p].to], row |-> s[p].row]]
      BY DEF Led
<1>2. rows = g.edges.data.rows
      BY DEF EdgeRows
<1>3. PICK k \in Nat : DOMAIN s = 1..k
      BY DEF RowsListed
<1>4. /\ \A p \in DOMAIN s : /\ s[p].row \in DOMAIN rows /\ rows[s[p].row][c] = x
                             /\ ids[s[p].to] = rows[s[p].row][d]
      /\ \A p, q \in DOMAIN s : s[p].row = s[q].row => p = q
      /\ \A r \in DOMAIN rows : rows[r][c] = x => \E p \in DOMAIN s : s[p].row = r
  <2> DEFINE e == g.edges
  <2>1. RowsListed(e, s, c, d, x) /\ rows = e.data.rows /\ ids = e.ids
        BY <1>2
  <2> HIDE DEF e, s, ids, rows
  <2>2. \A p \in DOMAIN s : /\ s[p].row \in DOMAIN rows /\ rows[s[p].row][c] = x
                             /\ ids[s[p].to] = rows[s[p].row][d]
        BY <2>1 DEF RowsListed
  <2>3. \A p, q \in DOMAIN s : s[p].row = s[q].row => p = q
        BY <2>1 DEF RowsListed
  <2>4. \A r \in DOMAIN rows : rows[r][c] = x => \E p \in DOMAIN s : s[p].row = r
        BY <2>1 DEF RowsListed
  <2>5. QED BY <2>2, <2>3, <2>4
<1> HIDE DEF s, ids, rows
<1>5. DOMAIN l = 1..k /\ l = [p \in 1..k |-> l[p]]
      BY <1>1, <1>3
<1>6. \A p \in 1..k : l[p] = [to |-> ids[s[p].to], row |-> s[p].row]
      BY <1>1, <1>3
<1> HIDE DEF l
<1>7. \A p \in 1..k : l[p].row = s[p].row /\ l[p].to = rows[s[p].row][d]
                      /\ l[p] = [to |-> rows[s[p].row][d], row |-> s[p].row]
      BY <1>3, <1>4, <1>6
<1>8. NeighborsListed(rows, l, c, d, x)
      BY <1>3, <1>4, <1>5, <1>7 DEF NeighborsListed
<1>9. QED BY <1>8 DEF l, rows

\* An edge frame is what is built from its batch.
Built(edges) == Batch(edges.data) /\ edges = EdgesOf(edges.data)

\* What such a frame has.
LEMMA BuiltParts ==
    ASSUME NEW e, Built(e)
    PROVE  \E m, n \in Nat :
              /\ DOMAIN e.data.rows = 1..m /\ Len(e.data.rows) = m
              /\ DOMAIN e.ids = 1..n /\ Len(e.ids) = n
              /\ IsInjective(e.ids) /\ ToSet(e.ids) = EndsOf(e.data) /\ e.ids = LocalIds(e.data)
              /\ e.ids = [i \in DOMAIN e.ids |-> e.ids[i]]
              /\ e.types = TypeIndex(e.data)
<1> DEFINE b == e.data
<1>1. e = EdgesOf(b) /\ Batch(b)
      BY DEF Built
<1>2. e.ids = LocalIds(b) /\ e.types = TypeIndex(b)
      BY <1>1 DEF EdgesOf
<1>3. PICK m \in Nat : DOMAIN b.rows = 1..m
      BY <1>1 DEF Batch
<1>4. Len(b.rows) = m
      BY <1>3, ListLen
<1> HIDE DEF b
<1>5. /\ \E n \in Nat : DOMAIN LocalIds(b) = 1..n /\ Len(LocalIds(b)) = n
      /\ LocalIds(b) = [i \in DOMAIN LocalIds(b) |-> LocalIds(b)[i]]
      /\ IsInjective(LocalIds(b))
      /\ ToSet(LocalIds(b)) = EndsOf(b)
      BY <1>3, NumberedEnds
<1>6. PICK n \in Nat : DOMAIN LocalIds(b) = 1..n /\ Len(LocalIds(b)) = n
      BY <1>5
<1>7. QED BY <1>2, <1>3, <1>4, <1>5, <1>6 DEF b

\* Its slices list its rows.
LEMMA BuiltSlices ==
    ASSUME NEW e, Built(e), NEW i
    PROVE  /\ i \in DOMAIN e.ids => /\ RowsListed(e, Slice(e.out, i), "_src", "_dst", e.ids[i])
                                    /\ RowsListed(e, Slice(e.in, i), "_dst", "_src", e.ids[i])
           /\ i \notin DOMAIN e.ids => Slice(e.out, i) = <<>> /\ Slice(e.in, i) = <<>>
<1> DEFINE b == e.data
<1>1. e = EdgesOf(b) /\ Batch(b)
      BY DEF Built
<1>2. PICK m \in Nat : DOMAIN b.rows = 1..m
      BY <1>1 DEF Batch
<1> HIDE DEF b
<1>3. QED BY <1>1, <1>2, FrameSlices

\* The nodes that have edges, and what a graph says of their edges.
LEMMA NeighborsAre ==
    ASSUME NEW g, Built(g.edges), NEW x
    PROVE  /\ NeighborsListed(EdgeRows(g), OutOf(g, x), "_src", "_dst", x)
           /\ NeighborsListed(EdgeRows(g), InTo(g, x), "_dst", "_src", x)
<1> DEFINE e == g.edges
           i == LocalOf(e.ids, x)
<1>1. PICK m, n \in Nat :
              /\ DOMAIN e.data.rows = 1..m /\ DOMAIN e.ids = 1..n
              /\ IsInjective(e.ids) /\ ToSet(e.ids) = EndsOf(e.data)
      BY BuiltParts
<1>2. EdgeRows(g) = e.data.rows
      BY DEF EdgeRows
<1>3. CASE x \in ToSet(e.ids)
  <2>1. i \in DOMAIN e.ids /\ e.ids[i] = x
    <3> DEFINE ids == e.ids
    <3>1. DOMAIN ids = 1..n /\ IsInjective(ids) /\ x \in ToSet(ids)
          BY <1>1, <1>3
    <3> HIDE DEF ids
    <3>2. LocalOf(ids, x) \in 1..n /\ ids[LocalOf(ids, x)] = x
          BY <3>1, LocalIs
    <3>3. QED BY <3>1, <3>2 DEF ids
  <2>2. /\ RowsListed(e, Slice(e.out, i), "_src", "_dst", x)
        /\ RowsListed(e, Slice(e.in, i), "_dst", "_src", x)
    <3>1. /\ RowsListed(e, Slice(e.out, i), "_src", "_dst", e.ids[i])
          /\ RowsListed(e, Slice(e.in, i), "_dst", "_src", e.ids[i])
      <4> HIDE DEF i
      <4>1. QED BY <2>1, BuiltSlices
    <3>2. QED BY <2>1, <3>1
  <2>3. /\ NeighborsListed(EdgeRows(g), Led(g, g.edges.out, x), "_src", "_dst", x)
        /\ NeighborsListed(EdgeRows(g), Led(g, g.edges.in, x), "_dst", "_src", x)
        BY <2>2, LedListed
  <2>4. OutOf(g, x) = Led(g, g.edges.out, x) /\ InTo(g, x) = Led(g, g.edges.in, x)
        BY <1>3 DEF OutOf, InTo, InEdges
  <2>5. QED BY <2>3, <2>4
<1>4. CASE x \notin ToSet(e.ids)
  <2>1. OutOf(g, x) = <<>> /\ InTo(g, x) = <<>>
        BY <1>4 DEF OutOf, InTo, InEdges
  <2>2. \A r \in DOMAIN EdgeRows(g) : EdgeRows(g)[r]["_src"] # x /\ EdgeRows(g)[r]["_dst"] # x
        BY <1>1, <1>2, <1>4 DEF EndsOf
  <2>3. QED BY <2>1, <2>2, NothingListed
<1>5. QED BY <1>3, <1>4

\* Graphs whose frames are built from their rows, without an id twice and an edge that dangles.
WellBuilt(g) ==
    /\ Batch(g.nodes.data) /\ g.nodes = NodesOf(g.nodes.data) /\ IsInjective(IdsOf(g))
    /\ Built(g.edges)
    /\ ~Dangles(g.nodes, g.edges)

\* Such a graph is one that Partitioning is about.
LEMMA WellBuiltFrame ==
    ASSUME NEW g, WellBuilt(g)
    PROVE  IsFrame(g)
<1>1. g.nodes.index = IdIndex(g.nodes.data)
      BY DEF WellBuilt, NodesOf
<1>2. QED BY <1>1 DEF WellBuilt, Built, IsFrame

\* What to_coo has of each node.
CooOf(g, i) == [p \in DOMAIN Slice(g.edges.out, i) |-> <<i, Slice(g.edges.out, i)[p].to>>]

\* to_coo puts these together.
LEMMA CooParts ==
    ASSUME NEW g, Built(g.edges), NEW n \in Nat, DOMAIN g.edges.ids = 1..n
    PROVE  LET U  == (1..n) \X (1..n)
               ss == [i \in 1..n |-> CooOf(g, i)]
           IN /\ ToCoo(g) = FlattenSeq(ss) /\ ss \in Seq(Seq(U)) /\ Len(ss) = n
              /\ \A i \in 1..n : /\ DOMAIN ss[i] = DOMAIN Slice(g.edges.out, i)
                                 /\ \A p \in DOMAIN ss[i] : ss[i][p] = <<i, Slice(g.edges.out, i)[p].to>>
<1> DEFINE U  == (1..n) \X (1..n)
           ss == [i \in 1..n |-> CooOf(g, i)]
<1>1. ToCoo(g) = FlattenSeq(ss)
      BY DEF ToCoo, CooOf
<1>2. ASSUME NEW i \in 1..n PROVE ss[i] \in Seq(U)
  <2> DEFINE s == Slice(g.edges.out, i)
             u == ss[i]
             e == g.edges
  <2>1. u = [p \in DOMAIN s |-> <<i, s[p].to>>]
        BY DEF CooOf
  <2>2. RowsListed(g.edges, s, "_src", "_dst", g.edges.ids[i])
        BY BuiltSlices
  <2> HIDE DEF s, u
  <2>3. PICK k \in Nat : DOMAIN s = 1..k
        BY <2>2 DEF RowsListed
  <2>4. \A p \in 1..k : s[p].to \in 1..n
        BY <2>2, <2>3 DEF RowsListed
  <2>5. u \in [1..k -> U]
        BY <2>1, <2>3, <2>4
  <2>6. u \in Seq(U)
    <3> HIDE DEF U
    <3>1. QED BY <2>5
  <2>7. QED BY <2>6 DEF u
<1>3. ss \in Seq(Seq(U)) /\ Len(ss) = n
  <2> DEFINE T == Seq(U)
  <2>1. ss \in [1..n -> T]
        BY <1>2
  <2> HIDE DEF T, ss
  <2>2. ss \in Seq(T) /\ Len(ss) = n
        BY <2>1
  <2>3. QED BY <2>2 DEF T
<1>4. ASSUME NEW i \in 1..n
      PROVE  /\ DOMAIN ss[i] = DOMAIN Slice(g.edges.out, i)
             /\ \A p \in DOMAIN ss[i] : ss[i][p] = <<i, Slice(g.edges.out, i)[p].to>>
      BY DEF CooOf
<1>5. QED BY <1>1, <1>3, <1>4

\* to_coo puts each row out once.
LEMMA CooLength ==
    ASSUME NEW g, Built(g.edges)
    PROVE  Len(ToCoo(g)) = Len(EdgeRows(g))
<1> DEFINE b   == g.edges.data
           ids == LocalIds(b)
           from == Endpoints(b, ids, "_src")
           to   == Endpoints(b, ids, "_dst")
<1>1. PICK m, n \in Nat :
              /\ DOMAIN b.rows = 1..m /\ Len(b.rows) = m
              /\ DOMAIN g.edges.ids = 1..n /\ Len(g.edges.ids) = n /\ g.edges.ids = ids
      BY BuiltParts
<1>2. DOMAIN ids = 1..n /\ Len(ids) = n
      BY <1>1
<1>3. g.edges.out = Csr(from, to, n)
  <2>1. g.edges = EdgesOf(b)
        BY DEF Built
  <2>2. g.edges.out = Csr(from, to, Len(ids))
        BY <2>1 DEF EdgesOf
  <2>3. QED BY <1>2, <2>2
<1>4. from \in [1..m -> 1..n] /\ to \in [1..m -> 1..n]
  <2>1. DOMAIN b.rows = 1..m
        BY <1>1
  <2>2. ids = LocalIds(b) /\ from = Endpoints(b, ids, "_src") /\ to = Endpoints(b, ids, "_dst")
        OBVIOUS
  <2> HIDE DEF b, ids, from, to
  <2>3. from \in [1..m -> 1..n]
        BY <1>2, <2>1, <2>2, EndsByNumber
  <2>4. to \in [1..m -> 1..n]
        BY <1>2, <2>1, <2>2, EndsByNumber
  <2>5. QED BY <2>3, <2>4
<1>5. DOMAIN g.edges.ids = 1..n /\ Len(EdgeRows(g)) = m
      BY <1>1 DEF EdgeRows
<1> HIDE DEF b, ids, from, to
<1>6. \A i \in 1..n : SliceHas(Slice(Csr(from, to, n), i), from, to, i)
  <2>1. m \in Nat /\ n \in Nat
        OBVIOUS
  <2>2. QED BY ONLY <1>4, <2>1, CsrSlices
<1> DEFINE U  == (1..n) \X (1..n)
           ss == [i \in 1..n |-> CooOf(g, i)]
           coo == ToCoo(g)
           d(i) == Cardinality(RowsOf(from, i))
           u(i) == Cardinality(Upto(from, to, i))
<1>7. /\ coo = FlattenSeq(ss) /\ ss \in Seq(Seq(U)) /\ Len(ss) = n
      /\ \A i \in 1..n : DOMAIN ss[i] = DOMAIN Slice(g.edges.out, i)
  <2>1. DOMAIN g.edges.ids = 1..n
        BY <1>5
  <2>2. /\ coo = FlattenSeq(ss) /\ ss \in Seq(Seq(U)) /\ Len(ss) = n
        /\ \A i \in 1..n : /\ DOMAIN ss[i] = DOMAIN Slice(g.edges.out, i)
                           /\ \A p \in DOMAIN ss[i] : ss[i][p] = <<i, Slice(g.edges.out, i)[p].to>>
        BY <2>1, CooParts
  <2>3. QED BY <2>2
<1> HIDE DEF U, ss, coo
<1>8. /\ \A i \in 1..n : d(i) \in Nat /\ u(i) = u(i - 1) + d(i)
      /\ u(n) = m
      BY <1>4, EntriesGrow
<1>9. u(0) = 0
  <2>1. Upto(from, to, 0) = {}
    <3>1. \A e \in Entries(from, to) : ~(e[1] <= 0)
      <4> TAKE e \in Entries(from, to)
      <4>1. PICK r \in 1..m : e = <<from[r], to[r], r>>
            BY <1>4 DEF Entries
      <4>2. e[1] = from[r] /\ from[r] \in 1..n
            BY <1>4, <4>1
      <4>3. QED BY <4>2
    <3>2. QED BY <3>1 DEF Upto
  <2>2. QED BY <2>1, FS_EmptySet
<1> HIDE DEF d, u
<1>10. \A i \in 1..n : Len(ss[i]) = d(i)
  <2> TAKE i \in 1..n
  <2> DEFINE t == ss[i]
             k == d(i)
  <2>1. DOMAIN Slice(g.edges.out, i) = 1..k
    <3>1. DOMAIN Slice(Csr(from, to, n), i) = 1..Cardinality(RowsOf(from, i))
          BY <1>6 DEF SliceHas
    <3>2. QED BY <1>3, <3>1 DEF d
  <2>2. DOMAIN t = 1..k /\ k \in Nat
        BY <1>7, <1>8, <2>1
  <2> HIDE DEF t, k
  <2>3. Len(t) = k
        BY <2>2, ListLen
  <2>4. QED BY <2>3 DEF t, k
<1>11. PICK o : Lies(ss, n, o, coo)
  <2>1. \E o : Lies(ss, Len(ss), o, FlattenSeq(ss))
    <3> DEFINE V == U
    <3> HIDE DEF V
    <3>1. ss \in Seq(Seq(V))
          BY <1>7 DEF V
    <3>2. QED BY <3>1, FlattenLies
  <2>2. QED BY <1>7, <2>1
<1>12. o[0] = 0 /\ Len(coo) = o[n] /\ \A k \in 1..n : o[k] = o[k - 1] + d(k)
  <2>1. o[0] = 0 /\ Len(coo) = o[n] /\ \A k \in 1..n : o[k] = o[k - 1] + Len(ss[k])
        BY <1>11 DEF Lies
  <2>2. QED BY <1>10, <2>1
<1>13. \A i \in 0..n : o[i] = u(i)
  <2> DEFINE T == {i \in Nat : i <= n => o[i] = u(i)}
  <2>1. 0 \in T
        BY <1>9, <1>12
  <2>2. ASSUME NEW i \in Nat, i \in T PROVE i + 1 \in T
    <3>1. SUFFICES ASSUME i + 1 <= n PROVE o[i + 1] = u(i + 1)
          OBVIOUS
    <3>2. i + 1 \in 1..n /\ (i + 1) - 1 = i /\ o[i] = u(i)
          BY <2>2, <3>1
    <3>3. QED BY <1>8, <1>12, <3>2
  <2>3. Nat \subseteq T
    <3> HIDE DEF T
    <3>1. QED BY <2>1, <2>2, NatSetInduction
  <2>4. QED BY <2>3
<1>14. o[n] = u(n)
       BY <1>13
<1>15. QED BY <1>5, <1>8, <1>12, <1>14 DEF coo

\* with its ends.
LEMMA CooEnds ==
    ASSUME NEW g, Built(g.edges)
    PROVE  {<<g.edges.ids[e[1]], g.edges.ids[e[2]]>> : e \in ToSet(ToCoo(g))} =
              {<<r["_src"], r["_dst"]>> : r \in ToSet(EdgeRows(g))}
<1> DEFINE ids  == g.edges.ids
           rows == EdgeRows(g)
           coo  == ToCoo(g)
           s(i) == Slice(g.edges.out, i)
<1>1. PICK m, n \in Nat : /\ DOMAIN g.edges.data.rows = 1..m /\ DOMAIN g.edges.ids = 1..n
                          /\ ToSet(g.edges.ids) = EndsOf(g.edges.data)
      BY BuiltParts
<1>2. DOMAIN rows = 1..m /\ DOMAIN ids = 1..n /\ rows = g.edges.data.rows
      BY <1>1 DEF EdgeRows
<1> DEFINE U  == (1..n) \X (1..n)
           ss == [i \in 1..n |-> CooOf(g, i)]
<1>3. /\ coo = FlattenSeq(ss) /\ ss \in Seq(Seq(U)) /\ Len(ss) = n
      /\ \A i \in 1..n : /\ DOMAIN ss[i] = DOMAIN s(i)
                         /\ \A p \in DOMAIN ss[i] : ss[i][p] = <<i, s(i)[p].to>>
      BY <1>1, CooParts
<1>4. \A i \in 1..n : RowsListed(g.edges, s(i), "_src", "_dst", ids[i])
  <2> TAKE i \in 1..n
  <2>1. i \in DOMAIN g.edges.ids
        BY <1>1
  <2>2. QED BY <2>1, BuiltSlices
<1>5. DOMAIN ss = 1..n
      OBVIOUS
<1> HIDE DEF U, ss, coo, s
<1>6. ToSet(coo) = UNION {ToSet(ss[i]) : i \in 1..n}
  <2> DEFINE V == U
  <2> HIDE DEF V
  <2>1. ss \in Seq(Seq(V))
        BY <1>3 DEF V
  <2>2. ToSet(FlattenSeq(ss)) = UNION {ToSet(ss[k]) : k \in DOMAIN ss}
        BY <2>1, FlattenHas
  <2>3. QED BY <1>3, <1>5, <2>2
<1>7. ASSUME NEW e \in ToSet(coo) PROVE \E r \in 1..m : <<ids[e[1]], ids[e[2]]>> = <<rows[r]["_src"], rows[r]["_dst"]>>
  <2>1. PICK i \in 1..n : e \in ToSet(ss[i])
        BY <1>6
  <2>2. PICK p \in DOMAIN s(i) : e = <<i, s(i)[p].to>>
        BY <1>3, <2>1 DEF ToSet
  <2> DEFINE r == s(i)[p].row
             t == s(i)[p].to
  <2>3. r \in 1..m /\ rows[r]["_src"] = ids[i] /\ ids[t] = rows[r]["_dst"]
        BY <1>2, <1>4 DEF RowsListed
  <2>4. e = <<i, t>>
        BY <2>2
  <2> HIDE DEF r, t
  <2>5. e[1] = i /\ e[2] = t
        BY <2>4
  <2>6. QED BY <2>3, <2>5
<1>8. ASSUME NEW r \in 1..m PROVE \E e \in ToSet(coo) : <<ids[e[1]], ids[e[2]]>> = <<rows[r]["_src"], rows[r]["_dst"]>>
  <2>1. rows[r]["_src"] \in ToSet(ids)
        BY <1>1, <1>2 DEF EndsOf
  <2>2. PICK i \in 1..n : ids[i] = rows[r]["_src"]
        BY <1>2, <2>1 DEF ToSet
  <2>3. PICK p \in DOMAIN s(i) : s(i)[p].row = r
    <3>1. RowsListed(g.edges, s(i), "_src", "_dst", ids[i]) /\ r \in DOMAIN g.edges.data.rows
          BY <1>2, <1>4
    <3>2. g.edges.data.rows[r]["_src"] = ids[i]
          BY <1>2, <2>2
    <3>3. QED BY <3>1, <3>2 DEF RowsListed
  <2> DEFINE t == s(i)[p].to
             e == <<i, t>>
  <2>4. ids[t] = rows[r]["_dst"]
        BY <1>2, <1>4, <2>3 DEF RowsListed
  <2>5. e = ss[i][p] /\ p \in DOMAIN ss[i]
        BY <1>3
  <2>6. e[1] = i /\ e[2] = t
        OBVIOUS
  <2> HIDE DEF e, t
  <2>7. e \in ToSet(ss[i])
        BY <2>5 DEF ToSet
  <2>8. e \in ToSet(coo)
        BY <1>6, <2>7
  <2>9. QED BY <2>2, <2>4, <2>6, <2>8
<1>9. ToSet(rows) = {rows[r] : r \in 1..m}
      BY <1>2 DEF ToSet
<1> DEFINE L == {<<ids[e[1]], ids[e[2]]>> : e \in ToSet(coo)}
           R == {<<r["_src"], r["_dst"]>> : r \in ToSet(rows)}
<1> HIDE DEF ids, rows
<1>10. ASSUME NEW x \in L PROVE x \in R
  <2>1. PICK e \in ToSet(coo) : x = <<ids[e[1]], ids[e[2]]>>
        OBVIOUS
  <2>2. PICK r \in 1..m : <<ids[e[1]], ids[e[2]]>> = <<rows[r]["_src"], rows[r]["_dst"]>>
        BY <1>7
  <2>3. rows[r] \in ToSet(rows)
        BY <1>9
  <2>4. QED BY <2>1, <2>2, <2>3
<1>11. ASSUME NEW x \in R PROVE x \in L
  <2>1. PICK q \in ToSet(rows) : x = <<q["_src"], q["_dst"]>>
        OBVIOUS
  <2>2. PICK r \in 1..m : q = rows[r]
        BY <1>9
  <2>3. PICK e \in ToSet(coo) : <<ids[e[1]], ids[e[2]]>> = <<rows[r]["_src"], rows[r]["_dst"]>>
        BY <1>8
  <2>4. x = <<ids[e[1]], ids[e[2]]>>
        BY <2>1, <2>2, <2>3
  <2>5. QED BY <2>4
<1>12. L = R
       BY <1>10, <1>11
<1>13. QED BY <1>12 DEF ids, rows, coo

\* Frames that are built from their rows have indexes that say what the rows say.
\* (What IndexesAgree of Library is of every graph that is made.)
LEMMA NodesIndexed ==
    ASSUME NEW g, WellBuilt(g)
    PROVE  /\ DOMAIN g.nodes.index = AllIds(g)
           /\ \A x \in DOMAIN g.nodes.index : IdsOf(g)[g.nodes.index[x]] = x
           /\ \A x \in DOMAIN g.nodes.index : /\ g.nodes.index[x] \in DOMAIN g.nodes.data.rows
                                              /\ g.nodes.data.rows[g.nodes.index[x]]["_id"] = x
           /\ \A r \in DOMAIN g.nodes.data.rows :
                 g.nodes.data.rows[r]["_id"] \in AllIds(g) /\ g.nodes.index[g.nodes.data.rows[r]["_id"]] = r
           /\ IsFiniteSet(AllIds(g)) /\ Cardinality(AllIds(g)) = Len(IdsOf(g))
<1> DEFINE b   == g.nodes.data
           ids == IdsOf(g)
           at  == g.nodes.index
<1>1. g.nodes.index = IdIndex(b) /\ ids = Column(b, "_id") /\ IsInjective(ids) /\ Batch(b)
      BY DEF WellBuilt, NodesOf, IdsOf
<1>2. PICK m \in Nat : DOMAIN b.rows = 1..m
      BY <1>1 DEF Batch
<1>3. DOMAIN ids = 1..m /\ \A r \in 1..m : ids[r] = b.rows[r]["_id"]
      BY <1>1, <1>2 DEF Column
<1>4. at = IdIndex(b)
      BY <1>1
<1> HIDE DEF b, ids, at
<1>5. /\ DOMAIN IdIndex(b) = ToSet(Column(b, "_id"))
      /\ \A r \in 1..m : b.rows[r]["_id"] \in DOMAIN IdIndex(b) /\ IdIndex(b)[b.rows[r]["_id"]] = r
      /\ \A x \in DOMAIN IdIndex(b) : IdIndex(b)[x] \in 1..m /\ b.rows[IdIndex(b)[x]]["_id"] = x
  <2>1. IsInjective(Column(b, "_id"))
        BY <1>1
  <2>2. QED BY <1>2, <2>1, IdsIndexed
<1>6. /\ DOMAIN at = ToSet(ids)
      /\ \A r \in 1..m : b.rows[r]["_id"] \in DOMAIN at /\ at[b.rows[r]["_id"]] = r
      /\ \A x \in DOMAIN at : at[x] \in 1..m /\ b.rows[at[x]]["_id"] = x
  <2>1. ToSet(ids) = ToSet(Column(b, "_id"))
        BY <1>1
  <2>2. QED BY <1>4, <1>5, <2>1
<1>7. \A x \in DOMAIN at : ids[at[x]] = x
      BY <1>3, <1>6
<1>8. IsFiniteSet(ToSet(ids)) /\ Cardinality(ToSet(ids)) = Len(ids)
  <2> DEFINE Q == 1..m
  <2>1. IsFiniteSet(Q) /\ Cardinality(Q) = m
    <3>1. m = IF 1 <= m THEN m - 1 + 1 ELSE 0
          OBVIOUS
    <3>2. IsFiniteSet(1..m) /\ Cardinality(1..m) = IF 1 <= m THEN m - 1 + 1 ELSE 0
          BY FS_Interval
    <3>3. QED BY <3>1, <3>2
  <2>2. Len(ids) = m
        BY <1>3, ListLen
  <2>3. \A x, y \in Q : ids[x] = ids[y] => x = y
        BY <1>1, <1>3 DEF IsInjective
  <2>4. ToSet(ids) = {ids[x] : x \in Q}
        BY <1>3 DEF ToSet
  <2> HIDE DEF Q
  <2>5. IsFiniteSet({ids[x] : x \in Q}) /\ Cardinality({ids[x] : x \in Q}) = Cardinality(Q)
        BY <2>1, <2>3, SameSize
  <2>6. QED BY <2>1, <2>2, <2>4, <2>5
<1>9. QED BY <1>2, <1>6, <1>7, <1>8 DEF AllIds, b, ids, at

\* A list of neighbours as a set of ends and rows.
LEMMA ListedPairs ==
    ASSUME NEW rows, NEW s, NEW c, NEW d, NEW x, NeighborsListed(rows, s, c, d, x)
    PROVE  {<<p.to, p.row>> : p \in ToSet(s)} = {<<rows[r][d], r>> : r \in {r \in DOMAIN rows : rows[r][c] = x}}
<1>1. \A p \in DOMAIN s : /\ s[p].row \in DOMAIN rows /\ rows[s[p].row][c] = x
                          /\ s[p].to = rows[s[p].row][d]
      BY DEF NeighborsListed
<1>2. \A r \in DOMAIN rows : rows[r][c] = x => \E p \in DOMAIN s : s[p].row = r
      BY DEF NeighborsListed
<1>3. ToSet(s) = {s[p] : p \in DOMAIN s}
      BY DEF ToSet
<1>4. ASSUME NEW q \in ToSet(s)
      PROVE  \E r \in {r \in DOMAIN rows : rows[r][c] = x} : <<q.to, q.row>> = <<rows[r][d], r>>
  <2>1. PICK p \in DOMAIN s : q = s[p]
        BY <1>3
  <2>2. QED BY <1>1, <2>1
<1>5. ASSUME NEW r \in {r \in DOMAIN rows : rows[r][c] = x}
      PROVE  \E q \in ToSet(s) : <<q.to, q.row>> = <<rows[r][d], r>>
  <2>1. PICK p \in DOMAIN s : s[p].row = r
        BY <1>2
  <2>2. s[p] \in ToSet(s) /\ s[p].to = rows[r][d]
        BY <1>1, <1>3, <2>1
  <2>3. QED BY <2>1, <2>2
<1>6. QED BY <1>4, <1>5

-----------------------------------------------------------------------------
(* Frames that are made from frames.                                        *)

\* The numbers of S are at[1] to at[n], in order, and what is picked at S is at these.
PickedAt(S, n, at) ==
    /\ n \in Nat /\ at \in [1..n -> S]
    /\ \A i, j \in 1..n : i < j => at[i] < at[j]
    /\ \A r \in S : \E i \in 1..n : at[i] = r
    /\ \A s : Picked(s, S) = [i \in 1..n |-> s[at[i]]]

\* What is picked from a list is picked at places that grow.
LEMMA PickedIs ==
    ASSUME NEW m \in Nat, NEW S, S \subseteq 1..m
    PROVE  \E n, at : PickedAt(S, n, at)
<1> DEFINE at == Ascending(S)
           n  == Cardinality(S)
<1>1. S \in SUBSET Nat /\ IsFiniteSet(S)
  <2>1. IsFiniteSet(1..m)
        BY FS_Interval
  <2>2. IsFiniteSet(S)
        BY <2>1, FS_Subset
  <2>3. QED BY <2>2
<1>2. /\ n \in Nat /\ at \in [1..n -> S]
      /\ \A i, j \in 1..n : i < j => at[i] < at[j]
      /\ \A r \in S : \E i \in 1..n : at[i] = r
      BY <1>1, AscendingLists
<1>3. \A s : Picked(s, S) = [i \in DOMAIN at |-> s[at[i]]]
      BY DEF Picked
<1> HIDE DEF at, n
<1>4. \A s : Picked(s, S) = [i \in 1..n |-> s[at[i]]]
      BY <1>2, <1>3
<1>5. PickedAt(S, n, at)
      BY <1>2, <1>4 DEF PickedAt
<1>6. QED BY <1>5

\* A node frame is what is built from its batch, without an id twice.
NodesBuilt(nodes) ==
    Batch(nodes.data) /\ nodes = NodesOf(nodes.data) /\ IsInjective(Column(nodes.data, "_id"))

\* A filter of a batch picks rows, and from each column the values in them.
LEMMA FilterPicks ==
    ASSUME NEW b, Batch(b), NEW mask, DOMAIN mask = DOMAIN b.rows,
           NEW S, S = {r \in DOMAIN mask : mask[r]}
    PROVE  /\ Batch(FilterRows(b, mask))
           /\ FilterRows(b, mask).rows = Picked(b.rows, S)
           /\ \A c : Column(FilterRows(b, mask), c) = Picked(Column(b, c), S)
           /\ \A c : IsInjective(Column(b, c)) => IsInjective(Column(FilterRows(b, mask), c))
<1> DEFINE f == FilterRows(b, mask)
<1>1. PICK m \in Nat : DOMAIN b.rows = 1..m
      BY DEF Batch
<1>2. S \subseteq 1..m
      BY <1>1
<1>3. PICK n, at : PickedAt(S, n, at)
      BY <1>2, PickedIs
<1>4. /\ n \in Nat /\ at \in [1..n -> S]
      /\ \A i, j \in 1..n : i < j => at[i] < at[j]
      /\ \A s : Picked(s, S) = [i \in 1..n |-> s[at[i]]]
      BY <1>3 DEF PickedAt
<1>5. f.rows = Picked(b.rows, S) /\ Batch(f)
  <2>1. b = [fields |-> b.fields, rows |-> b.rows]
        BY DEF Batch
  <2> DEFINE p == Picked(b.rows, S)
  <2>2. f = [b EXCEPT !.rows = p]
        BY DEF FilterRows
  <2>3. DOMAIN p = 1..n
        BY <1>4
  <2> HIDE DEF p
  <2>4. f = [fields |-> b.fields, rows |-> p]
        BY <2>1, <2>2
  <2>5. f.rows = p /\ f = [fields |-> f.fields, rows |-> f.rows]
        BY <2>4
  <2>6. n \in Nat /\ DOMAIN f.rows = 1..n
        BY <1>4, <2>3, <2>5
  <2> HIDE DEF f
  <2>8. Batch(f)
        BY <2>5, <2>6 DEF Batch
  <2>7. QED BY <2>5, <2>8 DEF p
<1>6. f.rows = [i \in 1..n |-> b.rows[at[i]]]
      BY <1>4, <1>5
<1> HIDE DEF f
<1>7. ASSUME NEW c PROVE Column(f, c) = Picked(Column(b, c), S)
  <2>1. Picked(Column(b, c), S) = [i \in 1..n |-> Column(b, c)[at[i]]]
        BY <1>4
  <2>2. \A i \in 1..n : at[i] \in DOMAIN b.rows
        BY <1>1, <1>2, <1>4
  <2>3. \A i \in 1..n : Column(b, c)[at[i]] = b.rows[at[i]][c]
        BY <2>2 DEF Column
  <2>4. Column(f, c) = [i \in 1..n |-> b.rows[at[i]][c]]
        BY <1>6 DEF Column
  <2>5. QED BY <2>1, <2>3, <2>4
<1>8. ASSUME NEW c, IsInjective(Column(b, c)) PROVE IsInjective(Column(f, c))
  <2> DEFINE s == Column(b, c)
             t == Column(f, c)
  <2>9. t = Picked(s, S)
        BY <1>7
  <2>1. t = [i \in 1..n |-> s[at[i]]]
    <3> HIDE DEF s, t
    <3>1. QED BY <1>4, <2>9
  <2>2. DOMAIN s = 1..m
        BY <1>1 DEF Column
  <2>3. \A i, j \in 1..m : s[i] = s[j] => i = j
        BY <1>8, <2>2 DEF IsInjective
  <2> HIDE DEF s, t
  <2>4. \A i \in 1..n : at[i] \in 1..m /\ t[i] = s[at[i]]
        BY <1>2, <1>4, <2>1
  <2>5. ASSUME NEW i \in 1..n, NEW j \in 1..n, t[i] = t[j] PROVE i = j
    <3>1. at[i] = at[j]
          BY <2>3, <2>4, <2>5
    <3>2. ~(i < j) /\ ~(j < i)
          BY <1>4, <2>4, <3>1
    <3>3. QED BY <3>2
  <2>6. DOMAIN t = 1..n
        BY <2>1
  <2>7. IsInjective(t)
        BY <2>5, <2>6 DEF IsInjective
  <2>8. QED BY <2>7 DEF t
<1>9. QED BY <1>5, <1>7, <1>8 DEF f

\* A filtered node frame is built like one.
LEMMA NodesFiltered ==
    ASSUME NEW nodes, NodesBuilt(nodes), NEW mask, DOMAIN mask = DOMAIN nodes.data.rows
    PROVE  /\ NodesBuilt(NodesOf(FilterRows(nodes.data, mask)))
           /\ Column(NodesOf(FilterRows(nodes.data, mask)).data, "_id") =
                 Picked(Column(nodes.data, "_id"), {r \in DOMAIN mask : mask[r]})
<1> DEFINE b == nodes.data
           f == FilterRows(b, mask)
           S == {r \in DOMAIN mask : mask[r]}
<1>1. Batch(b) /\ IsInjective(Column(b, "_id")) /\ DOMAIN mask = DOMAIN b.rows
      BY DEF NodesBuilt
<1>2. NodesOf(f).data = f
      BY DEF NodesOf
<1> HIDE DEF b
<1>3. /\ Batch(f) /\ Column(f, "_id") = Picked(Column(b, "_id"), S)
      /\ IsInjective(Column(b, "_id")) => IsInjective(Column(f, "_id"))
  <2> HIDE DEF S
  <2>1. S = {r \in DOMAIN mask : mask[r]}
        BY DEF S
  <2>2. QED BY <1>1, <2>1, FilterPicks
<1>4. NodesBuilt(NodesOf(f))
      BY <1>1, <1>2, <1>3 DEF NodesBuilt
<1>5. QED BY <1>2, <1>3, <1>4 DEF b

\* The nodes of a set are a filter of the nodes.
LEMMA NodesInBuilt ==
    ASSUME NEW nodes, NodesBuilt(nodes), NEW X
    PROVE  /\ NodesBuilt(NodesIn(nodes, X))
           /\ Column(NodesIn(nodes, X).data, "_id") = Those(Column(nodes.data, "_id"), LAMBDA x : x \in X)
<1> DEFINE b    == nodes.data
           mask == [r \in DOMAIN b.rows |-> b.rows[r]["_id"] \in X]
           S    == {r \in DOMAIN mask : mask[r]}
           s    == Column(b, "_id")
<1>1. NodesIn(nodes, X) = NodesOf(FilterRows(b, mask))
      BY DEF NodesIn
<1>2. DOMAIN mask = DOMAIN b.rows
      OBVIOUS
<1>3. S = {i \in DOMAIN s : s[i] \in X}
      BY DEF Column
<1> HIDE DEF mask
<1>4. /\ NodesBuilt(NodesOf(FilterRows(b, mask)))
      /\ Column(NodesOf(FilterRows(b, mask)).data, "_id") = Picked(s, S)
      BY <1>2, NodesFiltered
<1> HIDE DEF S
<1>5. Those(s, LAMBDA x : x \in X) = Picked(s, S)
      BY <1>3 DEF Those
<1>6. QED BY <1>1, <1>4, <1>5

\* A filtered edge frame is built like one.
LEMMA EdgesFiltered ==
    ASSUME NEW edges, Built(edges), NEW mask, DOMAIN mask = DOMAIN edges.data.rows
    PROVE  /\ Built(EdgesOf(FilterRows(edges.data, mask)))
           /\ EdgesOf(FilterRows(edges.data, mask)).data.rows = Picked(edges.data.rows, {r \in DOMAIN mask : mask[r]})
<1> DEFINE b == edges.data
           f == FilterRows(b, mask)
           S == {r \in DOMAIN mask : mask[r]}
<1>1. Batch(b) /\ DOMAIN mask = DOMAIN b.rows
      BY DEF Built
<1>2. EdgesOf(f).data = f
      BY DEF EdgesOf
<1> HIDE DEF b
<1>3. Batch(f) /\ f.rows = Picked(b.rows, S)
  <2> HIDE DEF S
  <2>1. S = {r \in DOMAIN mask : mask[r]}
        BY DEF S
  <2>2. QED BY <1>1, <2>1, FilterPicks
<1>4. Built(EdgesOf(f))
      BY <1>2, <1>3 DEF Built
<1>5. QED BY <1>2, <1>3, <1>4 DEF b

\* The ids of the index of a node frame.
LEMMA BuiltHas ==
    ASSUME NEW nodes, NodesBuilt(nodes), NEW x
    PROVE  HasNode(nodes, x) <=> x \in ToSet(Column(nodes.data, "_id"))
BY DEF NodesBuilt, NodesOf, IdIndex, HasNode

\* Frames that are built and fit together make a graph that is.
LEMMA GraphBuilt ==
    ASSUME NEW nodes, NEW edges, NodesBuilt(nodes), Built(edges), NewGraph(nodes, edges).status = "ok"
    PROVE  /\ NewGraph(nodes, edges).value = Unchecked(nodes, edges)
           /\ WellBuilt(NewGraph(nodes, edges).value)
<1>1. ~Dangles(nodes, edges)
      BY DEF NewGraph, Err
<1>2. NewGraph(nodes, edges).value = Unchecked(nodes, edges)
      BY <1>1 DEF NewGraph, Ok
<1> DEFINE h == Unchecked(nodes, edges)
<1>3. h.nodes = nodes /\ h.edges = edges
      BY DEF Unchecked
<1> HIDE DEF h
<1>4. IdsOf(h) = Column(nodes.data, "_id")
      BY <1>3 DEF IdsOf
<1>5. WellBuilt(h)
      BY <1>1, <1>3, <1>4 DEF WellBuilt, NodesBuilt
<1>6. QED BY <1>2, <1>5 DEF h

\* What a graph has that is built.
LEMMA WellBuiltHas ==
    ASSUME NEW g, WellBuilt(g)
    PROVE  /\ NodesBuilt(g.nodes) /\ Built(g.edges) /\ ~Dangles(g.nodes, g.edges)
           /\ \A x : HasNode(g.nodes, x) <=> x \in AllIds(g)
           /\ \A r \in DOMAIN EdgeRows(g) :
                 EdgeRows(g)[r]["_src"] \in AllIds(g) /\ EdgeRows(g)[r]["_dst"] \in AllIds(g)
<1>1. NodesBuilt(g.nodes) /\ Built(g.edges) /\ ~Dangles(g.nodes, g.edges)
      BY DEF WellBuilt, NodesBuilt, IdsOf
<1>2. \A x : HasNode(g.nodes, x) <=> x \in AllIds(g)
      BY <1>1, BuiltHas DEF AllIds, IdsOf
<1>3. \A r \in DOMAIN EdgeRows(g) :
                 EdgeRows(g)[r]["_src"] \in AllIds(g) /\ EdgeRows(g)[r]["_dst"] \in AllIds(g)
      BY <1>1, <1>2 DEF Dangles, EdgeRows
<1>4. QED BY <1>1, <1>2, <1>3

\* t has what s has at S, and nothing else.
HasAt(t, s, S) ==
    /\ \A i \in DOMAIN t : \E r \in S : t[i] = s[r]
    /\ \A r \in S : \E i \in DOMAIN t : t[i] = s[r]

\* What is picked from a list is in it.
LEMMA PickedFrom ==
    ASSUME NEW m \in Nat, NEW S, S \subseteq 1..m, NEW s
    PROVE  HasAt(Picked(s, S), s, S)
<1>1. PICK n, at : PickedAt(S, n, at)
      BY PickedIs
<1> DEFINE t == Picked(s, S)
<1>2. /\ n \in Nat /\ at \in [1..n -> S]
      /\ \A r \in S : \E i \in 1..n : at[i] = r
      /\ t = [i \in 1..n |-> s[at[i]]]
      BY <1>1 DEF PickedAt
<1> HIDE DEF t
<1>3. DOMAIN t = 1..n /\ \A i \in 1..n : t[i] = s[at[i]] /\ at[i] \in S
      BY <1>2
<1>4. HasAt(t, s, S)
      BY <1>2, <1>3 DEF HasAt
<1>5. QED BY <1>4 DEF t

\* h has the rows of those nodes of g that are in K, and the edges between them.
InducedIn(h, g, K) ==
    /\ IdsOf(h) = Those(IdsOf(g), LAMBDA x : x \in K)
    /\ EdgeRows(h) = Those(EdgeRows(g), LAMBDA r : {r["_src"], r["_dst"]} \subseteq K)

\* The subgraph of some ids is built, with their nodes and the edges between them.
LEMMA SubgraphBuilt ==
    ASSUME NEW g, WellBuilt(g), NEW X, NEW K, X \cap AllIds(g) = K \cap AllIds(g)
    PROVE  /\ Subgraph(g, X).status = "ok"
           /\ WellBuilt(Subgraph(g, X).value)
           /\ InducedIn(Subgraph(g, X).value, g, K)
           /\ AllIds(Subgraph(g, X).value) = AllIds(g) \cap K
<1> DEFINE nodes == NodesIn(g.nodes, X)
           rows  == EdgeRows(g)
           Q     == {r \in DOMAIN rows : HasNode(nodes, rows[r]["_src"]) /\ HasNode(nodes, rows[r]["_dst"])}
           mask  == [r \in DOMAIN g.edges.data.rows |-> r \in Q]
           edges == EdgesOf(FilterRows(g.edges.data, mask))
           h     == Subgraph(g, X)
<1>1. /\ NodesBuilt(g.nodes) /\ Built(g.edges)
      /\ \A r \in DOMAIN rows : rows[r]["_src"] \in AllIds(g) /\ rows[r]["_dst"] \in AllIds(g)
      BY WellBuiltHas
<1>2. h = NewGraph(nodes, edges)
      BY DEF Subgraph, Induced, EdgesAt
<1>3. rows = g.edges.data.rows /\ IdsOf(g) = Column(g.nodes.data, "_id") /\ AllIds(g) = ToSet(IdsOf(g))
      BY DEF EdgeRows, IdsOf, AllIds
<1>4. PICK m, n \in Nat : DOMAIN rows = 1..m /\ DOMAIN IdsOf(g) = 1..n
      BY <1>1, <1>3 DEF Built, NodesBuilt, Batch, Column
<1> DEFINE T == {i \in DOMAIN IdsOf(g) : IdsOf(g)[i] \in X}
<1>5. NodesBuilt(nodes) /\ Column(nodes.data, "_id") = Picked(IdsOf(g), T)
  <2>1. NodesBuilt(nodes) /\ Column(nodes.data, "_id") = Those(IdsOf(g), LAMBDA x : x \in X)
        BY <1>1, <1>3, NodesInBuilt
  <2>2. QED BY <2>1 DEF Those
<1>6. T = {i \in DOMAIN IdsOf(g) : IdsOf(g)[i] \in K}
      BY <1>3 DEF ToSet
<1>7. \A x : HasNode(nodes, x) <=> x \in AllIds(g) \cap K
  <2>1. \A x : HasNode(nodes, x) <=> x \in ToSet(Column(nodes.data, "_id"))
        BY <1>5, BuiltHas
  <2>2. T \subseteq 1..n
        BY <1>4
  <2> DEFINE s == IdsOf(g)
             t == Picked(s, T)
  <2>3. HasAt(t, s, T)
    <3>1. n \in Nat
          BY <1>4
    <3> HIDE DEF T, s
    <3>2. QED BY <2>2, <3>1, PickedFrom
  <2>4. ToSet(t) = {t[i] : i \in DOMAIN t} /\ ToSet(s) = {s[i] : i \in DOMAIN s}
        BY DEF ToSet
  <2>5. \A i : i \in T <=> i \in DOMAIN s /\ s[i] \in K
        BY <1>6
  <2>6. AllIds(g) = ToSet(s)
        BY <1>3
  <2>7. \A x : HasNode(nodes, x) <=> x \in ToSet(t)
        BY <1>5, <2>1
  <2> HIDE DEF T, s, t, nodes
  <2>8. ASSUME NEW x \in ToSet(t) PROVE x \in ToSet(s) /\ x \in K
    <3>1. PICK i \in DOMAIN t : x = t[i]
          BY <2>4, <2>8
    <3>2. PICK r \in T : t[i] = s[r]
          BY <2>3 DEF HasAt
    <3>3. QED BY <2>4, <2>5, <3>1, <3>2
  <2>9. ASSUME NEW x \in ToSet(s), x \in K PROVE x \in ToSet(t)
    <3>1. PICK i \in DOMAIN s : x = s[i]
          BY <2>4, <2>9
    <3>2. i \in T
          BY <2>5, <2>9, <3>1
    <3>3. PICK j \in DOMAIN t : t[j] = s[i]
          BY <2>3, <3>2 DEF HasAt
    <3>4. QED BY <2>4, <3>1, <3>3
  <2>10. QED BY <2>6, <2>7, <2>8, <2>9
<1>8. Q = {r \in DOMAIN rows : {rows[r]["_src"], rows[r]["_dst"]} \subseteq K}
  <2> HIDE DEF nodes, rows
  <2>1. QED BY <1>1, <1>7
<1>9. Built(edges) /\ edges.data.rows = Picked(rows, Q)
  <2>1. DOMAIN mask = DOMAIN g.edges.data.rows
        OBVIOUS
  <2>2. {r \in DOMAIN mask : mask[r]} = Q
        BY <1>3
  <2> HIDE DEF mask, Q
  <2>3. Built(edges) /\ edges.data.rows = Picked(g.edges.data.rows, {r \in DOMAIN mask : mask[r]})
        BY <1>1, <2>1, EdgesFiltered
  <2>4. QED BY <1>3, <2>2, <2>3
<1>10. ~Dangles(nodes, edges)
  <2>1. Q \subseteq 1..m
        BY <1>4
  <2>2. \A i \in DOMAIN edges.data.rows : \E r \in Q : edges.data.rows[i] = rows[r]
    <3>1. m \in Nat
          BY <1>4
    <3> HIDE DEF Q, edges, rows
    <3>2. HasAt(Picked(rows, Q), rows, Q)
          BY <2>1, <3>1, PickedFrom
    <3>3. QED BY <1>9, <3>2 DEF HasAt
  <2>3. \A r \in Q : HasNode(nodes, rows[r]["_src"]) /\ HasNode(nodes, rows[r]["_dst"])
        OBVIOUS
  <2> HIDE DEF Q, edges, nodes, rows
  <2>4. QED BY <2>2, <2>3 DEF Dangles
<1> HIDE DEF nodes, edges, Q, T, rows
<1>11. h.status = "ok" /\ h.value = Unchecked(nodes, edges)
       BY <1>2, <1>10 DEF NewGraph, Ok
<1>12. WellBuilt(h.value)
       BY <1>2, <1>5, <1>9, <1>11, GraphBuilt
<1>13. h.value.nodes = nodes /\ h.value.edges = edges
       BY <1>11 DEF Unchecked
<1>14. IdsOf(h.value) = Picked(IdsOf(g), T) /\ EdgeRows(h.value) = Picked(rows, Q)
       BY <1>5, <1>9, <1>13 DEF IdsOf, EdgeRows
<1>15. IdsOf(h.value) = Those(IdsOf(g), LAMBDA x : x \in K)
       BY <1>6, <1>14 DEF Those
<1>16. EdgeRows(h.value) = Those(EdgeRows(g), LAMBDA r : {r["_src"], r["_dst"]} \subseteq K)
       BY <1>8, <1>14 DEF Those, rows
<1>17. AllIds(h.value) = AllIds(g) \cap K
  <2>1. \A x : HasNode(h.value.nodes, x) <=> x \in AllIds(h.value)
        BY <1>12, WellBuiltHas
  <2>2. QED BY <1>7, <1>13, <2>1
<1>18. InducedIn(h.value, g, K)
       BY <1>15, <1>16 DEF InducedIn
<1> HIDE DEF h
<1>19. QED BY <1>11, <1>12, <1>17, <1>18 DEF h

\* NodesFrom builds the frame, or reports an error.
LEMMA NodesFromBuilt ==
    ASSUME NEW b, Batch(b), NodesFrom(b).status = "ok"
    PROVE  NodesFrom(b) = Ok(NodesOf(b)) /\ NodesBuilt(NodesFrom(b).value)
<1> DEFINE e == NodeSchemaError(b)
<1>1. NodesFrom(b) = Unless(e, IF IsInjective(Column(b, "_id")) THEN Ok(NodesOf(b)) ELSE Err("DuplicateNodeId"))
      BY DEF NodesFrom
<1> HIDE DEF e
<1>2. e = "ok"
      BY <1>1 DEF Unless, Err
<1>3. IsInjective(Column(b, "_id"))
      BY <1>1, <1>2 DEF Unless, Err
<1>4. NodesFrom(b) = Ok(NodesOf(b))
      BY <1>1, <1>2, <1>3 DEF Unless
<1>5. NodesOf(b).data = b /\ NodesFrom(b).value = NodesOf(b)
      BY <1>4 DEF NodesOf, Ok
<1>6. QED BY <1>3, <1>4, <1>5 DEF NodesBuilt

\* Columns of a selection are those of the batch.
LEMMA SelectIs ==
    ASSUME NEW b, Batch(b), NEW T, NEW cols \in Seq(T), NEW reserved, NEW V, reserved \in Seq(V),
           Select(b, cols, reserved).status = "ok"
    PROVE  /\ Batch(Select(b, cols, reserved).value)
           /\ DOMAIN Select(b, cols, reserved).value.rows = DOMAIN b.rows
           /\ \A c \in ToSet(reserved) : \A r \in DOMAIN b.rows :
                 Select(b, cols, reserved).value.rows[r][c] = b.rows[r][c]
<1> DEFINE final == WithNew(reserved, cols)
           f     == [i \in DOMAIN final |-> FieldOf(b, final[i])]
           rows  == [r \in DOMAIN b.rows |-> [c \in ToSet(final) |-> b.rows[r][c]]]
<1>1. PICK m \in Nat : DOMAIN b.rows = 1..m
      BY DEF Batch
<1>2. Select(b, cols, reserved) =
          IF ~(ToSet(cols) \subseteq Names(b)) THEN Err("ColumnNotFound") ELSE Ok([fields |-> f, rows |-> rows])
      BY DEF Select
<1>3. ToSet(reserved) \subseteq ToSet(final)
  <2> DEFINE U == T \cup V
             k == Len(cols)
             l == Len(reserved)
  <2>1. cols \in [1..k -> T] /\ k \in Nat /\ reserved \in [1..l -> V] /\ l \in Nat
        OBVIOUS
  <2>2. T \subseteq U /\ V \subseteq U
        OBVIOUS
  <2> HIDE DEF U, k, l
  <2>3. cols \in [1..k -> U] /\ reserved \in [1..l -> U]
        BY <2>1, <2>2
  <2>4. cols \in Seq(U) /\ reserved \in Seq(U)
        BY <2>1, <2>3
  <2>5. ToSet(final) = ToSet(reserved) \cup ToSet(cols)
        BY <2>4, WithNewLists
  <2>6. QED BY <2>5
<1>4. /\ DOMAIN rows = DOMAIN b.rows
      /\ \A c \in ToSet(final) : \A r \in DOMAIN b.rows : rows[r][c] = b.rows[r][c]
      OBVIOUS
<1> HIDE DEF f, rows, final
<1>5. Select(b, cols, reserved).value = [fields |-> f, rows |-> rows]
      BY <1>2 DEF Ok, Err
<1> DEFINE v == Select(b, cols, reserved).value
<1>6. v = [fields |-> v.fields, rows |-> v.rows] /\ v.rows = rows
      BY <1>5
<1>7. DOMAIN v.rows = 1..m
      BY <1>1, <1>4, <1>6
<1>8. Batch(v)
      BY <1>6, <1>7 DEF Batch
<1>9. QED BY <1>3, <1>4, <1>6, <1>8

\* The reserved columns.
LEMMA ReservedAre ==
    /\ NodeReserved \in Seq(ToSet(NodeReserved)) /\ ToSet(NodeReserved) = {"_id", "_label"}
    /\ EdgeReserved \in Seq(ToSet(EdgeReserved)) /\ ToSet(EdgeReserved) = {"_src", "_dst", "_type", "_direction"}
<1>1. DOMAIN NodeReserved = {1, 2} /\ NodeReserved[1] = "_id" /\ NodeReserved[2] = "_label"
      BY DEF NodeReserved
<1>2. /\ DOMAIN EdgeReserved = {1, 2, 3, 4} /\ EdgeReserved[1] = "_src" /\ EdgeReserved[2] = "_dst"
      /\ EdgeReserved[3] = "_type" /\ EdgeReserved[4] = "_direction"
      BY DEF EdgeReserved
<1>3. ToSet(NodeReserved) = {"_id", "_label"}
      BY <1>1 DEF ToSet
<1>4. ToSet(EdgeReserved) = {"_src", "_dst", "_type", "_direction"}
      BY <1>2 DEF ToSet
<1>5. NodeReserved \in Seq(ToSet(NodeReserved))
  <2>1. ASSUME NEW U, NEW a \in U, NEW b \in U PROVE <<a, b>> \in Seq(U)
        OBVIOUS
  <2>2. QED BY <1>3, <2>1 DEF NodeReserved
<1>6. EdgeReserved \in Seq(ToSet(EdgeReserved))
  <2>1. ASSUME NEW U, NEW a \in U, NEW b \in U, NEW c \in U, NEW d \in U PROVE <<a, b, c, d>> \in Seq(U)
        OBVIOUS
  <2>2. QED BY <1>4, <2>1 DEF EdgeReserved
<1>7. QED BY <1>3, <1>4, <1>5, <1>6

\* A selection of nodes keeps the index, and this is the one of its batch.
LEMMA SelectNodesBuilt ==
    ASSUME NEW nodes, NodesBuilt(nodes), NEW T, NEW cols \in Seq(T), SelectNodes(nodes, cols).status = "ok"
    PROVE  NodesBuilt(SelectNodes(nodes, cols).value)
<1> DEFINE b == nodes.data
           s == Select(b, cols, NodeReserved)
           v == s.value
           h == [data |-> v, index |-> nodes.index]
<1>1. SelectNodes(nodes, cols) = IF s.status = "ok" THEN Ok(h) ELSE s
      BY DEF SelectNodes, Then
<1>2. s.status = "ok" /\ SelectNodes(nodes, cols).value = h
      BY <1>1 DEF Ok
<1>3. Batch(b) /\ nodes = NodesOf(b) /\ IsInjective(Column(b, "_id"))
      BY DEF NodesBuilt
<1> HIDE DEF b
<1>4. /\ Batch(v) /\ DOMAIN v.rows = DOMAIN b.rows
      /\ \A r \in DOMAIN b.rows : v.rows[r]["_id"] = b.rows[r]["_id"]
  <2>1. "_id" \in ToSet(NodeReserved) /\ NodeReserved \in Seq(ToSet(NodeReserved))
        BY ReservedAre
  <2>2. QED BY <1>2, <1>3, <2>1, SelectIs
<1> HIDE DEF v, s
<1>5. Column(v, "_id") = Column(b, "_id")
      BY <1>4 DEF Column
<1>6. IdIndex(v) = IdIndex(b)
  <2>1. \A x : {r \in DOMAIN v.rows : v.rows[r]["_id"] = x} = {r \in DOMAIN b.rows : b.rows[r]["_id"] = x}
        BY <1>4
  <2>2. QED BY <1>5, <2>1 DEF IdIndex
<1>7. nodes.index = IdIndex(b)
      BY <1>3 DEF NodesOf
<1>8. h = NodesOf(v) /\ h.data = v
      BY <1>6, <1>7 DEF NodesOf
<1> HIDE DEF h
<1>9. NodesBuilt(h)
      BY <1>3, <1>4, <1>5, <1>8 DEF NodesBuilt
<1>10. QED BY <1>2, <1>9

\* A selection of edges keeps the indexes, and these are those of its batch.
LEMMA SelectEdgesBuilt ==
    ASSUME NEW edges, Built(edges), NEW T, NEW cols \in Seq(T), SelectEdges(edges, cols).status = "ok"
    PROVE  Built(SelectEdges(edges, cols).value)
<1> DEFINE b == edges.data
           s == Select(b, cols, EdgeReserved)
           v == s.value
           h == [edges EXCEPT !.data = v]
<1>1. SelectEdges(edges, cols) = IF s.status = "ok" THEN Ok(h) ELSE s
      BY DEF SelectEdges, Then
<1>2. s.status = "ok" /\ SelectEdges(edges, cols).value = h
      BY <1>1 DEF Ok
<1>3. Batch(b) /\ edges = EdgesOf(b)
      BY DEF Built
<1> HIDE DEF b
<1>4. /\ Batch(v) /\ DOMAIN v.rows = DOMAIN b.rows
      /\ \A c \in {"_src", "_dst", "_type"} : \A r \in DOMAIN b.rows : v.rows[r][c] = b.rows[r][c]
  <2>1. {"_src", "_dst", "_type"} \subseteq ToSet(EdgeReserved) /\ EdgeReserved \in Seq(ToSet(EdgeReserved))
        BY ReservedAre
  <2>2. /\ Batch(v) /\ DOMAIN v.rows = DOMAIN b.rows
        /\ \A c \in ToSet(EdgeReserved) : \A r \in DOMAIN b.rows : v.rows[r][c] = b.rows[r][c]
        BY <1>2, <1>3, <2>1, SelectIs
  <2>3. QED BY <2>1, <2>2
<1> HIDE DEF v, s
<1>5. LocalIds(v) = LocalIds(b)
  <2>1. [r \in DOMAIN v.rows |-> <<v.rows[r]["_src"], v.rows[r]["_dst"]>>] =
        [r \in DOMAIN b.rows |-> <<b.rows[r]["_src"], b.rows[r]["_dst"]>>]
        BY <1>4
  <2>2. QED BY <2>1 DEF LocalIds
<1>6. \A ids : \A c \in {"_src", "_dst", "_type"} : Endpoints(v, ids, c) = Endpoints(b, ids, c)
      BY <1>4 DEF Endpoints
<1>7. TypeIndex(v) = TypeIndex(b)
  <2>1. Column(v, "_type") = Column(b, "_type")
        BY <1>4 DEF Column
  <2>2. \A x : {r \in DOMAIN v.rows : v.rows[r]["_type"] = x} = {r \in DOMAIN b.rows : b.rows[r]["_type"] = x}
        BY <1>4
  <2>3. QED BY <2>1, <2>2 DEF TypeIndex
<1>8. h = EdgesOf(v) /\ h.data = v
  <2> DEFINE ids == LocalIds(b)
             src == Endpoints(b, ids, "_src")
             dst == Endpoints(b, ids, "_dst")
             o   == Csr(src, dst, Len(ids))
             i   == Csr(dst, src, Len(ids))
             t   == TypeIndex(b)
  <2>1. edges = [data |-> b, ids |-> ids, types |-> t, out |-> o, in |-> i]
        BY <1>3 DEF EdgesOf
  <2>2. EdgesOf(v) = [data |-> v, ids |-> ids, types |-> t, out |-> o, in |-> i]
    <3>1. Endpoints(v, ids, "_src") = src /\ Endpoints(v, ids, "_dst") = dst
          BY <1>6
    <3>2. QED BY <1>5, <1>7, <3>1 DEF EdgesOf
  <2> HIDE DEF ids, o, i, t
  <2>3. h = [data |-> v, ids |-> ids, types |-> t, out |-> o, in |-> i]
        BY <2>1
  <2>4. QED BY <2>2, <2>3
<1> HIDE DEF h
<1>9. Built(h)
      BY <1>4, <1>8 DEF Built
<1>10. QED BY <1>2, <1>9

\* Batches put together are a batch.
LEMMA ConcatBatch ==
    ASSUME NEW a, NEW b, Batch(a), Batch(b), NEW reserved, Concat(<<a, b>>, reserved).status = "ok"
    PROVE  Batch(Concat(<<a, b>>, reserved).value)
<1> DEFINE bs    == <<a, b>>
           names == FoldLeft(LAMBDA acc, x : WithNew(acc, [i \in DOMAIN x.fields |-> x.fields[i].name]),
                             reserved, bs)
           padded(x) == [r \in DOMAIN x.rows |->
                           [c \in ToSet(names) |-> IF c \in Names(x) THEN x.rows[r][c] ELSE Null]]
           f  == [i \in DOMAIN names |-> MergedField(bs, names[i])]
           ss == [i \in DOMAIN bs |-> padded(bs[i])]
           v  == Concat(bs, reserved).value
<1>1. v = [fields |-> f, rows |-> FlattenSeq(ss)]
      BY DEF Concat, Ok, Err
<1>2. DOMAIN bs = {1, 2} /\ bs[1] = a /\ bs[2] = b
      OBVIOUS
<1>3. PICK m, n \in Nat : DOMAIN a.rows = 1..m /\ DOMAIN b.rows = 1..n
      BY DEF Batch
<1> HIDE DEF names
<1> DEFINE U == ToSet(padded(a)) \cup ToSet(padded(b))
<1>4. padded(a) \in Seq(U) /\ padded(b) \in Seq(U)
  <2> DEFINE pa == padded(a)
             pb == padded(b)
  <2>1. pa = [r \in 1..m |-> pa[r]] /\ pb = [r \in 1..n |-> pb[r]] /\ DOMAIN pa = 1..m /\ DOMAIN pb = 1..n
        BY <1>3
  <2> HIDE DEF pa, pb
  <2>2. (\A r \in 1..m : pa[r] \in ToSet(pa)) /\ (\A r \in 1..n : pb[r] \in ToSet(pb))
        BY <2>1 DEF ToSet
  <2> DEFINE T == ToSet(pa) \cup ToSet(pb)
  <2>4. (\A r \in 1..m : pa[r] \in T) /\ (\A r \in 1..n : pb[r] \in T)
        BY <2>2
  <2> HIDE DEF T
  <2>5. pa \in [1..m -> T] /\ pb \in [1..n -> T]
        BY <2>1, <2>4
  <2>6. pa \in Seq(T) /\ pb \in Seq(T)
        BY <2>5
  <2>3. pa \in Seq(ToSet(pa) \cup ToSet(pb)) /\ pb \in Seq(ToSet(pa) \cup ToSet(pb))
        BY <2>6 DEF T
  <2>7. QED BY <2>3 DEF pa, pb
<1>5. ss = <<padded(a), padded(b)>>
  <2> DEFINE pa == padded(a)
             pb == padded(b)
  <2>1. ss = [i \in {1, 2} |-> ss[i]] /\ ss[1] = pa /\ ss[2] = pb
        BY <1>2
  <2> HIDE DEF pa, pb, ss
  <2>2. ss = <<pa, pb>>
        BY <2>1
  <2>3. QED BY <2>2 DEF pa, pb
<1> HIDE DEF padded, U, ss
<1>6. ss \in Seq(Seq(U))
      BY <1>4, <1>5
<1>7. FlattenSeq(ss) \in Seq(U)
      BY <1>6, FlattenHas
<1> DEFINE flat == FlattenSeq(ss)
<1>8. DOMAIN flat = 1..Len(flat) /\ Len(flat) \in Nat
      BY <1>7
<1> HIDE DEF flat, f, v
<1>9. v.rows = flat /\ v = [fields |-> v.fields, rows |-> v.rows]
      BY <1>1 DEF flat
<1>10. Batch(v)
      BY <1>8, <1>9 DEF Batch
<1>11. QED BY <1>10 DEF v

\* Two node frames put together are built.
LEMMA ConcatNodesBuilt ==
    ASSUME NEW n1, NEW n2, NodesBuilt(n1), NodesBuilt(n2), ConcatNodes(<<n1, n2>>).status = "ok"
    PROVE  NodesBuilt(ConcatNodes(<<n1, n2>>).value)
<1> DEFINE c == Concat(<<n1.data, n2.data>>, NodeReserved)
           v == c.value
<1>1. [i \in DOMAIN <<n1, n2>> |-> <<n1, n2>>[i].data] = <<n1.data, n2.data>> /\ Len(<<n1, n2>>) # 1
      OBVIOUS
<1>2. ConcatNodes(<<n1, n2>>) =
          IF c.status = "ok" THEN (IF IsInjective(Column(v, "_id")) THEN Ok(NodesOf(v)) ELSE Err("DuplicateNodeId"))
          ELSE c
      BY <1>1 DEF ConcatNodes, Then
<1>3. c.status = "ok" /\ IsInjective(Column(v, "_id")) /\ ConcatNodes(<<n1, n2>>).value = NodesOf(v)
      BY <1>2 DEF Ok, Err
<1>4. Batch(v)
      BY <1>3, ConcatBatch DEF NodesBuilt
<1> HIDE DEF v
<1>5. NodesBuilt(NodesOf(v))
      BY <1>3, <1>4 DEF NodesBuilt, NodesOf
<1>6. QED BY <1>3, <1>5

\* Two edge frames put together are built.
LEMMA ConcatEdgesBuilt ==
    ASSUME NEW e1, NEW e2, Built(e1), Built(e2), ConcatEdges(<<e1, e2>>).status = "ok"
    PROVE  Built(ConcatEdges(<<e1, e2>>).value)
<1> DEFINE c == Concat(<<e1.data, e2.data>>, EdgeReserved)
           v == c.value
<1>1. [i \in DOMAIN <<e1, e2>> |-> <<e1, e2>>[i].data] = <<e1.data, e2.data>> /\ Len(<<e1, e2>>) # 1
      OBVIOUS
<1>2. ConcatEdges(<<e1, e2>>) = IF c.status = "ok" THEN Ok(EdgesOf(v)) ELSE c
      BY <1>1 DEF ConcatEdges, Then
<1>3. c.status = "ok" /\ ConcatEdges(<<e1, e2>>).value = EdgesOf(v)
      BY <1>2 DEF Ok
<1>4. Batch(v)
      BY <1>3, ConcatBatch DEF Built
<1> HIDE DEF v
<1>5. Built(EdgesOf(v))
      BY <1>4 DEF Built, EdgesOf
<1>6. QED BY <1>3, <1>5

\* A slice of nodes is built.
LEMMA SliceBuilt ==
    ASSUME NEW nodes, NodesBuilt(nodes), NEW offset \in Nat, NEW n \in Nat, SliceNodes(nodes, offset, n).status = "ok"
    PROVE  NodesBuilt(SliceNodes(nodes, offset, n).value)
<1> DEFINE b == nodes.data
           t == SubSeq(b.rows, offset + 1, offset + n)
           v == [b EXCEPT !.rows = t]
<1>1. Batch(b) /\ IsInjective(Column(b, "_id"))
      BY DEF NodesBuilt
<1>2. SliceNodes(nodes, offset, n) = IF offset + n > Len(b.rows) THEN Err("panic") ELSE Ok(NodesOf(v))
      BY DEF SliceNodes
<1>3. ~(offset + n > Len(b.rows)) /\ SliceNodes(nodes, offset, n).value = NodesOf(v)
      BY <1>2 DEF Ok, Err
<1>4. PICK m \in Nat : DOMAIN b.rows = 1..m
      BY <1>1 DEF Batch
<1>5. Len(b.rows) = m /\ offset + n <= m
  <2>1. Len(b.rows) = m
        BY <1>4, ListLen
  <2>2. QED BY <1>3, <2>1
<1>6. t = [i \in 1..n |-> b.rows[offset + i]]
  <2> DEFINE s == b.rows
             x == offset + 1
             y == offset + n
  <2>1. x \in Int /\ y \in Int /\ 1 + y - x = n
        OBVIOUS
  <2> HIDE DEF s, x, y
  <2>2. SubSeq(s, x, y) = [i \in 1..(1 + y - x) |-> s[i + x - 1]]
        BY <2>1
  <2>3. SubSeq(s, x, y) = [i \in 1..n |-> s[i + x - 1]]
        BY <2>1, <2>2
  <2>4. \A i \in 1..n : i + x - 1 = offset + i
        BY DEF x
  <2>5. SubSeq(s, x, y) = [i \in 1..n |-> s[offset + i]]
        BY <2>3, <2>4
  <2>6. QED BY <2>5 DEF s, x, y
<1> HIDE DEF t
<1>7. v = [fields |-> b.fields, rows |-> t]
      BY <1>1 DEF Batch
<1> HIDE DEF b
<1>8. v.rows = t /\ v = [fields |-> v.fields, rows |-> v.rows] /\ DOMAIN t = 1..n
      BY <1>6, <1>7
<1> HIDE DEF v
<1>9. Batch(v)
      BY <1>8 DEF Batch
<1>10. IsInjective(Column(v, "_id"))
  <2>1. DOMAIN Column(v, "_id") = 1..n /\ \A i \in 1..n : Column(v, "_id")[i] = b.rows[offset + i]["_id"]
        BY <1>6, <1>8 DEF Column
  <2>2. \A i, j \in 1..m : b.rows[i]["_id"] = b.rows[j]["_id"] => i = j
        BY <1>1, <1>4 DEF IsInjective, Column
  <2>3. \A i \in 1..n : offset + i \in 1..m
        BY <1>5
  <2>4. ASSUME NEW i \in 1..n, NEW j \in 1..n, Column(v, "_id")[i] = Column(v, "_id")[j] PROVE i = j
    <3> DEFINE x == offset + i
               y == offset + j
    <3>1. x \in 1..m /\ y \in 1..m
          BY <2>3
    <3>2. b.rows[x]["_id"] = b.rows[y]["_id"]
          BY <2>1, <2>4
    <3>3. x = y
      <4> HIDE DEF x, y
      <4>1. QED BY <2>2, <3>1, <3>2
    <3>4. QED BY <3>3
  <2>5. QED BY <2>1, <2>4 DEF IsInjective
<1>11. NodesBuilt(NodesOf(v))
      BY <1>9, <1>10 DEF NodesBuilt, NodesOf
<1>12. QED BY <1>3, <1>11

\* Rows that are gathered make a batch.
LEMMA GatheredBatch ==
    ASSUME NEW nodes, NodesBuilt(nodes), NEW rows \in Seq(Nat), GatherRows(nodes, rows).status = "ok"
    PROVE  Batch(GatherRows(nodes, rows).value)
<1> DEFINE b == nodes.data
           t == [i \in DOMAIN rows |-> b.rows[rows[i]]]
           v == [b EXCEPT !.rows = t]
<1>1. Batch(b)
      BY DEF NodesBuilt
<1>2. GatherRows(nodes, rows).value = v
      BY DEF GatherRows, Ok, Err
<1>3. DOMAIN t = 1..Len(rows) /\ Len(rows) \in Nat
      OBVIOUS
<1> HIDE DEF t
<1>4. v = [fields |-> b.fields, rows |-> t]
      BY <1>1 DEF Batch
<1>5. v.rows = t /\ v = [fields |-> v.fields, rows |-> v.rows]
      BY <1>4
<1> HIDE DEF v
<1>6. QED BY <1>2, <1>3, <1>5 DEF Batch

\* A frame with the columns that StructuralFeatures adds is built.
LEMMA FeaturesBuilt ==
    ASSUME NEW g, NodesBuilt(g.nodes), NEW t, StructuralFeatures(g, t).status = "ok"
    PROVE  NodesBuilt(StructuralFeatures(g, t).value)
<1> DEFINE d == g.nodes.data
           count(s) == Cardinality({p \in DOMAIN s : s[p].row \in AllowedRows(g, t)})
           values(x) == <<count(OutOf(g, x)), count(InTo(g, x)), count(OutOf(g, x)) + count(InTo(g, x))>>
           added == [i \in 1..3 |-> [name |-> DegreeColumns[i], type |-> "Int64", nullable |-> FALSE]]
           wide(row) == [c \in DOMAIN row \cup ToSet(DegreeColumns) |->
                           IF c \in DOMAIN row THEN row[c]
                           ELSE values(row["_id"])[CHOOSE i \in 1..3 : DegreeColumns[i] = c]]
           rows == [r \in DOMAIN d.rows |-> wide(d.rows[r])]
           f == d.fields \o added
           v == [fields |-> f, rows |-> rows]
<1>1. StructuralFeatures(g, t) =
          IF ToSet(DegreeColumns) \cap Names(d) # {} THEN Err("SchemaMismatch") ELSE NodesFrom(v)
      BY DEF StructuralFeatures
<1> HIDE DEF wide, added
<1>2. PICK m \in Nat : DOMAIN d.rows = 1..m
      BY DEF NodesBuilt, Batch
<1>3. DOMAIN rows = 1..m
      BY <1>2
<1> HIDE DEF rows, f
<1>4. v.rows = rows /\ v = [fields |-> v.fields, rows |-> v.rows]
      OBVIOUS
<1> HIDE DEF v
<1>5. Batch(v)
      BY <1>3, <1>4 DEF Batch
<1>6. StructuralFeatures(g, t) = NodesFrom(v)
      BY <1>1 DEF Err
<1>7. QED BY <1>5, <1>6, NodesFromBuilt

-----------------------------------------------------------------------------
(* Searches, round by round.                                                *)

\* What there is after no round and after one more.
LEMMA UpToIs ==
    ASSUME NEW kind, NEW base, NEW s, NEW m \in Nat, NEW h, UpTo(kind, base, s, m, h)
    PROVE  h[0] = base /\ \A k \in 1..m : h[k] = Added(kind, h[k - 1], s[k])
<1> DEFINE N(t, x) == Added(kind, t, x)
<1>1. h = [k \in 0..m |-> IF k = 0 THEN base ELSE N(h[k - 1], s[k])]
      BY DEF UpTo
<1> HIDE DEF N
<1>2. \A k \in 0..m : h[k] = IF k = 0 THEN base ELSE N(h[k - 1], s[k])
      BY <1>1
<1>3. h[0] = base /\ \A k \in 1..m : h[k] = N(h[k - 1], s[k])
      BY <1>2
<1>4. QED BY <1>3 DEF N

\* There is something after every round.
LEMMA RoundsExist ==
    ASSUME NEW kind, NEW base, NEW s, NEW m \in Nat
    PROVE  \E h : UpTo(kind, base, s, m, h)
BY FoldSteps

\* The rounds of WithinHops.
WithinKind(g, cfg, enter) == [fold |-> "within", g |-> g, cfg |-> cfg, enter |-> enter]

\* WithinHops is what there is after its last round.
LEMMA WithinRounds ==
    ASSUME NEW g, NEW roots, NEW cfg, cfg.hops \in Nat, NEW enter
    PROVE  \E h : UpTo(WithinKind(g, cfg, enter), roots, <<>>, cfg.hops, h) /\ WithinHops(g, roots, cfg, enter) = h[cfg.hops]
<1> DEFINE n    == cfg.hops
           N(t) == Adjoined(g, cfg, enter, t)
           W    == CHOOSE h : h = [k \in 0..n |-> IF k = 0 THEN roots ELSE N(h[k - 1])]
<1>1. WithinHops(g, roots, cfg, enter) = W[n]
      BY DEF WithinHops, Adjoined
<1>2. \A t, x : Added(WithinKind(g, cfg, enter), t, x) = N(t)
      BY DEF Added, WithinKind
<1> HIDE DEF N, n
<1>3. ASSUME NEW h
      PROVE  UpTo(WithinKind(g, cfg, enter), roots, <<>>, n, h)
             <=> h = [k \in 0..n |-> IF k = 0 THEN roots ELSE N(h[k - 1])]
      BY <1>2 DEF UpTo
<1>4. n \in Nat
      BY DEF n
<1>5. UpTo(WithinKind(g, cfg, enter), roots, <<>>, n, W)
      BY <1>3, <1>4, RoundsExist
<1> HIDE DEF W
<1>6. QED BY <1>1, <1>5 DEF n

\* The nodes that rows lead to.
LEMMA AdjacentAre ==
    ASSUME NEW g, NEW x, NEW cfg
    PROVE  \A y : y \in AdjacentIds(g, x, cfg) <=> Leads(EdgeRows(g), cfg.types, cfg.dir, x, y)
<1> DEFINE rows == EdgeRows(g)
           F(r) == r["_type"] \in cfg.types /\ cfg.dir # "in" /\ r["_src"] = x
           B(r) == r["_type"] \in cfg.types /\ cfg.dir # "out" /\ r["_dst"] = x
<1>1. AdjacentIds(g, x, cfg) = {r["_dst"] : r \in {r \in ToSet(rows) : F(r)}} \cup {r["_src"] : r \in {r \in ToSet(rows) : B(r)}}
      BY DEF AdjacentIds
<1>2. ToSet(rows) = {rows[i] : i \in DOMAIN rows}
      BY DEF ToSet
<1>3. \A y : Leads(rows, cfg.types, cfg.dir, x, y) <=>
             \E i \in DOMAIN rows : (F(rows[i]) /\ rows[i]["_dst"] = y) \/ (B(rows[i]) /\ rows[i]["_src"] = y)
      BY DEF Leads, RowLeads
<1> HIDE DEF rows, F, B
<1>4. \A y : y \in AdjacentIds(g, x, cfg) <=>
             \E i \in DOMAIN rows : (F(rows[i]) /\ rows[i]["_dst"] = y) \/ (B(rows[i]) /\ rows[i]["_src"] = y)
      BY <1>1, <1>2
<1>5. QED BY <1>3, <1>4 DEF rows

\* A round of WithinHops is one more edge.
LEMMA AdjoinedIs ==
    ASSUME NEW g, NEW cfg, NEW S
    PROVE  Adjoined(g, cfg, AllIds(g), S) = S \cup LedTo(g, cfg.types, cfg.dir, S)
<1>1. \A x, y : y \in AdjacentIds(g, x, cfg) <=> Leads(EdgeRows(g), cfg.types, cfg.dir, x, y)
      BY AdjacentAre
<1>2. AllIds(g) = AllIds(g)
      BY DEF AllIds
<1>3. (UNION {AdjacentIds(g, x, cfg) : x \in S}) \cap AllIds(g) = LedTo(g, cfg.types, cfg.dir, S)
      BY <1>1 DEF LedTo
<1>4. QED BY <1>2, <1>3 DEF Adjoined

\* What WithinHops finds is where paths of so many edges lead.
LEMMA WithinHopsIs ==
    ASSUME NEW g, IsFrame(g), NEW roots, NEW cfg, cfg.hops \in Nat
    PROVE  WithinHops(g, roots, cfg, AllIds(g)) = Within(g, cfg.types, cfg.dir, roots, cfg.hops)
<1> DEFINE n    == cfg.hops
           W(k) == Within(g, cfg.types, cfg.dir, roots, k)
           kind == WithinKind(g, cfg, AllIds(g))
<1>1. PICK h : UpTo(kind, roots, <<>>, n, h) /\ WithinHops(g, roots, cfg, AllIds(g)) = h[n]
      BY WithinRounds
<1>6. n \in Nat
      OBVIOUS
<1>2. h[0] = roots /\ \A k \in 1..n : h[k] = Added(kind, h[k - 1], <<>>[k])
  <2> DEFINE none == <<>>
  <2>1. UpTo(kind, roots, none, n, h)
        BY <1>1
  <2> HIDE DEF none, kind, n
  <2>2. h[0] = roots /\ \A k \in 1..n : h[k] = Added(kind, h[k - 1], none[k])
        BY ONLY <1>6, <2>1, UpToIs
  <2>3. QED BY <2>2 DEF none
<1>3. \A t, x : Added(kind, t, x) = t \cup LedTo(g, cfg.types, cfg.dir, t)
      BY AdjoinedIs DEF Added, WithinKind
<1>4. \A k \in 1..n : h[k] = h[k - 1] \cup LedTo(g, cfg.types, cfg.dir, h[k - 1])
      BY <1>2, <1>3
<1>5. W(0) = roots /\ \A k \in Nat : W(k + 1) = W(k) \cup LedTo(g, cfg.types, cfg.dir, W(k))
      BY WithinZero, WithinNext
<1> DEFINE T == {k \in Nat : k <= n => h[k] = W(k)}
<1> HIDE DEF W, n
<1>7. 0 \in T
      BY <1>2, <1>5
<1>8. ASSUME NEW k \in Nat, k \in T PROVE k + 1 \in T
  <2>1. CASE k + 1 <= n
    <3>1. k + 1 \in 1..n /\ k <= n /\ (k + 1) - 1 = k
          BY <1>6, <2>1
    <3>2. h[k] = W(k)
          BY <1>8, <3>1
    <3>3. h[k + 1] = h[k] \cup LedTo(g, cfg.types, cfg.dir, h[k])
          BY <1>4, <3>1
    <3>4. h[k + 1] = W(k + 1)
          BY <1>5, <3>2, <3>3
    <3>5. QED BY <3>4
  <2>2. CASE ~(k + 1 <= n)
        BY <2>2
  <2>3. QED BY <2>1, <2>2
<1>9. n \in T
  <2> HIDE DEF T
  <2>1. QED BY <1>6, <1>7, <1>8, NatSetInduction
<1>10. h[n] = W(n)
      BY <1>6, <1>9
<1>11. QED BY <1>1, <1>10 DEF W, n

\* Every row is of a type in the index.
LEMMA TypesKnown ==
    ASSUME NEW g, Built(g.edges)
    PROVE  \A r \in DOMAIN EdgeRows(g) : EdgeRows(g)[r]["_type"] \in DOMAIN g.edges.types
<1> DEFINE b == g.edges.data
<1>1. PICK m \in Nat : DOMAIN b.rows = 1..m /\ g.edges.types = TypeIndex(b)
      BY BuiltParts
<1>2. EdgeRows(g) = b.rows
      BY DEF EdgeRows
<1> HIDE DEF b
<1>3. \A r \in 1..m : b.rows[r]["_type"] \in DOMAIN TypeIndex(b)
      BY <1>1, TypesIndexed
<1>4. QED BY <1>1, <1>2, <1>3

\* A row has x in column c and y in column d.
LinksUp(rows, c, d, x, y) == \E r \in DOMAIN rows : rows[r][c] = x /\ rows[r][d] = y

\* The ends of what is listed.
LEMMA ListedEnds ==
    ASSUME NEW rows, NEW s, NEW c, NEW d, NEW x, NeighborsListed(rows, s, c, d, x)
    PROVE  IsList(To(s)) /\ \A y : y \in ToSet(To(s)) <=> LinksUp(rows, c, d, x, y)
<1>1. PICK k \in Nat : DOMAIN s = 1..k
      BY DEF NeighborsListed
<1>2. /\ \A p \in DOMAIN s : s[p].row \in DOMAIN rows /\ rows[s[p].row][c] = x /\ s[p].to = rows[s[p].row][d]
      /\ \A r \in DOMAIN rows : rows[r][c] = x => \E p \in DOMAIN s : s[p].row = r
      BY DEF NeighborsListed
<1> DEFINE t == To(s)
<1>3. DOMAIN t = 1..k /\ t = [p \in 1..k |-> t[p]] /\ \A p \in 1..k : t[p] = s[p].to
      BY <1>1 DEF To
<1> HIDE DEF t
<1>4. ToSet(t) = {t[p] : p \in 1..k}
      BY <1>3 DEF ToSet
<1>5. ASSUME NEW y \in ToSet(t) PROVE LinksUp(rows, c, d, x, y)
  <2>1. PICK p \in 1..k : y = t[p]
        BY <1>4
  <2>2. y = rows[s[p].row][d] /\ s[p].row \in DOMAIN rows /\ rows[s[p].row][c] = x
        BY <1>1, <1>2, <1>3, <2>1
  <2>3. QED BY <2>2 DEF LinksUp
<1>6. ASSUME NEW y, LinksUp(rows, c, d, x, y) PROVE y \in ToSet(t)
  <2>1. PICK r \in DOMAIN rows : rows[r][c] = x /\ rows[r][d] = y
        BY <1>6 DEF LinksUp
  <2>2. PICK p \in 1..k : s[p].row = r
        BY <1>1, <1>2, <2>1
  <2>3. t[p] = y
        BY <1>1, <1>2, <1>3, <2>1, <2>2
  <2>4. QED BY <1>4, <2>3
<1>7. IsList(t)
      BY <1>3 DEF IsList
<1>8. QED BY <1>5, <1>6, <1>7 DEF t

\* What is in one list after another.
LEMMA AfterAnother ==
    ASSUME NEW a, NEW b, IsList(a), IsList(b)
    PROVE  ToSet(a \o b) = ToSet(a) \cup ToSet(b)
<1>1. PICK m \in Nat : DOMAIN a = 1..m /\ a = [p \in 1..m |-> a[p]]
      BY DEF IsList
<1>2. PICK n \in Nat : DOMAIN b = 1..n /\ b = [p \in 1..n |-> b[p]]
      BY DEF IsList
<1> DEFINE U == ToSet(a) \cup ToSet(b)
           c == a \o b
<1>3. ToSet(a) = {a[p] : p \in 1..m} /\ ToSet(b) = {b[p] : p \in 1..n}
      BY <1>1, <1>2 DEF ToSet
<1>4. (\A p \in 1..m : a[p] \in U) /\ (\A p \in 1..n : b[p] \in U)
      BY <1>3
<1> HIDE DEF U
<1>5. a \in [1..m -> U] /\ b \in [1..n -> U]
      BY <1>1, <1>2, <1>4
<1>6. a \in Seq(U) /\ b \in Seq(U) /\ Len(a) = m /\ Len(b) = n
      BY <1>1, <1>2, <1>5
<1>7. DOMAIN c = 1..(m + n) /\ \A i \in 1..(m + n) : c[i] = IF i <= m THEN a[i] ELSE b[i - m]
      BY <1>6
<1> HIDE DEF c
<1>8. \A p \in 1..m : p \in 1..(m + n) /\ c[p] = a[p]
      BY <1>7
<1>9. ASSUME NEW p \in 1..n PROVE m + p \in 1..(m + n) /\ c[m + p] = b[p]
  <2> DEFINE i == m + p
  <2>1. i \in 1..(m + n) /\ ~(i <= m) /\ i - m = p
        OBVIOUS
  <2> HIDE DEF i
  <2>2. c[i] = b[p]
        BY <1>7, <2>1
  <2>3. QED BY <2>1, <2>2 DEF i
<1>10. ToSet(c) = {c[i] : i \in 1..(m + n)}
       BY <1>7 DEF ToSet
<1>11. ASSUME NEW y \in ToSet(c) PROVE y \in ToSet(a) \cup ToSet(b)
  <2>1. PICK i \in 1..(m + n) : y = c[i]
        BY <1>10
  <2>2. CASE i <= m
    <3>1. i \in 1..m /\ y = a[i]
          BY <1>7, <2>1, <2>2
    <3>2. QED BY <1>3, <3>1
  <2>3. CASE ~(i <= m)
    <3>1. i - m \in 1..n /\ y = b[i - m]
          BY <1>7, <2>1, <2>3
    <3>2. QED BY <1>3, <3>1
  <2>4. QED BY <2>2, <2>3
<1>12. ASSUME NEW y \in ToSet(a) PROVE y \in ToSet(c)
  <2>1. PICK p \in 1..m : y = a[p]
        BY <1>3
  <2>2. QED BY <1>8, <1>10, <2>1
<1>13. ASSUME NEW y \in ToSet(b) PROVE y \in ToSet(c)
  <2>1. PICK p \in 1..n : y = b[p]
        BY <1>3
  <2> DEFINE i == m + p
  <2>2. i \in 1..(m + n) /\ c[i] = y
        BY <1>9, <2>1
  <2> HIDE DEF i
  <2>3. QED BY <1>10, <2>2
<1>14. QED BY <1>11, <1>12, <1>13 DEF c

\* The neighbours of a node, in any direction.
NearOf(g, x) == ToSet(To(OutOf(g, x)) \o To(InTo(g, x)))

\* They are what rows of any type lead to.
LEMMA NearIs ==
    ASSUME NEW g, WellBuilt(g), NEW x
    PROVE  \A y : y \in NearOf(g, x) <=> Leads(EdgeRows(g), DOMAIN g.edges.types, "both", x, y)
<1> DEFINE rows == EdgeRows(g)
           out  == OutOf(g, x)
           in   == InTo(g, x)
<1>1. Built(g.edges)
      BY DEF WellBuilt
<1>2. /\ NeighborsListed(rows, out, "_src", "_dst", x)
      /\ NeighborsListed(rows, in, "_dst", "_src", x)
      BY <1>1, NeighborsAre
<1>3. \A r \in DOMAIN rows : rows[r]["_type"] \in DOMAIN g.edges.types
      BY <1>1, TypesKnown
<1> HIDE DEF rows, out, in
<1>4. IsList(To(out)) /\ \A y : y \in ToSet(To(out)) <=> LinksUp(rows, "_src", "_dst", x, y)
      BY <1>2, ListedEnds
<1>5. IsList(To(in)) /\ \A y : y \in ToSet(To(in)) <=> LinksUp(rows, "_dst", "_src", x, y)
      BY <1>2, ListedEnds
<1>6. NearOf(g, x) = ToSet(To(out)) \cup ToSet(To(in))
      BY <1>4, <1>5, AfterAnother DEF NearOf, out, in
<1>7. \A y : y \in NearOf(g, x) <=> LinksUp(rows, "_src", "_dst", x, y) \/ LinksUp(rows, "_dst", "_src", x, y)
      BY <1>4, <1>5, <1>6
<1>8. \A y : Leads(rows, DOMAIN g.edges.types, "both", x, y)
             <=> LinksUp(rows, "_src", "_dst", x, y) \/ LinksUp(rows, "_dst", "_src", x, y)
      BY <1>3 DEF Leads, RowLeads, LinksUp
<1>9. QED BY <1>7, <1>8 DEF rows

\* So the neighbours of some nodes are what such rows lead to from these.
LEMMA AroundIs ==
    ASSUME NEW g, WellBuilt(g), NEW S
    PROVE  Around(g, S) = LedTo(g, DOMAIN g.edges.types, "both", S)
<1> DEFINE L(x, y) == Leads(EdgeRows(g), DOMAIN g.edges.types, "both", x, y)
<1>1. Around(g, S) = UNION {NearOf(g, x) : x \in S}
      BY DEF Around, NearOf
<1>2. \A x, y : y \in NearOf(g, x) <=> L(x, y)
      BY NearIs
<1>3. \A x, y : L(x, y) => y \in AllIds(g)
      BY WellBuiltFrame, LeadsToNodes
<1>4. LedTo(g, DOMAIN g.edges.types, "both", S) = {y \in AllIds(g) : \E x \in S : L(x, y)}
      BY DEF LedTo
<1> HIDE DEF L
<1>5. QED BY <1>1, <1>2, <1>3, <1>4

\* The rounds of KHopSubgraph.
AroundKind(g) == [fold |-> "around", g |-> g]

\* So far does KHopSubgraph go.
LEMMA KHopRounds ==
    ASSUME NEW g, NEW root, HasNode(g.nodes, root), NEW n \in Nat
    PROVE  \E h : UpTo(AroundKind(g), {root}, <<>>, n, h) /\ KHopSubgraph(g, root, n) = Subgraph(g, h[n])
<1> DEFINE N(t) == t \cup Around(g, t)
           W    == CHOOSE h : h = [k \in 0..n |-> IF k = 0 THEN {root} ELSE N(h[k - 1])]
<1>1. KHopSubgraph(g, root, n) = Subgraph(g, W[n])
      BY DEF KHopSubgraph, Around
<1>2. \A t, x : Added(AroundKind(g), t, x) = N(t)
      BY DEF Added, AroundKind
<1> HIDE DEF N
<1>3. ASSUME NEW h
      PROVE  UpTo(AroundKind(g), {root}, <<>>, n, h)
             <=> h = [k \in 0..n |-> IF k = 0 THEN {root} ELSE N(h[k - 1])]
      BY <1>2 DEF UpTo
<1>4. UpTo(AroundKind(g), {root}, <<>>, n, W)
      BY <1>3, RoundsExist
<1> HIDE DEF W
<1>5. QED BY <1>1, <1>4

\* k_hop_subgraph is the subgraph of the nodes so many edges away.
LEMMA KHopIs ==
    ASSUME NEW g, WellBuilt(g), NEW root, HasNode(g.nodes, root), NEW n \in Nat
    PROVE  KHopSubgraph(g, root, n) = Subgraph(g, Within(g, DOMAIN g.edges.types, "both", {root}, n))
<1> DEFINE W(k) == Within(g, DOMAIN g.edges.types, "both", {root}, k)
           L(S) == LedTo(g, DOMAIN g.edges.types, "both", S)
           kind == AroundKind(g)
<1>1. PICK h : UpTo(kind, {root}, <<>>, n, h) /\ KHopSubgraph(g, root, n) = Subgraph(g, h[n])
      BY KHopRounds
<1>2. h[0] = {root} /\ \A k \in 1..n : h[k] = Added(kind, h[k - 1], <<>>[k])
  <2> DEFINE none == <<>>
             base == {root}
  <2>1. UpTo(kind, base, none, n, h) /\ n \in Nat
        BY <1>1
  <2> HIDE DEF none, kind, base
  <2>2. h[0] = base /\ \A k \in 1..n : h[k] = Added(kind, h[k - 1], none[k])
        BY ONLY <2>1, UpToIs
  <2>3. QED BY <2>2 DEF none, base
<1>3. \A t, x : Added(kind, t, x) = t \cup L(t)
      BY AroundIs DEF Added, AroundKind
<1>4. \A k \in 1..n : h[k] = h[k - 1] \cup L(h[k - 1])
      BY <1>2, <1>3
<1>5. W(0) = {root} /\ \A k \in Nat : W(k + 1) = W(k) \cup L(W(k))
      BY WithinZero, WithinNext, WellBuiltFrame
<1> DEFINE T == {k \in Nat : k <= n => h[k] = W(k)}
<1> HIDE DEF W, L
<1>6. 0 \in T
      BY <1>2, <1>5
<1>7. ASSUME NEW k \in Nat, k \in T PROVE k + 1 \in T
  <2>1. CASE k + 1 <= n
    <3>1. k + 1 \in 1..n /\ k <= n /\ (k + 1) - 1 = k
          BY <2>1
    <3>2. h[k] = W(k)
          BY <1>7, <3>1
    <3>3. h[k + 1] = h[k] \cup L(h[k])
          BY <1>4, <3>1
    <3>4. h[k + 1] = W(k + 1)
          BY <1>5, <3>2, <3>3
    <3>5. QED BY <3>4
  <2>2. CASE ~(k + 1 <= n)
        BY <2>2
  <2>3. QED BY <2>1, <2>2
<1>8. n \in T
  <2> HIDE DEF T
  <2>1. QED BY <1>6, <1>7, NatSetInduction
<1>9. h[n] = W(n)
      BY <1>8
<1>10. QED BY <1>1, <1>9 DEF W

-----------------------------------------------------------------------------
(* Connected components.                                                    *)

\* The nodes that paths of any edges, in any direction, lead to.
Beside(g, S) == LedTo(g, DOMAIN g.edges.types, "both", S)
Reached(g, x, k) == Within(g, DOMAIN g.edges.types, "both", {x}, k)
Component(g, x) == Reached(g, x, Len(IdsOf(g)))

\* Round by round.
LEMMA RoundsGrow ==
    ASSUME NEW g, WellBuilt(g), NEW x
    PROVE  /\ Reached(g, x, 0) = {x}
           /\ \A k \in Nat : Reached(g, x, k + 1) = Reached(g, x, k) \cup Beside(g, Reached(g, x, k))
           /\ \A k \in Nat : Reached(g, x, k) \subseteq AllIds(g) \cup {x}
           /\ \A S, T : Beside(g, S \cup T) = Beside(g, S) \cup Beside(g, T)
           /\ \A S : Beside(g, S) \subseteq AllIds(g)
           /\ \A S : Around(g, S) = Beside(g, S)
<1>1. IsFrame(g)
      BY WellBuiltFrame
<1>2. Reached(g, x, 0) = {x}
      BY WithinZero DEF Reached
<1>3. \A k \in Nat : Reached(g, x, k + 1) = Reached(g, x, k) \cup Beside(g, Reached(g, x, k))
      BY <1>1, WithinNext DEF Reached, Beside
<1>4. AllIds(g) = AllIds(g)
      BY DEF AllIds
<1>5. \A k \in Nat : Reached(g, x, k) \subseteq AllIds(g) \cup {x}
      BY <1>4 DEF Reached, Within
<1>6. \A S, T : Beside(g, S \cup T) = Beside(g, S) \cup Beside(g, T)
      BY DEF Beside, LedTo
<1>7. \A S : Beside(g, S) \subseteq AllIds(g)
      BY <1>4 DEF Beside, LedTo
<1>8. \A S : Around(g, S) = Beside(g, S)
      BY AroundIs DEF Beside
<1>9. QED BY <1>2, <1>3, <1>5, <1>6, <1>7, <1>8

\* The rounds of Flood.
FloodKind(g) == [fold |-> "flood", g |-> g]

\* So far does Flood go.
LEMMA FloodRounds ==
    ASSUME NEW g, WellBuilt(g), NEW x
    PROVE  \E h : /\ UpTo(FloodKind(g), [found |-> {x}, frontier |-> {x}], <<>>, Len(IdsOf(g)), h)
                  /\ Flood(g, x) = h[Len(IdsOf(g))].found
<1> DEFINE n    == Len(IdsOf(g))
           base == [found |-> {x}, frontier |-> {x}]
           N(t) == Flooded(g, t)
           W    == CHOOSE h : h = [k \in 0..n |-> IF k = 0 THEN base ELSE N(h[k - 1])]
<1>1. Flood(g, x) = W[n].found
      BY DEF Flood, Flooded, Around
<1>2. \A t, y : Added(FloodKind(g), t, y) = N(t)
      BY DEF Added, FloodKind
<1>3. n \in Nat
      BY WellBuiltFrame, IdsFinite
<1> HIDE DEF N, n, base
<1>4. ASSUME NEW h
      PROVE  UpTo(FloodKind(g), base, <<>>, n, h)
             <=> h = [k \in 0..n |-> IF k = 0 THEN base ELSE N(h[k - 1])]
      BY <1>2 DEF UpTo
<1>5. UpTo(FloodKind(g), base, <<>>, n, W)
      BY <1>3, <1>4, RoundsExist
<1> HIDE DEF W
<1>6. QED BY <1>1, <1>5 DEF n, base

\* Flood finds the component.
LEMMA FloodIs ==
    ASSUME NEW g, WellBuilt(g), NEW x
    PROVE  Flood(g, x) = Component(g, x)
<1> DEFINE n    == Len(IdsOf(g))
           base == [found |-> {x}, frontier |-> {x}]
           kind == FloodKind(g)
           W(k) == Reached(g, x, k)
           L(S) == Beside(g, S)
<1>1. n \in Nat
      BY WellBuiltFrame, IdsFinite
<1>2. PICK h : UpTo(kind, base, <<>>, n, h) /\ Flood(g, x) = h[n].found
      BY FloodRounds
<1>3. h[0] = base /\ \A k \in 1..n : h[k] = Added(kind, h[k - 1], <<>>[k])
  <2> DEFINE none == <<>>
  <2>1. UpTo(kind, base, none, n, h) /\ n \in Nat
        BY <1>1, <1>2
  <2> HIDE DEF none, kind, base, n
  <2>2. h[0] = base /\ \A k \in 1..n : h[k] = Added(kind, h[k - 1], none[k])
        BY ONLY <2>1, UpToIs
  <2>3. QED BY <2>2 DEF none
<1>4. /\ W(0) = {x} /\ \A k \in Nat : W(k + 1) = W(k) \cup L(W(k))
      /\ \A S, T : L(S \cup T) = L(S) \cup L(T)
      /\ \A S : Around(g, S) = L(S)
  <2> HIDE DEF n, base, kind
  <2>1. WellBuilt(g)
        OBVIOUS
  <2>2. W(0) = {x} /\ \A k \in Nat : W(k + 1) = W(k) \cup L(W(k))
        BY ONLY <2>1, RoundsGrow
  <2>3. \A S, T : L(S \cup T) = L(S) \cup L(T)
        BY ONLY <2>1, RoundsGrow
  <2>4. \A S : Around(g, S) = L(S)
        BY ONLY <2>1, RoundsGrow
  <2>5. QED BY <2>2, <2>3, <2>4
<1>5. \A t, y : Added(kind, t, y) = [found |-> t.found \cup L(t.frontier), frontier |-> L(t.frontier) \ t.found]
      BY <1>4 DEF Added, FloodKind, Flooded
<1>6. \A k \in 1..n : h[k] = [found |-> h[k - 1].found \cup L(h[k - 1].frontier),
                              frontier |-> L(h[k - 1].frontier) \ h[k - 1].found]
      BY <1>3, <1>5
<1> HIDE DEF W, L, kind
<1> DEFINE I(k) == /\ h[k].found = W(k) /\ h[k].frontier \subseteq W(k)
                   /\ L(W(k) \ h[k].frontier) \subseteq W(k)
           T == {k \in Nat : k <= n => I(k)}
<1>7. 0 \in T
  <2>1. h[0].found = {x} /\ h[0].frontier = {x}
        BY <1>3
  <2>2. L({}) = {}
        BY DEF L, Beside, LedTo
  <2>3. {x} \ {x} = {}
        OBVIOUS
  <2>4. I(0)
        BY <1>4, <2>1, <2>2, <2>3
  <2>5. QED BY <2>4
<1> HIDE DEF n
<1>8. ASSUME NEW k \in Nat, k \in T PROVE k + 1 \in T
  <2>1. CASE k + 1 <= n
    <3>1. k + 1 \in 1..n /\ k <= n /\ (k + 1) - 1 = k
          BY <1>1, <2>1
    <3> DEFINE s == h[k].frontier
               u == h[k + 1].frontier
    <3>2. h[k].found = W(k) /\ s \subseteq W(k) /\ L(W(k) \ s) \subseteq W(k)
          BY <1>8, <3>1
    <3>12. h[k + 1] = [found |-> h[k].found \cup L(s), frontier |-> L(s) \ h[k].found]
          BY <1>6, <3>1
    <3>13. h[k + 1].found = h[k].found \cup L(s) /\ u = L(s) \ h[k].found
          BY <3>12
    <3>3. h[k + 1].found = W(k) \cup L(s) /\ u = L(s) \ W(k)
          BY <3>2, <3>13
    <3>4. W(k + 1) = W(k) \cup L(W(k))
          BY <1>4
    <3> HIDE DEF s, u
    <3>5. W(k) = s \cup (W(k) \ s)
          BY <3>2
    <3>6. L(W(k)) = L(s) \cup L(W(k) \ s)
          BY <1>4, <3>5
    <3>7. W(k + 1) = W(k) \cup L(s)
          BY <3>2, <3>4, <3>6
    <3>8. u \subseteq W(k + 1) /\ W(k + 1) \ u = W(k)
          BY <3>3, <3>7
    <3>9. L(W(k + 1) \ u) \subseteq W(k + 1)
          BY <3>4, <3>8
    <3>10. I(k + 1)
          BY <3>3, <3>7, <3>8, <3>9 DEF u
    <3> HIDE DEF I
    <3>11. QED BY <3>10
  <2>2. CASE ~(k + 1 <= n)
        BY <2>2
  <2>3. QED BY <2>1, <2>2
<1>9. n \in T
  <2> HIDE DEF T
  <2>1. QED BY <1>1, <1>7, <1>8, NatSetInduction
<1>10. h[n].found = W(n)
      BY <1>1, <1>9
<1>11. QED BY <1>2, <1>10 DEF W, n, Component

\* No row leads out of a component.
LEMMA ComponentClosed ==
    ASSUME NEW g, WellBuilt(g), NEW x \in AllIds(g)
    PROVE  /\ x \in Component(g, x) /\ Component(g, x) \subseteq AllIds(g)
           /\ Beside(g, Component(g, x)) \subseteq Component(g, x)
<1> DEFINE n    == Len(IdsOf(g))
           W(k) == Reached(g, x, k)
           L(S) == Beside(g, S)
           V    == AllIds(g)
<1>1. IsFiniteSet(V) /\ Cardinality(V) <= n /\ n \in Nat
  <2>1. IsFrame(g) /\ AllIds(g) = V
        BY WellBuiltFrame DEF AllIds
  <2>2. n \in Nat /\ IsFiniteSet(V)
        BY <2>1, IdsFinite
  <2>3. Cardinality(V) = n
        BY NodesIndexed
  <2>4. QED BY <2>2, <2>3
<1>2. /\ W(0) = {x} /\ \A k \in Nat : W(k + 1) = W(k) \cup L(W(k))
      /\ \A k \in Nat : W(k) \subseteq V \cup {x}
      BY RoundsGrow
<1> HIDE DEF W, L, V
<1>3. \A k \in Nat : W(k) \subseteq V /\ IsFiniteSet(W(k)) /\ Cardinality(W(k)) \in Nat
  <2>1. ASSUME NEW k \in Nat PROVE W(k) \subseteq V /\ IsFiniteSet(W(k)) /\ Cardinality(W(k)) \in Nat
    <3>1. W(k) \subseteq V
          BY <1>2 DEF V
    <3>2. IsFiniteSet(W(k))
          BY <1>1, <3>1, FS_Subset
    <3>3. QED BY <3>1, <3>2, FS_CardinalityType
  <2>2. QED BY <2>1
<1> DEFINE T == {k \in Nat : L(W(k)) \subseteq W(k) \/ Cardinality(W(k)) >= k + 1}
           A == {k \in Nat : x \in W(k)}
<1>4. 0 \in T
  <2>1. Cardinality({x}) = 1
        BY FS_Singleton
  <2>2. Cardinality(W(0)) >= 0 + 1
        BY <1>2, <2>1
  <2>3. QED BY <2>2
<1>5. ASSUME NEW k \in Nat, k \in T PROVE k + 1 \in T
  <2>1. CASE L(W(k)) \subseteq W(k)
    <3>1. W(k + 1) = W(k)
          BY <1>2, <2>1
    <3>2. QED BY <2>1, <3>1
  <2>2. CASE ~(L(W(k)) \subseteq W(k))
    <3>1. W(k) # W(k + 1) /\ W(k) \in SUBSET W(k + 1)
          BY <1>2, <2>2
    <3>2. IsFiniteSet(W(k + 1)) /\ Cardinality(W(k)) \in Nat /\ Cardinality(W(k + 1)) \in Nat
          BY <1>3
    <3>3. Cardinality(W(k)) <= Cardinality(W(k + 1)) /\ Cardinality(W(k)) # Cardinality(W(k + 1))
          BY <3>1, <3>2, FS_Subset
    <3>4. Cardinality(W(k)) >= k + 1
          BY <1>5, <2>2
    <3> DEFINE a == Cardinality(W(k))
               c == Cardinality(W(k + 1))
    <3>5. a \in Nat /\ c \in Nat /\ a <= c /\ a # c /\ a >= k + 1
          BY <3>2, <3>3, <3>4
    <3> HIDE DEF a, c
    <3>6. c >= (k + 1) + 1
          BY <3>5
    <3>7. QED BY <3>6 DEF c
  <2>3. QED BY <2>1, <2>2
<1>6. n \in T
  <2> HIDE DEF T, n
  <2>1. QED BY <1>1, <1>4, <1>5, NatSetInduction
<1>7. n \in A
  <2>1. 0 \in A
        BY <1>2
  <2>2. \A k \in Nat : k \in A => k + 1 \in A
        BY <1>2
  <2> HIDE DEF A, n
  <2>3. QED BY <1>1, <2>1, <2>2, NatSetInduction
<1>8. ~(Cardinality(W(n)) >= n + 1)
  <2>1. W(n) \subseteq V /\ Cardinality(W(n)) \in Nat
        BY <1>1, <1>3
  <2>2. Cardinality(W(n)) <= Cardinality(V)
        BY <1>1, <2>1, FS_Subset
  <2>3. Cardinality(V) \in Nat
        BY <1>1, FS_CardinalityType
  <2> HIDE DEF n
  <2>4. QED BY <1>1, <2>1, <2>2, <2>3
<1>9. L(W(n)) \subseteq W(n) /\ x \in W(n) /\ W(n) \subseteq V
      BY <1>1, <1>3, <1>6, <1>7, <1>8
<1>10. QED BY <1>9 DEF W, L, V, Component

\* A component that a set which no row leads out of meets is in it.
LEMMA ComponentWithin ==
    ASSUME NEW g, WellBuilt(g), NEW y, NEW S, y \in S, Beside(g, S) \subseteq S
    PROVE  Component(g, y) \subseteq S
<1> DEFINE n    == Len(IdsOf(g))
           W(k) == Reached(g, y, k)
           T    == {k \in Nat : W(k) \subseteq S}
<1>1. n \in Nat
      BY WellBuiltFrame, IdsFinite
<1>2. /\ W(0) = {y} /\ \A k \in Nat : W(k + 1) = W(k) \cup Beside(g, W(k))
      /\ \A U, V : Beside(g, U \cup V) = Beside(g, U) \cup Beside(g, V)
      BY RoundsGrow
<1> HIDE DEF W, n
<1>3. 0 \in T
      BY <1>2
<1>4. ASSUME NEW k \in Nat, k \in T PROVE k + 1 \in T
  <2>1. W(k) \subseteq S
        BY <1>4
  <2>2. S = W(k) \cup S
        BY <2>1
  <2>3. Beside(g, S) = Beside(g, W(k)) \cup Beside(g, S)
        BY <1>2, <2>2
  <2>4. W(k + 1) \subseteq S
        BY <1>2, <2>1, <2>3
  <2>5. QED BY <2>4
<1>5. n \in T
  <2> HIDE DEF T
  <2>1. QED BY <1>1, <1>3, <1>4, NatSetInduction
<1>6. QED BY <1>5 DEF Component, W, n

\* Two nodes are in one component when one is in that of the other.
LEMMA ComponentsAgree ==
    ASSUME NEW g, WellBuilt(g), NEW x \in AllIds(g), NEW y \in Component(g, x)
    PROVE  Component(g, y) = Component(g, x)
<1> DEFINE C(z) == Component(g, z)
           V    == AllIds(g)
           L(u, v) == Leads(EdgeRows(g), DOMAIN g.edges.types, "both", u, v)
<1>1. \A z \in V : z \in C(z) /\ C(z) \subseteq V /\ Beside(g, C(z)) \subseteq C(z)
      BY ComponentClosed
<1>2. \A z \in V : \A w \in C(z) : C(w) \subseteq C(z)
      BY <1>1, ComponentWithin
<1>3. \A S : \A z : z \in Beside(g, S) <=> z \in V /\ \E w \in S : L(w, z)
      BY DEF Beside, LedTo, AllIds
<1>4. \A u, v : L(u, v) => L(v, u)
      BY DEF Leads, RowLeads
<1> HIDE DEF C, L, V
<1> DEFINE S == {z \in C(x) : x \in C(z)}
<1>5. x \in V
      BY DEF V
<1>6. x \in S
      BY <1>1, <1>5
<1>7. Beside(g, S) \subseteq S
  <2>1. ASSUME NEW z \in Beside(g, S) PROVE z \in S
    <3>1. PICK w \in S : L(w, z) /\ z \in V
          BY <1>3, <2>1
    <3>2. z \in C(x)
      <4>1. w \in C(x)
            BY <3>1
      <4>2. z \in Beside(g, C(x))
            BY <1>3, <3>1, <4>1
      <4>3. QED BY <1>1, <1>5, <4>2
    <3>3. w \in C(z)
      <4>1. z \in C(z) /\ w \in V /\ L(z, w)
            BY <1>1, <1>4, <1>5, <3>1
      <4>2. w \in Beside(g, C(z))
            BY <1>3, <4>1
      <4>3. QED BY <1>1, <3>1, <4>2
    <3>4. C(w) \subseteq C(z)
          BY <1>2, <3>1, <3>3
    <3>5. x \in C(z)
          BY <3>1, <3>4
    <3>6. QED BY <3>2, <3>5
  <2>2. QED BY <2>1
<1>8. C(x) \subseteq S
  <2> HIDE DEF S
  <2>1. QED BY <1>6, <1>7, ComponentWithin DEF C
<1>9. y \in C(x) /\ y \in V /\ x \in C(y)
      BY <1>1, <1>5, <1>8 DEF C
<1>10. C(y) \subseteq C(x) /\ C(x) \subseteq C(y)
      BY <1>2, <1>5, <1>9
<1>11. QED BY <1>10 DEF C

\* So many rows have been numbered: what has a number has that of its component, each
\* number below the next is used, and the rows passed over have theirs.
Numbering(g, acc, k) ==
    /\ acc = [next |-> acc.next, of |-> acc.of] /\ acc.next \in Nat
    /\ DOMAIN acc.of = AllIds(g)
    /\ \A x \in AllIds(g) : acc.of[x] = Null \/ acc.of[x] \in 0..(acc.next - 1)
    /\ \A x, y \in AllIds(g) : acc.of[x] # Null => (acc.of[y] = acc.of[x] <=> Component(g, y) = Component(g, x))
    /\ \A i \in 0..(acc.next - 1) : \E x \in AllIds(g) : acc.of[x] = i
    /\ \A r \in 1..k : acc.of[IdsOf(g)[r]] # Null

\* One row more.
LEMMA NumberNext ==
    ASSUME NEW g, WellBuilt(g), Null \notin Nat, NEW k \in Nat, NEW acc, Numbering(g, acc, k),
           \A r \in 1..(k + 1) : IdsOf(g)[r] \in AllIds(g)
    PROVE  Numbering(g, Numbered(g, acc, k + 1), k + 1)
<1> DEFINE V    == AllIds(g)
           C(x) == Component(g, x)
           z    == IdsOf(g)[k + 1]
           new  == Numbered(g, acc, k + 1)
           n    == acc.next
           of   == [x \in DOMAIN acc.of |-> IF x \in C(z) THEN n ELSE acc.of[x]]
<1>1. new = IF acc.of[z] # Null THEN acc ELSE [next |-> n + 1, of |-> of]
      BY FloodIs DEF Numbered
<1>2. /\ acc = [next |-> acc.next, of |-> acc.of] /\ n \in Nat
      /\ DOMAIN acc.of = V
      /\ \A x \in V : acc.of[x] = Null \/ acc.of[x] \in 0..(n - 1)
      /\ \A x, y \in V : acc.of[x] # Null => (acc.of[y] = acc.of[x] <=> C(y) = C(x))
      /\ \A i \in 0..(n - 1) : \E x \in V : acc.of[x] = i
      /\ \A r \in 1..k : acc.of[IdsOf(g)[r]] # Null
      BY DEF Numbering
<1>3. \A r \in 1..(k + 1) : r \in 1..k \/ r = k + 1
      OBVIOUS
<1>7. k + 1 \in 1..(k + 1)
      OBVIOUS
<1>8. z \in V /\ \A r \in 1..(k + 1) : IdsOf(g)[r] \in V
      BY <1>7
<1>4. CASE acc.of[z] # Null
  <2>1. new = acc
        BY <1>1, <1>4
  <2>2. \A r \in 1..(k + 1) : acc.of[IdsOf(g)[r]] # Null
        BY <1>2, <1>3, <1>4
  <2>3. Numbering(g, acc, k + 1)
        BY <1>2, <2>2 DEF Numbering
  <2>4. QED BY <2>1, <2>3
<1>5. CASE acc.of[z] = Null
  <2>1. new.next = n + 1 /\ new.of = of /\ new = [next |-> new.next, of |-> new.of]
        BY <1>1, <1>5
  <2>2. z \in V /\ \A x \in V : x \in C(x) /\ C(x) \subseteq V
        BY <1>8, ComponentClosed
  <2>3. \A x \in V : \A y \in C(x) : C(y) = C(x)
        BY ComponentsAgree
  <2>4. \A x \in V : x \in C(z) <=> C(x) = C(z)
        BY <2>2, <2>3
  <2> HIDE DEF C, V, z
  <2>5. DOMAIN of = V /\ \A x \in V : of[x] = IF C(x) = C(z) THEN n ELSE acc.of[x]
        BY <1>2, <2>4
  <2> HIDE DEF of, n, new
  <2>6. \A x \in V : acc.of[x] # Null => C(x) # C(z) /\ of[x] = acc.of[x] /\ acc.of[x] \in 0..(n - 1)
        BY <1>2, <1>5, <2>2, <2>5
  <2>7. /\ new.next \in Nat /\ n \in 0..(new.next - 1) /\ n # Null
        /\ \A i \in 0..(n - 1) : i \in 0..(new.next - 1) /\ i # n /\ i # Null
        /\ \A i \in 0..(new.next - 1) : i = n \/ i \in 0..(n - 1)
        BY <1>2, <2>1
  <2>8. \A x \in V : of[x] = Null \/ of[x] \in 0..(new.next - 1)
        BY <1>2, <2>5, <2>7
  <2>9. ASSUME NEW x \in V, NEW y \in V, of[x] # Null PROVE of[y] = of[x] <=> C(y) = C(x)
    <3>1. CASE C(x) = C(z)
      <4>1. of[x] = n
            BY <2>5, <3>1
      <4>2. C(y) # C(z) => of[y] # n
            BY <1>2, <2>5, <2>7
      <4>3. QED BY <2>5, <3>1, <4>1, <4>2
    <3>2. CASE C(x) # C(z)
      <4>1. of[x] = acc.of[x] /\ acc.of[x] # Null
            BY <2>5, <2>9, <3>2
      <4>2. acc.of[y] = acc.of[x] <=> C(y) = C(x)
            BY <1>2, <4>1
      <4>3. CASE C(y) = C(z)
        <5>1. of[y] = n
              BY <2>5, <4>3
        <5>2. of[x] # n
              BY <2>6, <2>7, <4>1
        <5>3. QED BY <3>2, <4>3, <5>1, <5>2
      <4>4. CASE C(y) # C(z)
            BY <2>5, <4>1, <4>2, <4>4
      <4>5. QED BY <4>3, <4>4
    <3>3. QED BY <3>1, <3>2
  <2>10. ASSUME NEW i \in 0..(new.next - 1) PROVE \E x \in V : of[x] = i
    <3>1. CASE i = n
          BY <2>2, <2>5, <3>1
    <3>2. CASE i \in 0..(n - 1)
      <4>1. PICK x \in V : acc.of[x] = i
            BY <1>2, <3>2
      <4>2. QED BY <2>6, <2>7, <3>2, <4>1
    <3>3. QED BY <2>7, <3>1, <3>2
  <2>11. ASSUME NEW r \in 1..(k + 1) PROVE of[IdsOf(g)[r]] # Null
    <3>1. CASE r = k + 1
      <4>1. IdsOf(g)[r] = z
            BY <3>1 DEF z
      <4>2. of[z] = n
            BY <2>2, <2>5
      <4>3. QED BY <2>7, <4>1, <4>2
    <3>2. CASE r \in 1..k
      <4>1. acc.of[IdsOf(g)[r]] # Null
            BY <1>2, <3>2
      <4>2. IdsOf(g)[r] \in V
            BY <1>8
      <4>3. QED BY <2>6, <4>1, <4>2
    <3>3. QED BY <1>3, <3>1, <3>2
  <2>12. Numbering(g, new, k + 1)
        BY <2>1, <2>5, <2>7, <2>8, <2>9, <2>10, <2>11 DEF Numbering, C, V
  <2>13. QED BY <2>12 DEF new
<1>6. QED BY <1>4, <1>5

NumberKind(g) == [fold |-> "number", g |-> g]
Unnumbered(g) == [next |-> 0, of |-> [x \in ToSet(IdsOf(g)) |-> Null]]
RowNumbers(g)     == [row \in DOMAIN IdsOf(g) |-> row]

\* The fold of ComponentIds.
LEMMA ComponentsFold ==
    ASSUME NEW g, NEW m \in Nat, DOMAIN IdsOf(g) = 1..m
    PROVE  \E h : UpTo(NumberKind(g), Unnumbered(g), RowNumbers(g), m, h) /\ ComponentIds(g) = h[m]
<1> DEFINE N(t, row) == Numbered(g, t, row)
           base == Unnumbered(g)
           s    == RowNumbers(g)
           W == CHOOSE f : f = [T \in SUBSET (1..m) |-> IF T = {} THEN base ELSE N(f[T \ {Max(T)}], s[Max(T)])]
           total == ComponentIds(g)
<1>1. total = W[1..m]
  <2>1. DOMAIN s = 1..m
        BY DEF RowNumbers
  <2>2. QED BY <2>1 DEF ComponentIds, FoldLeft, MapThenFoldSet, Numbered, Unnumbered, RowNumbers
<1>2. \A t, x : Added(NumberKind(g), t, x) = N(t, x)
      BY DEF Added, NumberKind
<1> HIDE DEF N
<1>3. ASSUME NEW f
      PROVE  OfParts(NumberKind(g), base, s, m, f)
             <=> f = [T \in SUBSET (1..m) |-> IF T = {} THEN base ELSE N(f[T \ {Max(T)}], s[Max(T)])]
      BY <1>2 DEF OfParts
<1>4. OfParts(NumberKind(g), base, s, m, W)
      BY <1>3, FoldSteps
<1> HIDE DEF W, total, base, s
<1>5. \E h : UpTo(NumberKind(g), base, s, m, h) /\ total = h[m]
      BY <1>1, <1>4, FoldSteps
<1>6. QED BY <1>5 DEF total, base, s

\* Every row is numbered in the end.
LEMMA ComponentsNumbered ==
    ASSUME NEW g, WellBuilt(g), Null \notin Nat
    PROVE  Numbering(g, ComponentIds(g), Len(IdsOf(g))) /\ Len(IdsOf(g)) \in Nat
<1> DEFINE n    == Len(IdsOf(g))
           kind == NumberKind(g)
           base == Unnumbered(g)
           s    == RowNumbers(g)
<1>1. n \in Nat /\ DOMAIN IdsOf(g) = 1..n
      BY WellBuiltFrame, IdsFinite, IndexOfIds
<1>2. PICK h : UpTo(kind, base, s, n, h) /\ ComponentIds(g) = h[n]
      BY <1>1, ComponentsFold
<1>3. h[0] = base /\ \A k \in 1..n : h[k] = Added(kind, h[k - 1], s[k])
  <2>1. UpTo(kind, base, s, n, h) /\ n \in Nat
        BY <1>1, <1>2
  <2> HIDE DEF kind, base, s, n
  <2>2. QED BY ONLY <2>1, UpToIs
<1>4. \A k \in 1..n : h[k] = Numbered(g, h[k - 1], k)
      BY <1>1, <1>3 DEF Added, NumberKind, RowNumbers
<1>5. \A r \in 1..n : IdsOf(g)[r] \in AllIds(g)
      BY <1>1 DEF AllIds, ToSet
<1> DEFINE T == {k \in Nat : k <= n => Numbering(g, h[k], k)}
<1>6. 0 \in T
  <2>1. base.next = 0 /\ base.of = [x \in AllIds(g) |-> Null] /\ base = [next |-> base.next, of |-> base.of]
        BY DEF Unnumbered, AllIds
  <2>2. DOMAIN base.of = AllIds(g) /\ \A x \in AllIds(g) : base.of[x] = Null
        BY <2>1
  <2>3. 0..(base.next - 1) = {} /\ 1..0 = {} /\ base.next \in Nat
        BY <2>1
  <2> HIDE DEF base
  <2>4. Numbering(g, base, 0)
        BY <2>1, <2>2, <2>3 DEF Numbering
  <2>5. QED BY <1>3, <2>4
<1> HIDE DEF n
<1>7. ASSUME NEW k \in Nat, k \in T PROVE k + 1 \in T
  <2>1. CASE k + 1 <= n
    <3>1. k + 1 \in 1..n /\ k <= n /\ (k + 1) - 1 = k /\ 1..(k + 1) \subseteq 1..n
          BY <1>1, <2>1
    <3>2. Numbering(g, h[k], k)
          BY <1>7, <3>1
    <3>3. h[k + 1] = Numbered(g, h[k], k + 1)
          BY <1>4, <3>1
    <3>4. \A r \in 1..(k + 1) : IdsOf(g)[r] \in AllIds(g)
          BY <1>5, <3>1
    <3> DEFINE acc == h[k]
    <3>5. Numbering(g, acc, k)
          BY <3>2
    <3> HIDE DEF acc
    <3>6. Numbering(g, Numbered(g, acc, k + 1), k + 1)
          BY <3>4, <3>5, NumberNext
    <3>7. Numbering(g, h[k + 1], k + 1)
          BY <3>3, <3>6 DEF acc
    <3>8. QED BY <3>7
  <2>2. CASE ~(k + 1 <= n)
        BY <2>2
  <2>3. QED BY <2>1, <2>2
<1>8. n \in T
  <2> HIDE DEF T
  <2>1. QED BY <1>1, <1>6, <1>7, NatSetInduction
<1>9. Numbering(g, h[n], n)
      BY <1>1, <1>8
<1>10. QED BY <1>1, <1>2, <1>9 DEF n

\* What the connected nodes are.
LEMMA ConnectedIs ==
    ASSUME NEW g, WellBuilt(g), NEW x
    PROVE  Connected(g, x) = Component(g, x)
<1> DEFINE cfg == AnyEdge(Cardinality(AllIds(g)), "both", g)
           roots == {x}
<1>1. IsFrame(g) /\ Len(IdsOf(g)) \in Nat
      BY WellBuiltFrame, IdsFinite
<1>2. Cardinality(AllIds(g)) = Len(IdsOf(g))
      BY NodesIndexed
<1>3. cfg.hops = Len(IdsOf(g)) /\ cfg.types = DOMAIN g.edges.types /\ cfg.dir = "both"
      BY <1>2 DEF AnyEdge
<1> HIDE DEF cfg, roots
<1>4. WithinHops(g, roots, cfg, AllIds(g)) = Within(g, cfg.types, cfg.dir, roots, cfg.hops)
      BY <1>1, <1>3, WithinHopsIs
<1>5. QED BY <1>3, <1>4 DEF Connected, Component, Reached, cfg, roots

\* One of some numbers is the largest, and the first of those.
LEMMA LargestExists ==
    ASSUME NEW S, S \subseteq Nat, S # {}, NEW f, NEW top \in Nat, \A k \in S : f[k] \in 0..top
    PROVE  \E k \in S : \A j \in S : f[j] < f[k] \/ (f[j] = f[k] /\ k <= j)
<1> DEFINE A == {v \in Nat : \E k \in S : v = top - f[k]}
<1>1. A # {} /\ A \subseteq Nat
  <2>1. PICK k \in S : TRUE
        OBVIOUS
  <2>2. top - f[k] \in Nat
        BY <2>1
  <2>3. top - f[k] \in A
        BY <2>1, <2>2
  <2>4. QED BY <2>3
<1>2. \A k \in S : top - f[k] \in A
  <2>1. \A k \in S : top - f[k] \in Nat
        OBVIOUS
  <2>2. QED BY <2>1
<1>3. PICK v \in A : \A w \in A : v <= w
  <2> HIDE DEF A
  <2>1. QED BY <1>1, LeastNat
<1>4. PICK l \in S : v = top - f[l]
      BY <1>3
<1> DEFINE B == {k \in S : f[k] = f[l]}
<1>5. B # {} /\ B \subseteq Nat
      BY <1>4
<1>6. PICK k \in B : \A w \in B : k <= w
  <2> HIDE DEF B
  <2>1. QED BY <1>5, LeastNat
<1>7. k \in S /\ f[k] = f[l]
      BY <1>6
<1>8. ASSUME NEW j \in S PROVE f[j] < f[k] \/ (f[j] = f[k] /\ k <= j)
  <2>1. top - f[l] <= top - f[j]
        BY <1>2, <1>3, <1>4
  <2> DEFINE a == f[j]
             c == f[l]
  <2>2. a \in Nat /\ c \in Nat /\ top - c <= top - a
        BY <1>4, <2>1
  <2> HIDE DEF a, c
  <2>3. a < c \/ a = c
        BY <2>2
  <2>4. a = c => j \in B
        BY DEF a, c
  <2>5. QED BY <1>6, <1>7, <2>3, <2>4 DEF a, c
<1>9. QED BY <1>7, <1>8

\* The largest of the components, or nothing.
IsLargest(g, X) ==
    /\ LargestConnectedComponent(g) = Subgraph(g, X) /\ X \subseteq AllIds(g)
    /\ \A x \in X : Component(g, x) = X
    /\ \A x \in AllIds(g) : Cardinality(Component(g, x)) <= Cardinality(X)

\* That is what largest_connected_component cuts out.
LEMMA LargestIs ==
    ASSUME NEW g, WellBuilt(g), Null \notin Nat
    PROVE  \E X : IsLargest(g, X)
<1> DEFINE V    == AllIds(g)
           C(x) == Component(g, x)
           c    == ComponentIds(g)
           n    == c.next
           M(k) == {x \in DOMAIN c.of : c.of[x] = k}
           size(k) == Cardinality(M(k))
           best == CHOOSE k \in 0..(n - 1) : \A j \in 0..(n - 1) :
                          size(j) < size(k) \/ (size(j) = size(k) /\ k <= j)
<1>1. LargestConnectedComponent(g) = IF n = 0 THEN Subgraph(g, {}) ELSE Subgraph(g, M(best))
      BY DEF LargestConnectedComponent
<1>2. /\ n \in Nat /\ DOMAIN c.of = V
      /\ \A x \in V : c.of[x] = Null \/ c.of[x] \in 0..(n - 1)
      /\ \A x, y \in V : c.of[x] # Null => (c.of[y] = c.of[x] <=> C(y) = C(x))
      /\ \A i \in 0..(n - 1) : \E x \in V : c.of[x] = i
      /\ \A r \in 1..Len(IdsOf(g)) : c.of[IdsOf(g)[r]] # Null
  <2>1. Numbering(g, c, Len(IdsOf(g)))
        BY ComponentsNumbered
  <2>2. QED BY <2>1 DEF Numbering
<1>3. \A x \in V : \E r \in 1..Len(IdsOf(g)) : IdsOf(g)[r] = x
  <2>1. PICK m \in Nat : DOMAIN IdsOf(g) = 1..m /\ Len(IdsOf(g)) = m
        BY WellBuiltFrame, IdsFinite
  <2>2. QED BY <2>1 DEF AllIds, ToSet
<1>4. \A x \in V : c.of[x] \in 0..(n - 1)
      BY <1>2, <1>3
<1>5. /\ \A x \in V : x \in C(x) /\ C(x) \subseteq V
      /\ \A x \in V : \A y \in C(x) : C(y) = C(x)
      BY ComponentClosed, ComponentsAgree
<1>6. IsFiniteSet(V) /\ Cardinality(V) \in Nat
      BY NodesIndexed, FS_CardinalityType
<1>7. Null \notin 0..(n - 1)
      BY <1>2
<1> HIDE DEF C, V, c
<1>8. ASSUME NEW x \in V PROVE M(c.of[x]) = C(x)
  <2>1. \A y \in V : c.of[y] = c.of[x] <=> C(y) = C(x)
        BY <1>2, <1>4, <1>7
  <2>2. \A y \in V : y \in C(x) <=> C(y) = C(x)
        BY <1>5
  <2>3. QED BY <1>2, <1>5, <2>1, <2>2
<1>9. \A k \in 0..(n - 1) : \E x \in V : c.of[x] = k /\ M(k) = C(x)
      BY <1>2, <1>8
<1> DEFINE f == [k \in 0..(n - 1) |-> size(k)]
<1>10. \A k \in 0..(n - 1) : f[k] = size(k) /\ f[k] \in 0..Cardinality(V)
  <2>1. ASSUME NEW k \in 0..(n - 1) PROVE size(k) \in 0..Cardinality(V)
    <3>1. M(k) \in SUBSET V
          BY <1>5, <1>9
    <3> HIDE DEF M
    <3>2. IsFiniteSet(M(k)) /\ Cardinality(M(k)) <= Cardinality(V)
          BY <1>6, <3>1, FS_Subset
    <3>3. Cardinality(M(k)) \in Nat
          BY <3>2, FS_CardinalityType
    <3>4. QED BY <1>6, <3>2, <3>3
  <2>2. QED BY <2>1
<1> HIDE DEF M
<1>11. CASE n = 0
  <2>1. V = {}
        BY <1>4, <1>11
  <2>2. IsLargest(g, {})
        BY <1>1, <1>11, <2>1 DEF IsLargest, V
  <2>3. QED BY <2>2
<1>12. CASE n # 0
  <2> DEFINE S == 0..(n - 1)
             top == Cardinality(V)
  <2>1. S \subseteq Nat /\ 0 \in S
        BY <1>2, <1>12
  <2>2. \A k \in S : f[k] \in 0..top
        BY <1>10
  <2>3. \E k \in S : \A j \in S : f[j] < f[k] \/ (f[j] = f[k] /\ k <= j)
    <3>1. top \in Nat
          BY <1>6
    <3> HIDE DEF S, f, top
    <3>2. S # {}
          BY <2>1
    <3>3. QED BY ONLY <2>1, <2>2, <3>1, <3>2, LargestExists
  <2>4. \E k \in S : \A j \in S : size(j) < size(k) \/ (size(j) = size(k) /\ k <= j)
    <3> HIDE DEF f, size
    <3>1. QED BY <1>10, <2>3
  <2>5. best \in S /\ \A j \in S : size(j) < size(best) \/ (size(j) = size(best) /\ best <= j)
    <3> HIDE DEF size
    <3>1. QED BY <2>4
  <2> HIDE DEF best
  <2> DEFINE X == M(best)
  <2>6. LargestConnectedComponent(g) = Subgraph(g, X)
        BY <1>1, <1>12
  <2>7. PICK z \in V : c.of[z] = best /\ X = C(z)
        BY <1>9, <2>5
  <2>8. X \subseteq V /\ \A x \in X : C(x) = X
        BY <1>5, <2>7
  <2>9. ASSUME NEW x \in V PROVE Cardinality(C(x)) <= Cardinality(X)
    <3> DEFINE k == c.of[x]
    <3>1. k \in S /\ M(k) = C(x)
          BY <1>4, <1>8
    <3>2. size(k) < size(best) \/ size(k) = size(best)
          BY <2>5, <3>1
    <3>3. f[k] = size(k) /\ f[best] = size(best) /\ f[k] \in 0..top /\ f[best] \in 0..top
      <4> HIDE DEF f, k
      <4>1. QED BY <1>10, <2>5, <3>1
    <3> DEFINE a == size(k)
               d == size(best)
    <3>4. a \in 0..top /\ d \in 0..top /\ (a < d \/ a = d)
      <4> HIDE DEF f
      <4>1. QED BY <3>2, <3>3
    <3>5. a = Cardinality(C(x)) /\ d = Cardinality(X)
          BY <3>1
    <3> HIDE DEF a, d, top
    <3>6. a <= d
          BY <3>4, <1>6 DEF top
    <3>7. QED BY <3>5, <3>6
  <2>10. IsLargest(g, X)
    <3> HIDE DEF X
    <3>1. QED BY <2>6, <2>8, <2>9 DEF IsLargest, V, C
  <2>11. QED BY <2>10
<1>13. QED BY <1>11, <1>12

-----------------------------------------------------------------------------
(* A list that is parted among lists.                                       *)

\* The lists keep the rows of s: the k-th those of cut[k], and every row is in one cut.
Parted(tables, s, m, cut) ==
    /\ DOMAIN tables = 1..m
    /\ \A k \in 1..m : cut[k] \subseteq DOMAIN s /\ Keeps(tables[k], s, cut[k])
    /\ \A r \in DOMAIN s : \E k \in 1..m : r \in cut[k]
    /\ \A k, l \in 1..m : \A r \in cut[k] : r \in cut[l] => k = l
\* Where something is in the lists, and from which row of s it is.
Spots(tables) == UNION {{k} \X DOMAIN tables[k] : k \in DOMAIN tables}
SpotsOf(row, tables) == {p \in Spots(tables) : tables[p[1]][p[2]] = row}
TakenFrom(tables, s, at) ==
    /\ \A p \in Spots(tables) : at[p] \in DOMAIN s /\ tables[p[1]][p[2]] = s[at[p]]
    /\ \A p, q \in Spots(tables) : at[p] = at[q] => p = q
    /\ \A r \in DOMAIN s : \E p \in Spots(tables) : at[p] = r

\* Every row of a list that is parted is in one spot.
LEMMA PartedRows ==
    ASSUME NEW w \in Nat, NEW s, DOMAIN s = 1..w, NEW m \in Nat, NEW tables, NEW cut, Parted(tables, s, m, cut)
    PROVE  \E at : TakenFrom(tables, s, at)
<1> DEFINE By(k, a) == /\ DOMAIN a = DOMAIN tables[k] /\ \A i \in DOMAIN a : a[i] \in cut[k] /\ tables[k][i] = s[a[i]]
                       /\ \A i, j \in DOMAIN a : a[i] = a[j] => i = j
                       /\ \A r \in cut[k] : \E i \in DOMAIN a : a[i] = r
           G  == [k \in 1..m |-> CHOOSE a : By(k, a)]
           at == [p \in Spots(tables) |-> G[p[1]][p[2]]]
<1>1. ASSUME NEW k \in 1..m PROVE By(k, G[k])
  <2>1. PICK n \in Nat : \E a \in [1..n -> cut[k]] :
            /\ \A i, j \in 1..n : i < j => a[i] < a[j]
            /\ \A r \in cut[k] : \E i \in 1..n : a[i] = r
            /\ tables[k] = [i \in 1..n |-> s[a[i]]]
        BY DEF Parted, Keeps
  <2>2. PICK a \in [1..n -> cut[k]] :
            /\ \A i, j \in 1..n : i < j => a[i] < a[j]
            /\ \A r \in cut[k] : \E i \in 1..n : a[i] = r
            /\ tables[k] = [i \in 1..n |-> s[a[i]]]
        BY <2>1
  <2>3. DOMAIN a = 1..n /\ DOMAIN tables[k] = 1..n /\ \A i \in 1..n : a[i] \in cut[k] /\ tables[k][i] = s[a[i]]
        BY <2>2
  <2>4. \A i \in 1..n : a[i] \in 1..w
        BY <2>3 DEF Parted
  <2>5. \A i, j \in 1..n : a[i] = a[j] => i = j
        BY <2>2, <2>4
  <2>6. By(k, a)
        BY <2>2, <2>3, <2>5
  <2> HIDE DEF By
  <2>7. G[k] = CHOOSE b : By(k, b)
        OBVIOUS
  <2>8. QED BY <2>6, <2>7
<1> HIDE DEF G
<1>2. \A p : p \in Spots(tables) <=> \E k \in 1..m : \E i \in DOMAIN tables[k] : p = <<k, i>>
      BY DEF Spots, Parted
<1>3. \A k \in 1..m : \A i \in DOMAIN tables[k] : <<k, i>> \in Spots(tables) /\ at[<<k, i>>] = G[k][i]
      BY <1>2
<1> HIDE DEF at
<1>4. \A p \in Spots(tables) : at[p] \in DOMAIN s /\ tables[p[1]][p[2]] = s[at[p]]
  <2> TAKE p \in Spots(tables)
  <2>1. PICK k \in 1..m : \E i \in DOMAIN tables[k] : p = <<k, i>>
        BY <1>2
  <2>2. PICK i \in DOMAIN tables[k] : p = <<k, i>>
        BY <2>1
  <2>3. G[k][i] \in cut[k] /\ tables[k][i] = s[G[k][i]]
        BY <1>1
  <2>4. QED BY <1>3, <2>2, <2>3 DEF Parted
<1>5. \A p, q \in Spots(tables) : at[p] = at[q] => p = q
  <2> TAKE p, q \in Spots(tables)
  <2>1. PICK k \in 1..m : \E i \in DOMAIN tables[k] : p = <<k, i>>
        BY <1>2
  <2>2. PICK i \in DOMAIN tables[k] : p = <<k, i>>
        BY <2>1
  <2>3. PICK l \in 1..m : \E j \in DOMAIN tables[l] : q = <<l, j>>
        BY <1>2
  <2>4. PICK j \in DOMAIN tables[l] : q = <<l, j>>
        BY <2>3
  <2>5. G[k][i] \in cut[k] /\ G[l][j] \in cut[l] /\ i \in DOMAIN G[k] /\ j \in DOMAIN G[l]
        BY <1>1
  <2>6. at[p] = G[k][i] /\ at[q] = G[l][j]
        BY <1>3, <2>2, <2>4
  <2>7. at[p] = at[q] => k = l
        BY <2>5, <2>6 DEF Parted
  <2>8. at[p] = at[q] => i = j
    <3>1. ASSUME at[p] = at[q] PROVE i = j
      <4>1. k = l
            BY <2>7, <3>1
      <4>2. j \in DOMAIN G[k] /\ G[k][i] = G[k][j]
            BY <2>5, <2>6, <3>1, <4>1
      <4>3. \A x, y \in DOMAIN G[k] : G[k][x] = G[k][y] => x = y
            BY <1>1
      <4> HIDE DEF By
      <4>4. QED BY <2>5, <4>2, <4>3
    <3>2. QED BY <3>1
  <2>9. QED BY <2>2, <2>4, <2>7, <2>8
<1>6. \A r \in DOMAIN s : \E p \in Spots(tables) : at[p] = r
  <2> TAKE r \in DOMAIN s
  <2>1. PICK k \in 1..m : r \in cut[k]
        BY DEF Parted
  <2>2. PICK i \in DOMAIN tables[k] : G[k][i] = r
        BY <1>1, <2>1
  <2>3. QED BY <1>3, <2>2
<1>7. QED BY <1>4, <1>5, <1>6 DEF TakenFrom

\* What is equal to a row is in as many spots as there are such rows.
LEMMA SpotsAre ==
    ASSUME NEW w \in Nat, NEW s, DOMAIN s = 1..w, NEW tables, NEW at, TakenFrom(tables, s, at), NEW row
    PROVE  Cardinality(SpotsOf(row, tables)) = Cardinality({r \in DOMAIN s : s[r] = row})
<1> DEFINE R == {r \in DOMAIN s : s[r] = row}
           Q == {p \in Spots(tables) : tables[p[1]][p[2]] = row}
           f == [r \in R |-> CHOOSE p \in Spots(tables) : at[p] = r]
<1>1. IsFiniteSet(R)
      BY FS_Interval, FS_Subset
<1>2. \A r \in R : f[r] \in Spots(tables) /\ at[f[r]] = r
      BY DEF TakenFrom
<1> HIDE DEF f
<1>3. {f[r] : r \in R} = Q
  <2>1. ASSUME NEW r \in R PROVE f[r] \in Q
        BY <1>2 DEF TakenFrom
  <2>2. ASSUME NEW p \in Q PROVE \E r \in R : f[r] = p
    <3>1. at[p] \in R
          BY DEF TakenFrom
    <3>2. f[at[p]] = p
          BY <1>2, <3>1 DEF TakenFrom
    <3>3. QED BY <3>1, <3>2
  <2>3. QED BY <2>1, <2>2
<1> HIDE DEF R, Q
<1>4. \A x, y \in R : f[x] = f[y] => x = y
      BY <1>2
<1>5. Cardinality(Q) = Cardinality(R)
      BY <1>1, <1>3, <1>4, SameSize
<1>6. QED BY <1>5 DEF R, Q, SpotsOf

\* Two counts go by the same steps, o from 0; and p is ahead by what it begins with.
StepAlike(o, p, d, m) ==
    /\ o[0] = 0 /\ p[0] \in Nat
    /\ \A k \in 1..m : d[k] \in Nat /\ o[k] = o[k - 1] + d[k] /\ p[k] = p[k - 1] + d[k]
AheadBy(o, p, m) == \A k \in 0..m : o[k] \in Nat /\ p[k] = p[0] + o[k]

\* Counts that go by the same steps stay as far apart as they begin.
LEMMA StepsAgree ==
    ASSUME NEW m \in Nat, NEW o, NEW p, NEW d, StepAlike(o, p, d, m)
    PROVE  AheadBy(o, p, m)
<1>1. /\ o[0] = 0 /\ p[0] \in Nat
      /\ \A k \in 1..m : d[k] \in Nat /\ o[k] = o[k - 1] + d[k] /\ p[k] = p[k - 1] + d[k]
      BY DEF StepAlike
<1> DEFINE I(k) == o[k] \in Nat /\ p[k] = p[0] + o[k]
           T    == {k \in Nat : k <= m => I(k)}
<1>2. 0 \in T
      BY <1>1
<1>3. ASSUME NEW k \in Nat, k \in T PROVE k + 1 \in T
  <2>1. ASSUME k + 1 <= m PROVE I(k + 1)
    <3>1. I(k) /\ k + 1 \in 1..m /\ (k + 1) - 1 = k
          BY <1>3, <2>1
    <3>2. d[k + 1] \in Nat /\ o[k + 1] = o[(k + 1) - 1] + d[k + 1] /\ p[k + 1] = p[(k + 1) - 1] + d[k + 1]
          BY <1>1, <3>1
    <3>3. o[k + 1] = o[k] + d[k + 1] /\ p[k + 1] = p[k] + d[k + 1]
          BY <3>1, <3>2
    <3>4. QED BY <1>1, <3>1, <3>2, <3>3
  <2> HIDE DEF I
  <2>2. QED BY <2>1
<1>4. T = Nat
  <2>1. T \subseteq Nat
        OBVIOUS
  <2> HIDE DEF T
  <2>2. QED BY <1>2, <1>3, <2>1, NatSetInduction
<1>5. QED BY <1>4 DEF AheadBy

\* Put together again, the lists are as long as what was parted.
LEMMA PartedLength ==
    ASSUME NEW w \in Nat, NEW s, DOMAIN s = 1..w, NEW m \in Nat, NEW tables, NEW cut, Parted(tables, s, m, cut),
           NEW U, tables \in Seq(Seq(U))
    PROVE  Len(FlattenSeq(tables)) = w
<1>1. PICK at : TakenFrom(tables, s, at)
      BY PartedRows
<1> DEFINE d    == [k \in 1..m |-> Len(tables[k])]
           row  == [k \in 1..m |-> [i \in 1..d[k] |-> at[<<k, i>>]]]
           flat == FlattenSeq(row)
<1>2. /\ DOMAIN tables = 1..m /\ Len(tables) = m
      /\ \A k \in 1..m : d[k] \in Nat /\ d[k] = Len(tables[k]) /\ DOMAIN tables[k] = 1..d[k]
  <2>1. DOMAIN tables = 1..m
        BY DEF Parted
  <2>2. Len(tables) = m
        BY <2>1, ListLen
  <2>3. \A k \in 1..m : tables[k] \in Seq(U)
        BY <2>1
  <2>4. QED BY <2>1, <2>2, <2>3
<1> HIDE DEF d
<1>3. \A p : p \in Spots(tables) <=> \E k \in 1..m : \E i \in 1..d[k] : p = <<k, i>>
      BY <1>2 DEF Spots
<1>4. \A k \in 1..m : \A i \in 1..d[k] : <<k, i>> \in Spots(tables) /\ at[<<k, i>>] \in 1..w /\ at[<<k, i>>] \in Nat
  <2> TAKE k \in 1..m
  <2> TAKE i \in 1..d[k]
  <2>1. <<k, i>> \in Spots(tables)
        BY <1>3
  <2>2. at[<<k, i>>] \in 1..w
        BY <1>1, <2>1 DEF TakenFrom
  <2>3. QED BY <2>1, <2>2
<1>5. \A k, l \in 1..m : \A i \in 1..d[k], j \in 1..d[l] : at[<<k, i>>] = at[<<l, j>>] => k = l /\ i = j
  <2> TAKE k, l \in 1..m
  <2> TAKE i \in 1..d[k], j \in 1..d[l]
  <2>1. <<k, i>> \in Spots(tables) /\ <<l, j>> \in Spots(tables)
        BY <1>4
  <2>2. at[<<k, i>>] = at[<<l, j>>] => <<k, i>> = <<l, j>>
        BY <1>1, <2>1 DEF TakenFrom
  <2>3. QED BY <2>2
<1>6. DOMAIN row = 1..m /\ Len(row) = m
      /\ \A k \in 1..m : /\ row[k] \in Seq(Nat) /\ DOMAIN row[k] = 1..d[k] /\ Len(row[k]) = d[k]
                         /\ \A i \in 1..d[k] : row[k][i] = at[<<k, i>>]
  <2>1. DOMAIN row = 1..m
        OBVIOUS
  <2>2. \A k \in 1..m : row[k] = [i \in 1..d[k] |-> at[<<k, i>>]]
        OBVIOUS
  <2> HIDE DEF row, flat
  <2>3. ASSUME NEW k \in 1..m
        PROVE  /\ row[k] \in Seq(Nat) /\ DOMAIN row[k] = 1..d[k] /\ Len(row[k]) = d[k]
               /\ \A i \in 1..d[k] : row[k][i] = at[<<k, i>>]
    <3> DEFINE n == d[k]
               t == row[k]
    <3>1. n \in Nat /\ t = [i \in 1..n |-> at[<<k, i>>]] /\ \A i \in 1..n : at[<<k, i>>] \in Nat
          BY <1>2, <1>4, <2>2
    <3> HIDE DEF n, t
    <3>2. DOMAIN t = 1..n /\ \A i \in 1..n : t[i] = at[<<k, i>>]
          BY <3>1
    <3>3. t \in [1..n -> Nat]
          BY <3>1
    <3>4. t \in Seq(Nat)
          BY ONLY <3>1, <3>3
    <3>5. Len(t) = n
          BY ONLY <3>1, <3>2, ListLen
    <3>6. QED BY <3>2, <3>4, <3>5 DEF n, t
  <2>4. Len(row) = m
        BY <2>1, ListLen
  <2>5. QED BY <2>1, <2>3, <2>4
<1>7. row \in Seq(Seq(Nat))
  <2>1. row = [k \in 1..m |-> row[k]]
        OBVIOUS
  <2> HIDE DEF row
  <2>2. row \in [1..m -> Seq(Nat)]
        BY <1>6, <2>1
  <2>3. QED BY <2>2
<1> HIDE DEF row
<1>8. flat \in Seq(Nat) /\ ToSet(flat) = 1..w /\ IsInjective(flat)
  <2> HIDE DEF flat
  <2>1. ASSUME NEW k \in DOMAIN row PROVE IsInjective(row[k])
    <3>1. k \in 1..m /\ DOMAIN row[k] = 1..d[k] /\ \A i \in 1..d[k] : row[k][i] = at[<<k, i>>]
          BY <1>6
    <3>2. \A i, j \in 1..d[k] : at[<<k, i>>] = at[<<k, j>>] => i = j
          BY <1>5, <3>1
    <3>3. QED BY <3>1, <3>2 DEF IsInjective
  <2>2. ASSUME NEW k \in 1..m PROVE ToSet(row[k]) = {at[<<k, i>>] : i \in 1..d[k]}
    <3>1. DOMAIN row[k] = 1..d[k] /\ \A i \in 1..d[k] : row[k][i] = at[<<k, i>>]
          BY <1>6
    <3>2. QED BY <3>1 DEF ToSet
  <2>3. ASSUME NEW k \in DOMAIN row, NEW l \in DOMAIN row, k # l
        PROVE  ToSet(row[k]) \cap ToSet(row[l]) = {}
    <3>1. k \in 1..m /\ l \in 1..m
          BY <1>6
    <3>2. /\ ToSet(row[k]) = {at[<<k, i>>] : i \in 1..d[k]}
          /\ ToSet(row[l]) = {at[<<l, i>>] : i \in 1..d[l]}
          BY <2>2, <3>1
    <3>3. \A i \in 1..d[k], j \in 1..d[l] : at[<<k, i>>] # at[<<l, j>>]
          BY <1>5, <2>3, <3>1
    <3>4. QED BY <3>2, <3>3
  <2>4. UNION {ToSet(row[k]) : k \in DOMAIN row} = 1..w
    <3>1. ASSUME NEW k \in DOMAIN row PROVE ToSet(row[k]) \subseteq 1..w
      <4>1. k \in 1..m
            BY <1>6
      <4>2. \A i \in 1..d[k] : at[<<k, i>>] \in 1..w
            BY <1>4, <4>1
      <4>3. ToSet(row[k]) = {at[<<k, i>>] : i \in 1..d[k]}
            BY <2>2, <4>1
      <4>4. QED BY <4>2, <4>3
    <3>2. ASSUME NEW r \in 1..w PROVE \E k \in DOMAIN row : r \in ToSet(row[k])
      <4>1. PICK p \in Spots(tables) : at[p] = r
            BY <1>1 DEF TakenFrom
      <4>2. PICK k \in 1..m : \E i \in 1..d[k] : p = <<k, i>>
            BY <1>3
      <4>3. r \in ToSet(row[k])
            BY <2>2, <4>1, <4>2
      <4>4. QED BY <1>6, <4>3
    <3>3. QED BY <3>1, <3>2
  <2>5. row \in Seq(Seq(Nat)) /\ \A k \in DOMAIN row : IsInjective(row[k])
        BY <1>7, <2>1
  <2>6. \A k, l \in DOMAIN row : k # l => ToSet(row[k]) \cap ToSet(row[l]) = {}
        BY <2>3
  <2>7. /\ FlattenSeq(row) \in Seq(Nat)
        /\ ToSet(FlattenSeq(row)) = UNION {ToSet(row[k]) : k \in DOMAIN row}
        BY ONLY <2>5, FlattenHas
  <2>8. IsInjective(FlattenSeq(row))
        BY ONLY <2>5, <2>6, FlattenHas
  <2>9. QED BY <2>4, <2>7, <2>8 DEF flat
<1>9. Len(flat) = w
  <2> DEFINE n == Len(flat)
             q == 1..n
  <2>1. n \in Nat /\ DOMAIN flat = 1..n
        BY <1>8
  <2> HIDE DEF n, flat
  <2>2. IsFiniteSet(1..n) /\ Cardinality(1..n) = n /\ Cardinality(1..w) = w
    <3>1. ASSUME NEW k \in Nat PROVE IsFiniteSet(1..k) /\ Cardinality(1..k) = k
      <4>1. 1 \in Int /\ k \in Int
            OBVIOUS
      <4>2. Cardinality(1..k) = IF 1 > k THEN 0 ELSE k - 1 + 1
            BY <4>1, FS_Interval
      <4>3. IsFiniteSet(1..k)
            BY <4>1, FS_Interval
      <4>4. QED BY <4>2, <4>3
    <3>2. QED BY <2>1, <3>1
  <2>3. {flat[x] : x \in 1..n} = 1..w
        BY <1>8, <2>1 DEF ToSet
  <2>4. \A x, y \in 1..n : flat[x] = flat[y] => x = y
        BY <1>8, <2>1 DEF IsInjective
  <2>5. IsFiniteSet(q) /\ (\A x, y \in q : flat[x] = flat[y] => x = y) /\ {flat[x] : x \in q} = 1..w
        BY <2>2, <2>3, <2>4
  <2> HIDE DEF flat, q
  <2>6. Cardinality({flat[x] : x \in q}) = Cardinality(q)
        BY ONLY <2>5, SameSize
  <2>7. n = w
        BY <2>2, <2>5, <2>6 DEF q
  <2>8. QED BY <2>7 DEF n
<1>10. PICK o : Lies(tables, m, o, FlattenSeq(tables))
       BY <1>2, FlattenLies
<1>11. PICK p : Lies(row, m, p, flat)
       BY <1>6, <1>7, FlattenLies
<1> HIDE DEF flat
<1>12. p[m] = 0 + o[m]
  <2>1. p[0] = 0 /\ StepAlike(o, p, d, m)
        BY <1>2, <1>6, <1>10, <1>11 DEF Lies, StepAlike
  <2>2. AheadBy(o, p, m)
        BY <2>1, StepsAgree
  <2>3. m \in 0..m
        OBVIOUS
  <2>4. QED BY <2>1, <2>2, <2>3 DEF AheadBy
<1>13. Len(FlattenSeq(tables)) = o[m] /\ Len(flat) = p[m] /\ o[m] \in Nat
       BY <1>10, <1>11 DEF Lies
<1>14. QED BY <1>9, <1>12, <1>13

\* The lengths of the first m lists of ss, and how far these reach, counted from base.
LengthsOf(d, ss, m) == DOMAIN d = 1..m /\ \A k \in 1..m : d[k] = Len(ss[k])
SumReaches(ss, base, d, m) ==
    \E o : Lies(ss, Len(ss), o, FlattenSeq(ss)) /\ FoldLeft(+, base, d) = base + o[m]

\* A sum of the lengths of some lists is how far the last of them reaches.
LEMMA LengthsAdd ==
    ASSUME NEW U, NEW ss \in Seq(Seq(U)), NEW m \in Nat, m <= Len(ss), NEW base \in Nat,
           NEW d, LengthsOf(d, ss, m)
    PROVE  SumReaches(ss, base, d, m)
<1> DEFINE n    == Len(ss)
           kind == Folding("sum")
           flat == FlattenSeq(ss)
           sum  == FoldLeft(+, base, d)
<1>1. n \in Nat /\ DOMAIN ss = 1..n /\ m <= n /\ (\A k \in 1..n : ss[k] \in Seq(U))
      /\ DOMAIN d = 1..m /\ \A k \in 1..m : d[k] = Len(ss[k])
      BY ElementOfSeq DEF LengthsOf
<1>2. PICK o : Lies(ss, n, o, flat)
      BY FlattenLies
<1>3. PICK h : UpTo(kind, base, d, m, h) /\ sum = h[m]
      BY <1>1, SumFolds
<1>4. \A t, x : Added(kind, t, x) = t + x
      BY DEF Added, Folding
<1> HIDE DEF kind, flat, sum, n
<1>5. h[0] = base /\ \A k \in 1..m : h[k] = Added(kind, h[k - 1], d[k])
  <2>1. m \in Nat /\ UpTo(kind, base, d, m, h)
        BY <1>3
  <2>2. QED BY ONLY <2>1, UpToIs
<1>6. \A k \in 1..m : k \in 1..n /\ d[k] \in Nat /\ o[k] = o[k - 1] + d[k] /\ h[k] = h[k - 1] + d[k]
  <2> TAKE k \in 1..m
  <2>1. k \in 1..n
        BY <1>1
  <2>2. d[k] = Len(ss[k]) /\ d[k] \in Nat
        BY <1>1, <2>1
  <2>3. o[k] = o[k - 1] + Len(ss[k])
        BY <1>2, <2>1 DEF Lies
  <2>4. QED BY <1>4, <1>5, <2>1, <2>2, <2>3
<1>7. o[0] = 0
      BY <1>2 DEF Lies
<1>8. \A k \in 0..m : o[k] \in Nat /\ h[k] = base + o[k]
  <2>1. h[0] = base /\ StepAlike(o, h, d, m)
        BY <1>5, <1>6, <1>7 DEF StepAlike
  <2>2. AheadBy(o, h, m)
        BY <2>1, StepsAgree
  <2>3. QED BY <2>1, <2>2 DEF AheadBy
<1>9. h[m] = base + o[m]
      BY <1>8
<1>10. QED BY <1>2, <1>3, <1>9 DEF flat, sum, n, SumReaches

-----------------------------------------------------------------------------
(* Batches of the same fields put together.                                 *)

\* A batch has a value in every row for each of its fields.
Tabled(b) ==
    /\ b = [fields |-> b.fields, rows |-> b.rows]
    /\ \E n \in Nat : DOMAIN b.fields = 1..n
    /\ \E m \in Nat : b.rows = [r \in 1..m |-> [c \in Names(b) |-> b.rows[r][c]]]
\* The batches have these fields, the reserved ones among them.
Alike(bs, m, fields, reserved) ==
    /\ DOMAIN bs = 1..m
    /\ \A k \in 1..m : Tabled(bs[k]) /\ bs[k].fields = fields
    /\ reserved \in Seq(ToSet(reserved)) /\ ToSet(reserved) \subseteq {fields[i].name : i \in DOMAIN fields}
\* The names of the columns that Concat makes.
ConcatNames(bs, reserved) ==
    FoldLeft(LAMBDA acc, b : WithNew(acc, [i \in DOMAIN b.fields |-> b.fields[i].name]), reserved, bs)

\* They are taken up batch by batch.
LEMMA FieldsFold ==
    ASSUME NEW acc, NEW s, NEW m \in Nat, DOMAIN s = 1..m
    PROVE  \E h : UpTo(Folding("fields"), acc, s, m, h) /\ ConcatNames(s, acc) = h[m]
<1> DEFINE N(t, x) == WithNew(t, [i \in DOMAIN x.fields |-> x.fields[i].name])
           W == CHOOSE f : f = [T \in SUBSET (1..m) |-> IF T = {} THEN acc ELSE N(f[T \ {Max(T)}], s[Max(T)])]
<1>1. ConcatNames(s, acc) = W[1..m]
      BY DEF ConcatNames, FoldLeft, MapThenFoldSet
<1>2. \A t, x : Added(Folding("fields"), t, x) = N(t, x)
      BY DEF Added, Folding
<1> HIDE DEF N
<1>3. ASSUME NEW f
      PROVE  OfParts(Folding("fields"), acc, s, m, f)
             <=> f = [T \in SUBSET (1..m) |-> IF T = {} THEN acc ELSE N(f[T \ {Max(T)}], s[Max(T)])]
      BY <1>2 DEF OfParts
<1>4. OfParts(Folding("fields"), acc, s, m, W)
      BY <1>3, FoldSteps
<1> HIDE DEF W
<1>5. QED BY <1>1, <1>4, FoldSteps

\* Batches of the same fields have the names of these fields together.
LEMMA ConcatNamesAre ==
    ASSUME NEW m \in Nat \ {0}, NEW bs, NEW fields, NEW reserved, Alike(bs, m, fields, reserved)
    PROVE  ToSet(ConcatNames(bs, reserved)) = {fields[i].name : i \in DOMAIN fields}
<1> DEFINE U    == {fields[i].name : i \in DOMAIN fields}
           s    == [i \in DOMAIN fields |-> fields[i].name]
           kind == Folding("fields")
<1>1. DOMAIN bs = 1..m /\ m \in Nat /\ \A k \in 1..m : bs[k].fields = fields
      BY DEF Alike
<1>2. PICK n \in Nat : DOMAIN fields = 1..n
  <2>1. 1 \in 1..m
        OBVIOUS
  <2>2. QED BY <2>1 DEF Alike, Tabled
<1>3. s \in Seq(U) /\ ToSet(s) = U
  <2>1. DOMAIN s = 1..n /\ \A i \in 1..n : s[i] = fields[i].name /\ s[i] \in U
        BY <1>2
  <2>2. s = [i \in 1..n |-> s[i]]
        BY <1>2
  <2>3. ToSet(s) = U
        BY <1>2 DEF ToSet
  <2> HIDE DEF s, U
  <2>4. s \in [1..n -> U]
        BY <2>1, <2>2
  <2>5. s \in Seq(U)
        BY <2>4
  <2>6. QED BY <2>3, <2>5
<1>4. reserved \in Seq(U) /\ ToSet(reserved) \subseteq U
  <2> DEFINE V == ToSet(reserved)
  <2>1. reserved \in Seq(V) /\ V \subseteq U
        BY DEF Alike
  <2> HIDE DEF U, V
  <2>2. reserved \in Seq(U)
        BY <2>1
  <2>3. QED BY <2>1, <2>2 DEF V
<1>5. PICK h : UpTo(kind, reserved, bs, m, h) /\ ConcatNames(bs, reserved) = h[m]
      BY <1>1, FieldsFold
<1>6. h[0] = reserved /\ \A k \in 1..m : h[k] = Added(kind, h[k - 1], bs[k])
      BY <1>1, <1>5, UpToIs
<1>7. \A k \in 1..m : h[k] = WithNew(h[k - 1], s)
  <2> TAKE k \in 1..m
  <2>1. bs[k].fields = fields
        BY <1>1
  <2>2. Added(kind, h[k - 1], bs[k]) = WithNew(h[k - 1], [i \in DOMAIN bs[k].fields |-> bs[k].fields[i].name])
        BY DEF Added, Folding
  <2>3. QED BY <1>6, <2>1, <2>2
<1> HIDE DEF U, s, kind
<1> DEFINE I(k) == h[k] \in Seq(U) /\ ToSet(h[k]) = (IF k = 0 THEN ToSet(reserved) ELSE U)
           T    == {k \in Nat : k <= m => I(k)}
<1>8. 0 \in T
      BY <1>4, <1>6
<1>9. ASSUME NEW k \in Nat, k \in T PROVE k + 1 \in T
  <2>1. ASSUME k + 1 <= m PROVE I(k + 1)
    <3>1. I(k) /\ k + 1 \in 1..m /\ (k + 1) - 1 = k /\ k + 1 # 0
          BY <1>9, <2>1
    <3>2. h[k + 1] = WithNew(h[k], s)
          BY <1>7, <3>1
    <3>3. /\ WithNew(h[k], s) \in Seq(U)
          /\ ToSet(WithNew(h[k], s)) = ToSet(h[k]) \cup ToSet(s)
          BY <1>3, <3>1, WithNewLists
    <3>4. ToSet(h[k]) \subseteq U
          BY <1>4, <3>1
    <3>5. ToSet(h[k + 1]) = U
          BY <1>3, <3>2, <3>3, <3>4
    <3>6. QED BY <3>1, <3>2, <3>3, <3>5
  <2> HIDE DEF I
  <2>2. QED BY <2>1
<1>10. Nat \subseteq T
  <2> HIDE DEF T
  <2>1. QED BY <1>8, <1>9, NatSetInduction
<1>11. I(m)
  <2> HIDE DEF I
  <2>1. QED BY <1>10
<1>12. QED BY <1>5, <1>11 DEF U

\* Concat puts the rows of batches of the same fields together as they are.
LEMMA ConcatIs ==
    ASSUME NEW m \in Nat \ {0}, NEW bs, NEW fields, NEW reserved, Alike(bs, m, fields, reserved)
    PROVE  /\ Concat(bs, reserved).status = "ok"
           /\ Concat(bs, reserved).value.rows = FlattenSeq([k \in 1..m |-> bs[k].rows])
           /\ Concat(bs, reserved).value = [fields |-> Concat(bs, reserved).value.fields,
                                            rows   |-> Concat(bs, reserved).value.rows]
<1> DEFINE names == ConcatNames(bs, reserved)
           U     == {fields[i].name : i \in DOMAIN fields}
           padded(x) == [r \in DOMAIN x.rows |->
                           [c \in ToSet(names) |-> IF c \in Names(x) THEN x.rows[r][c] ELSE Null]]
           f  == [i \in DOMAIN names |-> MergedField(bs, names[i])]
           ss == [i \in DOMAIN bs |-> padded(bs[i])]
           tt == [k \in 1..m |-> bs[k].rows]
           v  == [fields |-> f, rows |-> FlattenSeq(ss)]
<1>1. DOMAIN bs = 1..m /\ \A k \in 1..m : Tabled(bs[k]) /\ bs[k].fields = fields
      BY DEF Alike
<1>2. bs # <<>>
  <2>1. 1 \in DOMAIN bs
        BY <1>1
  <2>2. QED BY <2>1
<1>3. \A i, j \in DOMAIN bs : \A c : TypeOf(bs[i], c) = TypeOf(bs[j], c)
  <2> TAKE i, j \in DOMAIN bs
  <2>1. bs[i].fields = bs[j].fields
        BY <1>1
  <2>2. QED BY <2>1 DEF TypeOf, FieldOf
<1>4. Concat(bs, reserved) = Ok(v)
      BY <1>2, <1>3 DEF Concat, ConcatNames
<1>5. ToSet(names) = U
      BY ConcatNamesAre
<1> HIDE DEF names, f
<1>6. ASSUME NEW k \in 1..m PROVE padded(bs[k]) = bs[k].rows
  <2>1. Names(bs[k]) = U
        BY <1>1 DEF Names
  <2>2. PICK n \in Nat : bs[k].rows = [r \in 1..n |-> [c \in U |-> bs[k].rows[r][c]]]
    <3>1. Tabled(bs[k])
          BY <1>1
    <3>2. \E n \in Nat : bs[k].rows = [r \in 1..n |-> [c \in Names(bs[k]) |-> bs[k].rows[r][c]]]
          BY ONLY <3>1 DEF Tabled
    <3> HIDE DEF U, ss, tt, v, padded
    <3>3. QED BY <2>1, <3>2
  <2>3. padded(bs[k]) = [r \in DOMAIN bs[k].rows |-> [c \in U |-> bs[k].rows[r][c]]]
        BY <1>5, <2>1
  <2>4. DOMAIN bs[k].rows = 1..n
        BY <2>2
  <2>5. QED BY <2>2, <2>3, <2>4
<1> HIDE DEF padded
<1>7. ss = tt
      BY <1>1, <1>6
<1> HIDE DEF ss, tt
<1>8. Concat(bs, reserved) = [status |-> "ok", value |-> v]
      BY <1>4 DEF Ok
<1>9. QED BY <1>7, <1>8 DEF tt

\* Lists of anything are lists of something.
LEMMA ListedLists ==
    ASSUME NEW m \in Nat, NEW ss, ss = [k \in 1..m |-> ss[k]], \A k \in 1..m : IsList(ss[k])
    PROVE  \E U : ss \in Seq(Seq(U))
<1> DEFINE U == UNION {ToSet(ss[k]) : k \in 1..m}
<1>1. ASSUME NEW k \in 1..m PROVE ss[k] \in Seq(U)
  <2> DEFINE t == ss[k]
  <2>1. PICK n \in Nat : DOMAIN t = 1..n /\ t = [i \in 1..n |-> t[i]]
        BY DEF IsList
  <2>2. \A i \in 1..n : t[i] \in ToSet(t)
        BY <2>1 DEF ToSet
  <2>3. \A i \in 1..n : t[i] \in U
        BY <2>2
  <2> HIDE DEF t, U
  <2>4. t \in [1..n -> U]
        BY <2>1, <2>3
  <2>5. t \in Seq(U)
        BY <2>4
  <2>6. QED BY <2>5 DEF t
<1> HIDE DEF U
<1>2. ss \in [1..m -> Seq(U)]
      BY <1>1
<1>3. ss \in Seq(Seq(U))
      BY <1>2
<1>4. QED BY <1>3

\* One list put together is the list.
LEMMA FlattenOne ==
    ASSUME NEW U, NEW ss \in Seq(Seq(U)), Len(ss) = 1
    PROVE  FlattenSeq(ss) = ss[1]
<1>1. DOMAIN ss = 1..1 /\ ss[1] \in Seq(U)
  <2>1. DOMAIN ss = 1..1
        OBVIOUS
  <2>2. 1 \in 1..Len(ss)
        OBVIOUS
  <2>3. QED BY <2>1, <2>2, ElementOfSeq
<1>2. PICK f : Gone(ss, 1, f) /\ FlattenSeq(ss) = f[1]
      BY FlattenSteps
<1> DEFINE none == <<>>
<1>3. f = [k \in 0..1 |-> IF k = 0 THEN none ELSE f[k - 1] \o ss[k]]
      BY <1>2 DEF Gone
<1>4. none \o ss[1] = ss[1]
      BY <1>1, ConcatEmptySeq
<1> HIDE DEF none
<1>5. 0 \in 0..1 /\ 1 \in 0..1 /\ 1 - 1 = 0
      OBVIOUS
<1>6. f[0] = none /\ f[1] = f[1 - 1] \o ss[1]
  <2>1. \A k \in 0..1 : f[k] = IF k = 0 THEN none ELSE f[k - 1] \o ss[k]
        BY <1>3
  <2>2. f[0] = none
        BY <1>5, <2>1
  <2>3. f[1] = f[1 - 1] \o ss[1]
    <3>1. f[1] = IF 1 = 0 THEN none ELSE f[1 - 1] \o ss[1]
          BY <1>5, <2>1
    <3>2. QED BY <3>1
  <2>4. QED BY <2>2, <2>3
<1>7. QED BY <1>2, <1>4, <1>5, <1>6

\* A column of a list of rows, and lists that have each value of it once.
RowColumn(s, c) == [r \in DOMAIN s |-> s[r][c]]
ColumnsApart(ss, c) ==
    /\ \A k \in DOMAIN ss : IsInjective(RowColumn(ss[k], c))
    /\ \A k, l \in DOMAIN ss : k # l => ToSet(RowColumn(ss[k], c)) \cap ToSet(RowColumn(ss[l], c)) = {}

\* A column of lists of rows put together has what their columns have, each once if
\* they have it once.
LEMMA FlatColumn ==
    ASSUME NEW U, NEW ss \in Seq(Seq(U)), NEW c
    PROVE  /\ ToSet(RowColumn(FlattenSeq(ss), c)) = UNION {ToSet(RowColumn(ss[k], c)) : k \in DOMAIN ss}
           /\ ColumnsApart(ss, c) => IsInjective(RowColumn(FlattenSeq(ss), c))
<1> DEFINE m     == Len(ss)
           of(s) == RowColumn(s, c)
           flat  == FlattenSeq(ss)
<1>1. m \in Nat /\ DOMAIN ss = 1..m /\ \A k \in 1..m : ss[k] \in Seq(U)
      BY ElementOfSeq
<1>2. \A k \in 1..m : DOMAIN ss[k] = 1..Len(ss[k]) /\ Len(ss[k]) \in Nat
      BY <1>1
<1>3. PICK o : Lies(ss, m, o, flat)
      BY FlattenLies
<1> HIDE DEF m, flat
<1>4. /\ DOMAIN flat = 1..o[m]
      /\ \A k \in 1..m : \A i \in DOMAIN ss[k] : o[k - 1] + i \in DOMAIN flat /\ flat[o[k - 1] + i] = ss[k][i]
      /\ \A q \in DOMAIN flat : \E k \in 1..m : \E i \in DOMAIN ss[k] : q = o[k - 1] + i
  <2>1. /\ DOMAIN flat = 1..o[m]
        /\ \A k \in 1..m : \A i \in 1..Len(ss[k]) : o[k - 1] + i \in 1..o[m] /\ flat[o[k - 1] + i] = ss[k][i]
        /\ \A q \in 1..o[m] : \E k \in 1..m : \E i \in 1..Len(ss[k]) : q = o[k - 1] + i
        BY ONLY <1>3 DEF Lies
  <2>2. ASSUME NEW k \in 1..m, NEW i \in DOMAIN ss[k]
        PROVE  o[k - 1] + i \in DOMAIN flat /\ flat[o[k - 1] + i] = ss[k][i]
    <3>1. i \in 1..Len(ss[k])
          BY <1>2
    <3>2. QED BY <2>1, <3>1
  <2>3. ASSUME NEW q \in DOMAIN flat PROVE \E k \in 1..m : \E i \in DOMAIN ss[k] : q = o[k - 1] + i
    <3>1. PICK k \in 1..m : \E i \in 1..Len(ss[k]) : q = o[k - 1] + i
          BY <2>1
    <3>2. QED BY <1>2, <3>1
  <2>4. QED BY <2>1, <2>2, <2>3
<1>5. \A s, x : x \in ToSet(of(s)) <=> \E r \in DOMAIN s : x = s[r][c]
      BY DEF ToSet, RowColumn
<1>6. ToSet(of(flat)) = UNION {ToSet(of(ss[k])) : k \in DOMAIN ss}
  <2> HIDE DEF of
  <2>1. ASSUME NEW x \in ToSet(of(flat)) PROVE \E k \in DOMAIN ss : x \in ToSet(of(ss[k]))
    <3>1. PICK q \in DOMAIN flat : x = flat[q][c]
          BY <1>5
    <3>2. PICK k \in 1..m : \E i \in DOMAIN ss[k] : q = o[k - 1] + i
          BY <1>4
    <3>3. PICK i \in DOMAIN ss[k] : q = o[k - 1] + i
          BY <3>2
    <3>4. x = ss[k][i][c]
          BY <1>4, <3>1, <3>3
    <3>5. QED BY <1>1, <1>5, <3>4
  <2>2. ASSUME NEW k \in DOMAIN ss, NEW x \in ToSet(of(ss[k])) PROVE x \in ToSet(of(flat))
    <3>1. PICK i \in DOMAIN ss[k] : x = ss[k][i][c]
          BY <1>5
    <3>2. o[k - 1] + i \in DOMAIN flat /\ flat[o[k - 1] + i] = ss[k][i]
          BY <1>1, <1>4
    <3>3. QED BY <1>5, <3>1, <3>2
  <2>3. QED BY <2>1, <2>2
<1>7. ASSUME \A k \in DOMAIN ss : IsInjective(of(ss[k])),
             \A k, l \in DOMAIN ss : k # l => ToSet(of(ss[k])) \cap ToSet(of(ss[l])) = {},
             NEW q \in DOMAIN flat, NEW r \in DOMAIN flat, flat[q][c] = flat[r][c]
      PROVE  q = r
  <2>1. PICK k \in 1..m : \E i \in DOMAIN ss[k] : q = o[k - 1] + i
        BY <1>4
  <2>2. PICK i \in DOMAIN ss[k] : q = o[k - 1] + i
        BY <2>1
  <2>3. PICK l \in 1..m : \E j \in DOMAIN ss[l] : r = o[l - 1] + j
        BY <1>4
  <2>4. PICK j \in DOMAIN ss[l] : r = o[l - 1] + j
        BY <2>3
  <2>5. flat[q] = ss[k][i] /\ flat[r] = ss[l][j]
        BY <1>4, <2>2, <2>4
  <2>6. ss[k][i][c] = ss[l][j][c]
        BY <1>7, <2>5
  <2>7. k = l
    <3> HIDE DEF of
    <3>1. ss[k][i][c] \in ToSet(of(ss[k])) /\ ss[l][j][c] \in ToSet(of(ss[l]))
          BY <1>5
    <3>2. QED BY <1>1, <1>7, <2>6, <3>1
  <2>8. i = j
    <3>1. IsInjective(of(ss[k]))
          BY <1>1, <1>7
    <3>2. \A x, y \in DOMAIN ss[k] : ss[k][x][c] = ss[k][y][c] => x = y
          BY <3>1 DEF IsInjective, RowColumn
    <3>3. j \in DOMAIN ss[k] /\ ss[k][i][c] = ss[k][j][c]
          BY <2>6, <2>7
    <3>4. QED BY <3>2, <3>3
  <2>9. QED BY <2>2, <2>4, <2>7, <2>8
<1>8. ColumnsApart(ss, c) => IsInjective(of(flat))
      BY <1>7 DEF IsInjective, RowColumn, ColumnsApart
<1>9. QED BY <1>6, <1>8 DEF flat

\* The frames have data of the same fields, the reserved ones among them.
FramesAlike(frames, m, fields, reserved) ==
    /\ DOMAIN frames = 1..m
    /\ \A k \in 1..m : Tabled(frames[k].data) /\ frames[k].data.fields = fields
    /\ ToSet(reserved) \subseteq {fields[i].name : i \in DOMAIN fields}
RowLists(frames, m) == [k \in 1..m |-> frames[k].data.rows]

\* Then their batches are alike, and their rows are lists.
LEMMA BatchesAlike ==
    ASSUME NEW m \in Nat \ {0}, NEW frames, NEW fields, NEW reserved, reserved \in {NodeReserved, EdgeReserved},
           FramesAlike(frames, m, fields, reserved)
    PROVE  /\ Alike([i \in DOMAIN frames |-> frames[i].data], m, fields, reserved)
           /\ \E U : RowLists(frames, m) \in Seq(Seq(U))
           /\ Len(frames) = m
<1> DEFINE bs == [i \in DOMAIN frames |-> frames[i].data]
           ss == RowLists(frames, m)
<1>1. /\ DOMAIN frames = 1..m
      /\ \A k \in 1..m : Tabled(frames[k].data) /\ frames[k].data.fields = fields
      /\ ToSet(reserved) \subseteq {fields[i].name : i \in DOMAIN fields}
      BY DEF FramesAlike
<1>2. Len(frames) = m
      BY <1>1, ListLen
<1>3. reserved \in Seq(ToSet(reserved))
      BY ReservedAre
<1>4. DOMAIN bs = 1..m /\ \A k \in 1..m : bs[k] = frames[k].data
      BY <1>1
<1> HIDE DEF bs
<1>5. Alike(bs, m, fields, reserved)
      BY <1>1, <1>3, <1>4 DEF Alike
<1>6. m \in Nat /\ ss = [k \in 1..m |-> ss[k]] /\ \A k \in 1..m : ss[k] = frames[k].data.rows
      BY DEF RowLists
<1> HIDE DEF ss
<1>7. ASSUME NEW k \in 1..m PROVE IsList(ss[k])
  <2> DEFINE b == frames[k].data
             t == b.rows
  <2>1. Tabled(b)
        BY <1>1
  <2>2. PICK n \in Nat : t = [r \in 1..n |-> [c \in Names(b) |-> t[r][c]]]
        BY <2>1 DEF Tabled
  <2>3. ss[k] = t
        BY <1>6
  <2> HIDE DEF b, t
  <2>4. DOMAIN t = 1..n /\ t = [r \in 1..n |-> t[r]]
        BY <2>2
  <2>5. QED BY <2>3, <2>4 DEF IsList
<1>8. \E U : ss \in Seq(Seq(U))
      BY <1>6, <1>7, ListedLists
<1>9. QED BY <1>2, <1>5, <1>8 DEF bs, ss

\* Node frames of the same fields without a node in common are put together: their
\* rows are, and their ids.
LEMMA ConcatNodesIs ==
    ASSUME NEW m \in Nat \ {0}, NEW frames, NEW fields, FramesAlike(frames, m, fields, NodeReserved),
           \A k \in 1..m : NodesBuilt(frames[k]),
           \A k, l \in 1..m : k # l => ToSet(Column(frames[k].data, "_id")) \cap ToSet(Column(frames[l].data, "_id")) = {}
    PROVE  /\ ConcatNodes(frames).status = "ok"
           /\ NodesBuilt(ConcatNodes(frames).value)
           /\ ConcatNodes(frames).value.data.rows = FlattenSeq(RowLists(frames, m))
           /\ ToSet(Column(ConcatNodes(frames).value.data, "_id")) =
                 UNION {ToSet(Column(frames[k].data, "_id")) : k \in 1..m}
<1> DEFINE bs    == [i \in DOMAIN frames |-> frames[i].data]
           ss    == RowLists(frames, m)
           c     == Concat(bs, NodeReserved)
           v     == c.value
           of(s) == RowColumn(s, "_id")
           flat  == FlattenSeq(ss)
<1>1. DOMAIN frames = 1..m /\ Len(frames) = m /\ Alike(bs, m, fields, NodeReserved)
      BY BatchesAlike DEF FramesAlike
<1>2. PICK U : ss \in Seq(Seq(U))
      BY BatchesAlike
<1>3. DOMAIN ss = 1..m /\ Len(ss) = m /\ \A k \in 1..m : ss[k] = frames[k].data.rows /\ ss[k] = bs[k].rows
  <2>1. DOMAIN ss = 1..m /\ \A k \in 1..m : ss[k] = frames[k].data.rows /\ ss[k] = bs[k].rows
        BY <1>1 DEF RowLists
  <2>2. m \in Nat
        OBVIOUS
  <2> HIDE DEF ss
  <2>3. Len(ss) = m
        BY <2>1, <2>2, ListLen
  <2>4. QED BY <2>1, <2>3
<1>4. [k \in 1..m |-> bs[k].rows] = ss
  <2>1. \A k \in 1..m : bs[k].rows = frames[k].data.rows
        BY <1>1
  <2> HIDE DEF bs
  <2>2. QED BY <2>1 DEF RowLists
<1>5. /\ c.status = "ok" /\ v.rows = flat /\ v = [fields |-> v.fields, rows |-> v.rows]
  <2> HIDE DEF bs, ss
  <2>1. QED BY <1>1, <1>4, ConcatIs
<1>6. \A k \in 1..m : of(ss[k]) = Column(frames[k].data, "_id")
      BY <1>3 DEF Column, RowColumn
<1>7. ConcatNodes(frames) =
          IF m = 1 THEN Ok(frames[1])
          ELSE IF c.status = "ok" THEN (IF IsInjective(Column(v, "_id")) THEN Ok(NodesOf(v)) ELSE Err("DuplicateNodeId"))
          ELSE c
      BY <1>1 DEF ConcatNodes, Then
<1> HIDE DEF ss, c, v, bs
<1>8. ColumnsApart(ss, "_id")
  <2>1. ASSUME NEW k \in DOMAIN ss PROVE IsInjective(RowColumn(ss[k], "_id"))
    <3>1. k \in 1..m
          BY <1>3
    <3>2. NodesBuilt(frames[k]) /\ RowColumn(ss[k], "_id") = Column(frames[k].data, "_id")
          BY <1>6, <3>1
    <3>3. QED BY <3>2 DEF NodesBuilt
  <2>2. ASSUME NEW k \in DOMAIN ss, NEW l \in DOMAIN ss, k # l
        PROVE  ToSet(RowColumn(ss[k], "_id")) \cap ToSet(RowColumn(ss[l], "_id")) = {}
    <3>1. k \in 1..m /\ l \in 1..m
          BY <1>3
    <3>2. /\ RowColumn(ss[k], "_id") = Column(frames[k].data, "_id")
          /\ RowColumn(ss[l], "_id") = Column(frames[l].data, "_id")
          BY <1>6, <3>1
    <3>3. QED BY <2>2, <3>1, <3>2
  <2>3. QED BY <2>1, <2>2 DEF ColumnsApart
<1>9. /\ ToSet(of(flat)) = UNION {ToSet(of(ss[k])) : k \in DOMAIN ss}
      /\ IsInjective(of(flat))
      BY ONLY <1>2, <1>8, FlatColumn
<1>10. UNION {ToSet(of(ss[k])) : k \in DOMAIN ss} = UNION {ToSet(Column(frames[k].data, "_id")) : k \in 1..m}
  <2> HIDE DEF of
  <2>1. \A k \in 1..m : ToSet(of(ss[k])) = ToSet(Column(frames[k].data, "_id"))
        BY <1>6
  <2>2. QED BY <1>3, <2>1
<1>11. flat \in Seq(U)
       BY <1>2, FlattenHas
<1>12. Column(v, "_id") = of(flat)
       BY <1>5 DEF Column, RowColumn
<1> HIDE DEF flat, of
<1>13. CASE m = 1
  <2>1. ConcatNodes(frames).status = "ok" /\ ConcatNodes(frames).value = frames[1]
        BY <1>7, <1>13 DEF Ok
  <2>2. 1 \in 1..m /\ NodesBuilt(frames[1])
        BY <1>13
  <2>3. flat = ss[1]
        BY <1>2, <1>3, <1>13, FlattenOne DEF flat
  <2>4. frames[1].data.rows = flat
        BY <1>3, <2>2, <2>3
  <2>5. of(flat) = Column(frames[1].data, "_id")
        BY <1>6, <2>2, <2>3
  <2>6. QED BY <1>9, <1>10, <2>1, <2>2, <2>4, <2>5 DEF flat, ss
<1>14. CASE m # 1
  <2>1. ConcatNodes(frames).status = "ok" /\ ConcatNodes(frames).value = NodesOf(v)
        BY <1>5, <1>7, <1>9, <1>12, <1>14 DEF Ok
  <2>2. Batch(v)
    <3>1. DOMAIN flat = 1..Len(flat) /\ Len(flat) \in Nat
          BY <1>11
    <3>2. QED BY <1>5, <3>1 DEF Batch
  <2>3. NodesBuilt(NodesOf(v)) /\ NodesOf(v).data = v
        BY <1>9, <1>12, <2>2 DEF NodesBuilt, NodesOf
  <2>4. QED BY <1>5, <1>9, <1>10, <1>12, <2>1, <2>3 DEF flat, ss
<1>15. QED BY <1>13, <1>14

\* Edge frames of the same fields are put together.
LEMMA ConcatEdgesIs ==
    ASSUME NEW m \in Nat \ {0}, NEW frames, NEW fields, FramesAlike(frames, m, fields, EdgeReserved),
           \A k \in 1..m : Built(frames[k])
    PROVE  /\ ConcatEdges(frames).status = "ok"
           /\ Built(ConcatEdges(frames).value)
           /\ ConcatEdges(frames).value.data.rows = FlattenSeq(RowLists(frames, m))
<1> DEFINE bs    == [i \in DOMAIN frames |-> frames[i].data]
           ss    == RowLists(frames, m)
           c     == Concat(bs, EdgeReserved)
           v     == c.value
           flat  == FlattenSeq(ss)
<1>1. DOMAIN frames = 1..m /\ Len(frames) = m /\ Alike(bs, m, fields, EdgeReserved)
      BY BatchesAlike DEF FramesAlike
<1>2. PICK U : ss \in Seq(Seq(U))
      BY BatchesAlike
<1>3. DOMAIN ss = 1..m /\ Len(ss) = m /\ \A k \in 1..m : ss[k] = frames[k].data.rows
  <2>1. DOMAIN ss = 1..m /\ \A k \in 1..m : ss[k] = frames[k].data.rows
        BY <1>1 DEF RowLists
  <2>2. m \in Nat
        OBVIOUS
  <2> HIDE DEF ss
  <2>3. Len(ss) = m
        BY <2>1, <2>2, ListLen
  <2>4. QED BY <2>1, <2>3
<1>4. [k \in 1..m |-> bs[k].rows] = ss
  <2>1. \A k \in 1..m : bs[k].rows = frames[k].data.rows
        BY <1>1
  <2> HIDE DEF bs
  <2>2. QED BY <2>1 DEF RowLists
<1>5. /\ c.status = "ok" /\ v.rows = flat /\ v = [fields |-> v.fields, rows |-> v.rows]
  <2> HIDE DEF bs, ss
  <2>1. QED BY <1>1, <1>4, ConcatIs
<1>6. ConcatEdges(frames) =
          IF m = 1 THEN Ok(frames[1]) ELSE IF c.status = "ok" THEN Ok(EdgesOf(v)) ELSE c
      BY <1>1 DEF ConcatEdges, Then
<1> HIDE DEF ss, c, v, bs
<1>7. flat \in Seq(U)
      BY <1>2, FlattenHas
<1> HIDE DEF flat
<1>8. CASE m = 1
  <2>1. ConcatEdges(frames).status = "ok" /\ ConcatEdges(frames).value = frames[1]
        BY <1>6, <1>8 DEF Ok
  <2>2. 1 \in 1..m /\ Built(frames[1])
        BY <1>8
  <2>3. flat = ss[1]
        BY <1>2, <1>3, <1>8, FlattenOne DEF flat
  <2>4. frames[1].data.rows = flat
        BY <1>3, <2>2, <2>3
  <2>5. QED BY <2>1, <2>2, <2>4 DEF flat, ss
<1>9. CASE m # 1
  <2>1. ConcatEdges(frames).status = "ok" /\ ConcatEdges(frames).value = EdgesOf(v)
        BY <1>5, <1>6, <1>9 DEF Ok
  <2>2. Batch(v)
    <3>1. DOMAIN flat = 1..Len(flat) /\ Len(flat) \in Nat
          BY <1>7
    <3>2. QED BY <1>5, <3>1 DEF Batch
  <2>3. Built(EdgesOf(v)) /\ EdgesOf(v).data = v
        BY <2>2 DEF Built, EdgesOf
  <2>4. QED BY <1>5, <2>1, <2>3 DEF flat, ss
<1>10. QED BY <1>8, <1>9

-----------------------------------------------------------------------------
(* Shards.                                                                  *)

\* A graph whose batches have a value in every row for each field, the reserved among them.
FullGraph(g) ==
    /\ WellBuilt(g) /\ Tabled(g.nodes.data) /\ Tabled(g.edges.data)
    /\ ToSet(NodeReserved) \subseteq Names(g.nodes.data)
    /\ ToSet(EdgeReserved) \subseteq Names(g.edges.data)
\* h is such a graph too, with the fields of g.
LikeGraph(h, g) == FullGraph(h) /\ h.nodes.data.fields = g.nodes.data.fields /\ h.edges.data.fields = g.edges.data.fields

\* A filter leaves whole rows and all fields.
LEMMA FilterTabled ==
    ASSUME NEW b, Tabled(b), NEW mask, DOMAIN mask = DOMAIN b.rows
    PROVE  Tabled(FilterRows(b, mask)) /\ FilterRows(b, mask).fields = b.fields
<1> DEFINE N == Names(b)
           S == {r \in DOMAIN mask : mask[r]}
           p == Picked(b.rows, S)
           f == FilterRows(b, mask)
<1>1. b = [fields |-> b.fields, rows |-> b.rows] /\ \E n \in Nat : DOMAIN b.fields = 1..n
      BY DEF Tabled
<1>2. PICK m \in Nat : b.rows = [r \in 1..m |-> [c \in N |-> b.rows[r][c]]]
      BY DEF Tabled
<1>3. DOMAIN b.rows = 1..m
      BY <1>2
<1>4. S \subseteq 1..m
      BY <1>3
<1>5. PICK n, at : PickedAt(S, n, at)
  <2> HIDE DEF S
  <2>1. QED BY <1>4, PickedIs
<1>6. n \in Nat /\ at \in [1..n -> S] /\ p = [i \in 1..n |-> b.rows[at[i]]]
  <2> HIDE DEF S
  <2>1. QED BY <1>5 DEF PickedAt
<1>7. \A i \in 1..n : at[i] \in 1..m
      BY <1>4, <1>6
<1> HIDE DEF S
<1>8. f = [b EXCEPT !.rows = p]
      BY DEF FilterRows, S
<1> HIDE DEF f, p, N
<1>9. f = [fields |-> b.fields, rows |-> p]
      BY <1>1, <1>8
<1>10. f.fields = b.fields /\ f.rows = p /\ f = [fields |-> f.fields, rows |-> f.rows]
      BY <1>9
<1>11. Names(f) = N
      BY <1>10 DEF Names, N
<1>12. \A i \in 1..n : p[i] = [c \in N |-> p[i][c]]
  <2> TAKE i \in 1..n
  <2>1. p[i] = b.rows[at[i]]
        BY <1>6
  <2>2. b.rows[at[i]] = [c \in N |-> b.rows[at[i]][c]]
        BY <1>2, <1>7
  <2>3. QED BY <2>1, <2>2
<1>13. p = [i \in 1..n |-> [c \in N |-> p[i][c]]]
  <2>1. p = [i \in 1..n |-> p[i]]
        BY <1>6
  <2>2. QED BY <1>12, <2>1
<1>14. \E k \in Nat : f.rows = [r \in 1..k |-> [c \in Names(f) |-> f.rows[r][c]]]
      BY <1>6, <1>10, <1>11, <1>13
<1>15. Tabled(f)
      BY <1>1, <1>10, <1>14 DEF Tabled
<1>16. QED BY <1>10, <1>15 DEF f

\* So do the nodes of a set and the edges of some rows.
LEMMA PartsTabled ==
    ASSUME NEW g, FullGraph(g), NEW X, NEW R
    PROVE  /\ NodesBuilt(NodesIn(g.nodes, X)) /\ Built(EdgesAt(g.edges, R))
           /\ Tabled(NodesIn(g.nodes, X).data) /\ NodesIn(g.nodes, X).data.fields = g.nodes.data.fields
           /\ Tabled(EdgesAt(g.edges, R).data) /\ EdgesAt(g.edges, R).data.fields = g.edges.data.fields
<1> DEFINE b  == g.nodes.data
           d  == g.edges.data
           mb == [r \in DOMAIN b.rows |-> b.rows[r]["_id"] \in X]
           md == [r \in DOMAIN d.rows |-> r \in R]
<1>1. NodesBuilt(g.nodes) /\ Built(g.edges) /\ Tabled(b) /\ Tabled(d)
      BY WellBuiltHas DEF FullGraph
<1>2. NodesIn(g.nodes, X).data = FilterRows(b, mb) /\ EdgesAt(g.edges, R) = EdgesOf(FilterRows(d, md))
      BY DEF NodesIn, NodesOf, EdgesAt
<1>3. EdgesAt(g.edges, R).data = FilterRows(d, md)
      BY <1>2 DEF EdgesOf
<1>4. DOMAIN mb = DOMAIN b.rows /\ DOMAIN md = DOMAIN d.rows
      OBVIOUS
<1> HIDE DEF mb, md
<1>5. Tabled(FilterRows(b, mb)) /\ FilterRows(b, mb).fields = b.fields
      BY <1>1, <1>4, FilterTabled
<1>6. Tabled(FilterRows(d, md)) /\ FilterRows(d, md).fields = d.fields
      BY <1>1, <1>4, FilterTabled
<1>7. NodesBuilt(NodesIn(g.nodes, X))
      BY <1>1, NodesInBuilt
<1>8. Built(EdgesOf(FilterRows(d, md)))
      BY <1>1, <1>4, EdgesFiltered
<1>9. QED BY <1>2, <1>3, <1>5, <1>6, <1>7, <1>8

\* A part of a graph that is a graph is full like it.
LEMMA PartLike ==
    ASSUME NEW g, FullGraph(g), NEW X, NEW R,
           NewGraph(NodesIn(g.nodes, X), EdgesAt(g.edges, R)).status = "ok"
    PROVE  LikeGraph(NewGraph(NodesIn(g.nodes, X), EdgesAt(g.edges, R)).value, g)
<1> DEFINE nodes == NodesIn(g.nodes, X)
           edges == EdgesAt(g.edges, R)
           h     == NewGraph(nodes, edges).value
<1>1. /\ NodesBuilt(nodes) /\ Built(edges)
      /\ Tabled(nodes.data) /\ nodes.data.fields = g.nodes.data.fields
      /\ Tabled(edges.data) /\ edges.data.fields = g.edges.data.fields
      BY PartsTabled
<1>2. NewGraph(nodes, edges).status = "ok"
      OBVIOUS
<1> HIDE DEF nodes, edges
<1>3. h = Unchecked(nodes, edges) /\ WellBuilt(h)
      BY <1>2, <1>1, GraphBuilt
<1>4. h.nodes = nodes /\ h.edges = edges
      BY <1>3 DEF Unchecked
<1>5. ToSet(NodeReserved) \subseteq Names(nodes.data) /\ ToSet(EdgeReserved) \subseteq Names(edges.data)
      BY <1>1 DEF FullGraph, Names
<1> HIDE DEF h
<1>6. LikeGraph(h, g)
      BY <1>1, <1>3, <1>4, <1>5 DEF LikeGraph, FullGraph
<1>7. QED BY <1>6 DEF h, nodes, edges

\* p is in parts that are graphs like g, with a boundary of edges like those of g.
InParts(p, g, n, shard) ==
    /\ p.shardOf = shard /\ p.shards = [k \in 1..n |-> p.shards[k]]
    /\ \A k \in 1..n : LikeGraph(p.shards[k], g)
    /\ Built(p.boundary) /\ Tabled(p.boundary.data) /\ p.boundary.data.fields = g.edges.data.fields

\* partition makes such parts.
LEMMA PartitionParts ==
    ASSUME NEW g, FullGraph(g), AllIds(g) \subseteq DOMAIN Hash, NEW n \in Nat \ {0}, NEW method \in Methods
    PROVE  InParts(Partition(g, n, method).value, g, n, Assigned(g, n, method))
<1> DEFINE shard    == Assigned(g, n, method)
           rows     == DOMAIN EdgeRows(g)
           sides(r) == <<shard[EdgeRows(g)[r]["_src"]], shard[EdgeRows(g)[r]["_dst"]]>>
           X(k)     == {x \in DOMAIN shard : shard[x] = k}
           R(k)     == {r \in rows : sides(r) = <<k, k>>}
           made(k)  == NewGraph(NodesIn(g.nodes, X(k)), EdgesAt(g.edges, R(k)))
           shards   == [k \in 1..n |-> made(k)]
           graphs   == [k \in DOMAIN shards |-> shards[k].value]
           B        == {r \in rows : sides(r)[1] # sides(r)[2]}
           boundary == EdgesAt(g.edges, B)
           p        == [shards |-> graphs, boundary |-> boundary, shardOf |-> shard]
<1>1. WellBuilt(g) /\ IsFrame(g)
      BY WellBuiltFrame DEF FullGraph
<1>2. DOMAIN shard = AllIds(g)
      BY <1>1, AssignedTotal
<1>3. Partition(g, n, method) = Then(Collected(shards), LAMBDA v :
          Ok([shards |-> v, boundary |-> boundary, shardOf |-> shard]))
      BY DEF Partition
<1> HIDE DEF shard
<1>4. ASSUME NEW k \in 1..n PROVE made(k).status = "ok" /\ LikeGraph(made(k).value, g)
  <2>1. \A r \in R(k) : EdgeRows(g)[r]["_src"] \in X(k) /\ EdgeRows(g)[r]["_dst"] \in X(k)
        BY <1>1, <1>2, EndsAreNodes
  <2>2. R(k) \in SUBSET DOMAIN EdgeRows(g)
        OBVIOUS
  <2> HIDE DEF R, X
  <2>3. made(k).status = "ok"
        BY <1>1, <2>1, <2>2, CutOut
  <2>4. QED BY <2>3, PartLike
<1>5. Built(boundary) /\ Tabled(boundary.data) /\ boundary.data.fields = g.edges.data.fields
  <2> HIDE DEF B
  <2>1. QED BY PartsTabled
<1> HIDE DEF made, boundary
<1>6. Collected(shards) = Ok(graphs)
  <2>1. \A k \in DOMAIN shards : shards[k].status = "ok"
        BY <1>4
  <2> HIDE DEF shards
  <2>2. QED BY <2>1, AllCollected
<1>7. graphs = [k \in 1..n |-> graphs[k]] /\ \A k \in 1..n : graphs[k] = made(k).value
      OBVIOUS
<1> HIDE DEF shards, graphs
<1>8. Partition(g, n, method) = [status |-> "ok", value |-> p]
      BY <1>3, <1>6 DEF Then, Ok
<1>9. InParts(p, g, n, shard)
      BY <1>4, <1>5, <1>7 DEF InParts
<1> HIDE DEF p
<1>10. QED BY <1>8, <1>9 DEF shard

\* What some graphs have, as lists of rows, with those of a border behind.
NodeTables(gs, n) == [k \in 1..n |-> gs[k].nodes.data.rows]
EdgeTables(gs, n, border) == Append([k \in 1..n |-> EdgeRows(gs[k])], border.data.rows)

\* The nodes of a graph are parted among its shards.
LEMMA NodesParted ==
    ASSUME NEW g, NEW n \in Nat \ {0}, NEW p, CutsUp(p, g, n)
    PROVE  \E cut : Parted(NodeTables(p.shards, n), g.nodes.data.rows, n, cut)
<1> DEFINE s   == g.nodes.data.rows
           cut == [k \in 1..n |-> Members(g, HomeOf(p.shardOf, k))]
           ts  == NodeTables(p.shards, n)
<1>1. /\ DOMAIN p.shardOf = AllIds(g) /\ \A x \in AllIds(g) : p.shardOf[x] \in 1..n
      /\ \A k \in 1..n : IsPart(p.shards[k], g, HomeOf(p.shardOf, k), Inside(g, p.shardOf, k))
      BY DEF CutsUp
<1>2. DOMAIN ts = 1..n
      BY DEF NodeTables
<1>3. \A k \in 1..n : ts[k] = p.shards[k].nodes.data.rows /\ cut[k] = Members(g, HomeOf(p.shardOf, k))
      BY DEF NodeTables
<1>4. \A r \in DOMAIN s : s[r]["_id"] \in AllIds(g)
      BY DEF AllIds, IdsOf, Column, ToSet
<1>5. \A k \in 1..n : \A r : r \in cut[k] <=> r \in DOMAIN s /\ p.shardOf[s[r]["_id"]] = k
      BY <1>1, <1>3, <1>4 DEF Members, HomeOf
<1>6. \A k \in 1..n : Keeps(ts[k], s, cut[k])
      BY <1>1, <1>3 DEF IsPart
<1> HIDE DEF s, cut, ts
<1>7. Parted(ts, s, n, cut)
  <2>1. ASSUME NEW k \in 1..n PROVE cut[k] \subseteq DOMAIN s /\ Keeps(ts[k], s, cut[k])
        BY <1>5, <1>6
  <2>2. ASSUME NEW r \in DOMAIN s PROVE \E k \in 1..n : r \in cut[k]
        BY <1>1, <1>4, <1>5
  <2>3. \A k, l \in 1..n : \A r \in cut[k] : r \in cut[l] => k = l
        BY <1>5
  <2>4. QED BY <1>2, <2>1, <2>2, <2>3 DEF Parted
<1>8. QED BY <1>7 DEF ts, s

\* The rows of edges, one list after the other.
AreEdges(ts, gs, n, border) ==
    /\ DOMAIN ts = 1..(n + 1) /\ ts = [k \in 1..(n + 1) |-> ts[k]] /\ Len(ts) = n + 1
    /\ ts[n + 1] = border.data.rows
    /\ \A k \in 1..n : ts[k] = EdgeRows(gs[k])

\* EdgeTables makes such a list.
LEMMA EdgeTablesAre ==
    ASSUME NEW gs, NEW n \in Nat, NEW border
    PROVE  AreEdges(EdgeTables(gs, n, border), gs, n, border)
<1> DEFINE b  == border.data.rows
           et == [k \in 1..n |-> EdgeRows(gs[k])]
           V  == {et[k] : k \in 1..n} \cup {b}
<1>1. b \in V /\ DOMAIN et = 1..n /\ et = [k \in 1..n |-> et[k]] /\ \A k \in 1..n : et[k] \in V /\ et[k] = EdgeRows(gs[k])
      OBVIOUS
<1> HIDE DEF V, b, et
<1>2. et \in [1..n -> V]
      BY <1>1
<1>3. et \in Seq(V) /\ Len(et) = n
      BY <1>1, <1>2, ListLen
<1>4. /\ Append(et, b) \in Seq(V) /\ Len(Append(et, b)) = n + 1
      /\ Append(et, b)[n + 1] = b /\ \A k \in 1..n : Append(et, b)[k] = et[k]
      BY <1>1, <1>3, AppendProperties
<1>5. DOMAIN Append(et, b) = 1..(n + 1) /\ Append(et, b) = [k \in 1..(n + 1) |-> Append(et, b)[k]]
  <2> DEFINE a == Append(et, b)
  <2>1. a \in Seq(V) /\ Len(a) = n + 1
        BY <1>4
  <2> HIDE DEF a
  <2>2. DOMAIN a = 1..(n + 1) /\ a \in [1..(n + 1) -> V]
        BY ONLY <2>1, LenProperties
  <2>3. QED BY <2>2 DEF a
<1>6. EdgeTables(gs, n, border) = Append(et, b)
      BY DEF EdgeTables, et, b
<1>7. QED BY <1>1, <1>4, <1>5, <1>6 DEF b, AreEdges

\* Its edges are, among its shards and the boundary.
LEMMA EdgesParted ==
    ASSUME NEW g, IsFrame(g), NEW n \in Nat \ {0}, NEW p, CutsUp(p, g, n)
    PROVE  \E cut : Parted(EdgeTables(p.shards, n, p.boundary), EdgeRows(g), n + 1, cut)
<1> DEFINE s   == EdgeRows(g)
           src(r) == p.shardOf[s[r]["_src"]]
           dst(r) == p.shardOf[s[r]["_dst"]]
           cut == [k \in 1..(n + 1) |-> IF k <= n THEN Inside(g, p.shardOf, k) ELSE Between(g, p.shardOf)]
           ts  == EdgeTables(p.shards, n, p.boundary)
<1>1. /\ DOMAIN p.shardOf = AllIds(g) /\ \A x \in AllIds(g) : p.shardOf[x] \in 1..n
      /\ \A k \in 1..n : IsPart(p.shards[k], g, HomeOf(p.shardOf, k), Inside(g, p.shardOf, k))
      /\ Keeps(p.boundary.data.rows, s, Between(g, p.shardOf))
      BY DEF CutsUp
<1>2. /\ DOMAIN ts = 1..(n + 1) /\ ts[n + 1] = p.boundary.data.rows
      /\ \A k \in 1..n : ts[k] = EdgeRows(p.shards[k])
  <2>1. AreEdges(EdgeTables(p.shards, n, p.boundary), p.shards, n, p.boundary)
        BY EdgeTablesAre
  <2>2. QED BY <2>1 DEF AreEdges
<1>3. \A r \in DOMAIN s : src(r) \in 1..n /\ dst(r) \in 1..n
      BY <1>1, EndsAreNodes
<1>4. \A k \in 1..(n + 1) : (k \in 1..n /\ cut[k] = Inside(g, p.shardOf, k)) \/ (k = n + 1 /\ cut[k] = Between(g, p.shardOf))
      OBVIOUS
<1>5. \A k : \A r : r \in Inside(g, p.shardOf, k) <=> r \in DOMAIN s /\ src(r) = k /\ dst(r) = k
      BY DEF Inside
<1>6. \A r : r \in Between(g, p.shardOf) <=> r \in DOMAIN s /\ src(r) # dst(r)
      BY DEF Between
<1> HIDE DEF s, cut, ts, src, dst
<1>7. \A k \in 1..(n + 1) : Keeps(ts[k], s, cut[k])
      BY <1>1, <1>2, <1>4 DEF IsPart, s
<1>8. Parted(ts, s, n + 1, cut)
  <2>1. ASSUME NEW k \in 1..(n + 1) PROVE cut[k] \subseteq DOMAIN s /\ Keeps(ts[k], s, cut[k])
        BY <1>4, <1>5, <1>6, <1>7
  <2>2. ASSUME NEW r \in DOMAIN s PROVE \E k \in 1..(n + 1) : r \in cut[k]
    <3>1. CASE src(r) = dst(r)
      <4>1. src(r) \in 1..n /\ src(r) \in 1..(n + 1) /\ src(r) # n + 1
            BY <1>3
      <4>2. r \in cut[src(r)]
            BY <1>4, <1>5, <3>1, <4>1
      <4>3. QED BY <4>1, <4>2
    <3>2. CASE src(r) # dst(r)
      <4>1. n + 1 \in 1..(n + 1) /\ n + 1 \notin 1..n
            OBVIOUS
      <4>2. r \in cut[n + 1]
            BY <1>4, <1>6, <3>2, <4>1
      <4>3. QED BY <4>1, <4>2
    <3>3. QED BY <3>1, <3>2
  <2>3. ASSUME NEW k \in 1..(n + 1), NEW l \in 1..(n + 1), NEW r \in cut[k], r \in cut[l] PROVE k = l
        BY <1>4, <1>5, <1>6, <2>3
  <2>4. QED BY <1>2, <2>1, <2>2, <2>3 DEF Parted
<1>9. QED BY <1>8 DEF ts, s

\* A list is parted into itself.
LEMMA PartedWhole ==
    ASSUME NEW w \in Nat, NEW s, DOMAIN s = 1..w, s = [r \in 1..w |-> s[r]]
    PROVE  \E cut : Parted(<<s>>, s, 1, cut)
<1> DEFINE Q   == 1..w
           at  == [r \in Q |-> r]
           cut == [k \in 1..1 |-> Q]
           ts  == <<s>>
<1>1. DOMAIN ts = 1..1 /\ ts[1] = s /\ cut[1] = Q
      OBVIOUS
<1>2. Keeps(s, s, Q)
  <2>1. at \in [1..w -> Q] /\ \A r \in 1..w : at[r] = r
        OBVIOUS
  <2>2. s = [r \in 1..w |-> s[at[r]]]
        OBVIOUS
  <2> HIDE DEF at
  <2>3. /\ \A i, j \in 1..w : i < j => at[i] < at[j]
        /\ \A r \in Q : \E i \in 1..w : at[i] = r
        BY <2>1
  <2>4. QED BY <2>1, <2>2, <2>3 DEF Keeps
<1>3. DOMAIN s = Q
      OBVIOUS
<1>4. \A k \in 1..1 : k = 1
      OBVIOUS
<1> HIDE DEF ts, cut, Q
<1>5. Parted(ts, s, 1, cut)
      BY <1>1, <1>2, <1>3, <1>4 DEF Parted
<1>6. QED BY <1>5 DEF ts

\* Where a list is parted, each of its rows is as often as it was.
LEMMA PartedTimes ==
    ASSUME NEW w \in Nat, NEW s, DOMAIN s = 1..w, NEW m \in Nat, NEW tables, NEW cut, Parted(tables, s, m, cut),
           NEW row
    PROVE  Cardinality(SpotsOf(row, tables)) = Cardinality({r \in DOMAIN s : s[r] = row})
<1>1. PICK at : TakenFrom(tables, s, at)
      BY PartedRows
<1>2. QED BY <1>1, SpotsAre

\* What Joined makes of graphs and a border.
IsJoined(j, gs, n, border) ==
    /\ j.status = "ok"
    /\ NodesBuilt(j.value.nodes)
    /\ ToSet(Column(j.value.nodes.data, "_id")) = UNION {AllIds(gs[k]) : k \in 1..n}
    /\ Built(j.value.edges) /\ j.value.edges.data.rows = FlattenSeq(EdgeTables(gs, n, border))

\* Graphs like one another without a node in common are joined.
LEMMA JoinedIs ==
    ASSUME NEW g, FullGraph(g), NEW n \in Nat \ {0}, NEW gs, gs = [k \in 1..n |-> gs[k]],
           \A k \in 1..n : LikeGraph(gs[k], g),
           \A k, l \in 1..n : k # l => AllIds(gs[k]) \cap AllIds(gs[l]) = {},
           NEW border, Built(border), Tabled(border.data), border.data.fields = g.edges.data.fields
    PROVE  /\ IsJoined(Joined(gs, border), gs, n, border)
           /\ \E U : NodeTables(gs, n) \in Seq(Seq(U))
           /\ \E U : EdgeTables(gs, n, border) \in Seq(Seq(U))
<1> DEFINE nf == [k \in DOMAIN gs |-> gs[k].nodes]
           es == [k \in DOMAIN gs |-> gs[k].edges]
           ef == Append(es, border)
           nd == g.nodes.data.fields
           ed == g.edges.data.fields
<1>1. DOMAIN gs = 1..n
      OBVIOUS
<1>2. ASSUME NEW k \in 1..n
      PROVE  /\ NodesBuilt(gs[k].nodes) /\ Tabled(gs[k].nodes.data) /\ gs[k].nodes.data.fields = nd
             /\ Built(gs[k].edges) /\ Tabled(gs[k].edges.data) /\ gs[k].edges.data.fields = ed
             /\ Column(gs[k].nodes.data, "_id") = IdsOf(gs[k])
  <2>1. LikeGraph(gs[k], g)
        OBVIOUS
  <2>2. NodesBuilt(gs[k].nodes) /\ Built(gs[k].edges)
        BY <2>1, WellBuiltHas DEF LikeGraph, FullGraph
  <2>3. QED BY <2>1, <2>2 DEF LikeGraph, FullGraph, IdsOf
<1>3. DOMAIN nf = 1..n /\ (\A k \in 1..n : nf[k] = gs[k].nodes) /\ nf = [k \in 1..n |-> gs[k].nodes]
      BY <1>1
<1>4. DOMAIN es = 1..n /\ \A k \in 1..n : es[k] = gs[k].edges
      BY <1>1
<1> HIDE DEF nf, es
<1>5. DOMAIN ef = 1..(n + 1) /\ ef[n + 1] = border /\ \A k \in 1..n : ef[k] = gs[k].edges
  <2> DEFINE V == {es[k] : k \in 1..n} \cup {border}
  <2>1. border \in V /\ es = [k \in 1..n |-> es[k]] /\ \A k \in 1..n : es[k] \in V
        BY <1>4 DEF es
  <2> HIDE DEF V
  <2>2. es \in [1..n -> V]
        BY <2>1
  <2>3. es \in Seq(V) /\ Len(es) = n
        BY <1>4, <2>2, ListLen
  <2>4. /\ ef \in Seq(V) /\ Len(ef) = n + 1
        /\ ef[n + 1] = border /\ \A k \in 1..n : ef[k] = es[k]
        BY <2>1, <2>3, AppendProperties
  <2>5. DOMAIN ef = 1..(n + 1)
        BY <2>4
  <2>6. QED BY <1>4, <2>4, <2>5
<1> HIDE DEF ef
<1>6. n + 1 \in Nat \ {0} /\ \A k \in 1..(n + 1) : k \in 1..n \/ k = n + 1
      OBVIOUS
<1>7. ToSet(NodeReserved) \subseteq {nd[i].name : i \in DOMAIN nd} /\ ToSet(EdgeReserved) \subseteq {ed[i].name : i \in DOMAIN ed}
      BY DEF FullGraph, Names
<1> HIDE DEF nd, ed
<1>8. FramesAlike(nf, n, nd, NodeReserved)
      BY <1>2, <1>3, <1>7 DEF FramesAlike
<1>9. FramesAlike(ef, n + 1, ed, EdgeReserved) /\ \A k \in 1..(n + 1) : Built(ef[k])
  <2>1. ASSUME NEW k \in 1..(n + 1) PROVE Tabled(ef[k].data) /\ ef[k].data.fields = ed /\ Built(ef[k])
    <3>1. CASE k \in 1..n
          BY <1>2, <1>5, <3>1
    <3>2. CASE k = n + 1
          BY <1>5, <3>2 DEF ed
    <3>3. QED BY <1>6, <3>1, <3>2
  <2>2. QED BY <1>5, <1>7, <2>1 DEF FramesAlike
<1>10. RowLists(nf, n) = NodeTables(gs, n)
       BY <1>3 DEF RowLists, NodeTables
<1>11. RowLists(ef, n + 1) = EdgeTables(gs, n, border)
  <2> DEFINE a == RowLists(ef, n + 1)
             b == EdgeTables(gs, n, border)
  <2>1. DOMAIN a = 1..(n + 1) /\ a = [k \in 1..(n + 1) |-> a[k]] /\ \A k \in 1..(n + 1) : a[k] = ef[k].data.rows
        BY DEF RowLists
  <2>2. AreEdges(b, gs, n, border)
        BY EdgeTablesAre
  <2>3. /\ DOMAIN b = 1..(n + 1) /\ b[n + 1] = border.data.rows /\ \A k \in 1..n : b[k] = EdgeRows(gs[k])
        /\ b = [k \in 1..(n + 1) |-> b[k]]
        BY <2>2 DEF AreEdges
  <2> HIDE DEF a, b
  <2>4. ASSUME NEW k \in 1..(n + 1) PROVE a[k] = b[k]
    <3>1. CASE k \in 1..n
          BY <1>5, <2>1, <2>3, <3>1 DEF EdgeRows
    <3>2. CASE k = n + 1
          BY <1>5, <2>1, <2>3, <3>2
    <3>3. QED BY <1>6, <3>1, <3>2
  <2>5. QED BY <2>1, <2>3, <2>4 DEF a, b
<1>12. /\ ConcatNodes(nf).status = "ok" /\ NodesBuilt(ConcatNodes(nf).value)
       /\ ToSet(Column(ConcatNodes(nf).value.data, "_id")) = UNION {ToSet(Column(nf[k].data, "_id")) : k \in 1..n}
  <2>1. \A k \in 1..n : NodesBuilt(nf[k])
        BY <1>2, <1>3
  <2>2. ASSUME NEW k \in 1..n, NEW l \in 1..n, k # l
        PROVE  ToSet(Column(nf[k].data, "_id")) \cap ToSet(Column(nf[l].data, "_id")) = {}
    <3>1. AllIds(gs[k]) \cap AllIds(gs[l]) = {}
          BY <2>2
    <3>2. QED BY <1>2, <1>3, <3>1 DEF AllIds
  <2>3. QED BY <1>8, <2>1, <2>2, ConcatNodesIs
<1>13. /\ ConcatEdges(ef).status = "ok" /\ Built(ConcatEdges(ef).value)
       /\ ConcatEdges(ef).value.data.rows = FlattenSeq(EdgeTables(gs, n, border))
       BY <1>6, <1>9, <1>11, ConcatEdgesIs
<1>14. Joined(gs, border) = Ok([nodes |-> ConcatNodes(nf).value, edges |-> ConcatEdges(ef).value])
       BY <1>12, <1>13 DEF Joined, Then, nf, ef, es
<1>15. UNION {ToSet(Column(nf[k].data, "_id")) : k \in 1..n} = UNION {AllIds(gs[k]) : k \in 1..n}
  <2>1. \A k \in 1..n : ToSet(Column(nf[k].data, "_id")) = AllIds(gs[k])
        BY <1>2, <1>3 DEF AllIds
  <2>2. QED BY <2>1
<1>16. IsJoined(Joined(gs, border), gs, n, border)
  <2> DEFINE v == ConcatNodes(nf).value
             e == ConcatEdges(ef).value
             j == Joined(gs, border)
  <2>1. j.status = "ok" /\ j.value.nodes = v /\ j.value.edges = e
        BY <1>14 DEF Ok
  <2> HIDE DEF j, v, e
  <2>2. NodesBuilt(v) /\ ToSet(Column(v.data, "_id")) = UNION {AllIds(gs[k]) : k \in 1..n}
        BY <1>12, <1>15 DEF v
  <2>3. Built(e) /\ e.data.rows = FlattenSeq(EdgeTables(gs, n, border))
        BY <1>13 DEF e
  <2>4. IsJoined(j, gs, n, border)
        BY <2>1, <2>2, <2>3 DEF IsJoined
  <2>5. QED BY <2>4 DEF j
<1>17. \E U : NodeTables(gs, n) \in Seq(Seq(U))
  <2>1. NodeReserved \in {NodeReserved, EdgeReserved}
        OBVIOUS
  <2>2. \E U : RowLists(nf, n) \in Seq(Seq(U))
        BY <1>8, <2>1, BatchesAlike
  <2>3. QED BY <1>10, <2>2
<1>18. \E U : EdgeTables(gs, n, border) \in Seq(Seq(U))
  <2>1. EdgeReserved \in {NodeReserved, EdgeReserved}
        OBVIOUS
  <2> DEFINE m == n + 1
  <2>2. m \in Nat \ {0} /\ FramesAlike(ef, m, ed, EdgeReserved) /\ RowLists(ef, m) = EdgeTables(gs, n, border)
        BY <1>6, <1>9, <1>11
  <2> HIDE DEF m
  <2>3. \E U : RowLists(ef, m) \in Seq(Seq(U))
        BY <2>1, <2>2, BatchesAlike
  <2>4. QED BY <2>2, <2>3
<1>19. QED BY <1>16, <1>17, <1>18

\* A graph that is cut up into parts like it.
CutWell(p, g, n) == FullGraph(g) /\ CutsUp(p, g, n) /\ InParts(p, g, n, p.shardOf)

\* No node is in two of the parts, and each is in one.
LEMMA ShardsApart ==
    ASSUME NEW g, NEW n \in Nat \ {0}, NEW p, CutsUp(p, g, n)
    PROVE  /\ \A k, l \in 1..n : k # l => AllIds(p.shards[k]) \cap AllIds(p.shards[l]) = {}
           /\ UNION {AllIds(p.shards[k]) : k \in 1..n} = AllIds(g)
           /\ \A k \in 1..n : \A x \in AllIds(p.shards[k]) : p.shardOf[x] = k
<1>1. /\ DOMAIN p.shardOf = AllIds(g) /\ \A x \in AllIds(g) : p.shardOf[x] \in 1..n
      /\ \A k \in 1..n : AllIds(p.shards[k]) = AllIds(g) \cap HomeOf(p.shardOf, k)
      BY DEF CutsUp, IsPart
<1>2. \A k \in 1..n : \A x : x \in AllIds(p.shards[k]) <=> x \in AllIds(g) /\ p.shardOf[x] = k
      BY <1>1 DEF HomeOf
<1>3. \A k, l \in 1..n : k # l => AllIds(p.shards[k]) \cap AllIds(p.shards[l]) = {}
      BY <1>2
<1>4. UNION {AllIds(p.shards[k]) : k \in 1..n} = AllIds(g)
      BY <1>1, <1>2
<1>5. QED BY <1>2, <1>3, <1>4

\* The parts are joined.
LEMMA PartsJoined ==
    ASSUME NEW g, NEW n \in Nat \ {0}, NEW p, CutWell(p, g, n)
    PROVE  /\ IsJoined(Joined(p.shards, p.boundary), p.shards, n, p.boundary)
           /\ \E U : NodeTables(p.shards, n) \in Seq(Seq(U))
           /\ \E U : EdgeTables(p.shards, n, p.boundary) \in Seq(Seq(U))
<1> DEFINE gs     == p.shards
           border == p.boundary
<1>1. /\ FullGraph(g) /\ gs = [k \in 1..n |-> gs[k]] /\ \A k \in 1..n : LikeGraph(gs[k], g)
      /\ Built(border) /\ Tabled(border.data) /\ border.data.fields = g.edges.data.fields
      BY DEF CutWell, InParts
<1>2. \A k, l \in 1..n : k # l => AllIds(gs[k]) \cap AllIds(gs[l]) = {}
      BY ShardsApart DEF CutWell
<1> HIDE DEF gs, border
<1>3. /\ IsJoined(Joined(gs, border), gs, n, border)
      /\ \E U : NodeTables(gs, n) \in Seq(Seq(U))
      /\ \E U : EdgeTables(gs, n, border) \in Seq(Seq(U))
      BY <1>1, <1>2, JoinedIs
<1>4. QED BY <1>3 DEF gs, border

\* Put together again they have as many nodes and edges as the graph.
LEMMA TablesLength ==
    ASSUME NEW g, NEW n \in Nat \ {0}, NEW p, CutWell(p, g, n)
    PROVE  /\ Len(FlattenSeq(NodeTables(p.shards, n))) = Len(IdsOf(g))
           /\ Len(FlattenSeq(EdgeTables(p.shards, n, p.boundary))) = Len(EdgeRows(g))
<1>1. WellBuilt(g) /\ IsFrame(g) /\ CutsUp(p, g, n)
      BY WellBuiltFrame DEF CutWell, FullGraph
<1>2. PICK w, v \in Nat : DOMAIN g.nodes.data.rows = 1..w /\ DOMAIN EdgeRows(g) = 1..v
      BY <1>1 DEF IsFrame, Batch, EdgeRows
<1> DEFINE nt == NodeTables(p.shards, n)
           et == EdgeTables(p.shards, n, p.boundary)
           s  == g.nodes.data.rows
           t  == EdgeRows(g)
           m  == n + 1
<1>3. PICK U : nt \in Seq(Seq(U))
      BY PartsJoined
<1>4. PICK V : et \in Seq(Seq(V))
      BY PartsJoined
<1>5. PICK cut : Parted(nt, s, n, cut)
      BY <1>1, NodesParted
<1>6. PICK cot : Parted(et, t, m, cot)
      BY <1>1, EdgesParted
<1>7. m \in Nat /\ DOMAIN s = 1..w /\ DOMAIN t = 1..v /\ DOMAIN IdsOf(g) = 1..w
      BY <1>2 DEF IdsOf, Column
<1>8. Len(IdsOf(g)) = w /\ Len(t) = v
      BY <1>7, ListLen
<1> HIDE DEF nt, et, s, t, m
<1>9. Len(FlattenSeq(nt)) = w
      BY <1>3, <1>5, <1>7, PartedLength
<1>10. Len(FlattenSeq(et)) = v
      BY <1>4, <1>6, <1>7, PartedLength
<1>11. QED BY <1>8, <1>9, <1>10 DEF nt, et, t

\* merge makes a graph of the parts that has the nodes of the one that was cut up and as
\* many edges.
LEMMA MergeIs ==
    ASSUME NEW g, NEW n \in Nat \ {0}, NEW p, CutWell(p, g, n)
    PROVE  /\ Merge(p).status = "ok" /\ WellBuilt(Merge(p).value)
           /\ AllIds(Merge(p).value) = AllIds(g)
           /\ Len(EdgeRows(Merge(p).value)) = Len(EdgeRows(g))
<1> DEFINE j     == Joined(p.shards, p.boundary)
           nodes == j.value.nodes
           edges == j.value.edges
           et    == EdgeTables(p.shards, n, p.boundary)
           s     == EdgeRows(g)
<1>1. WellBuilt(g) /\ IsFrame(g) /\ CutsUp(p, g, n)
      BY WellBuiltFrame DEF CutWell, FullGraph
<1>2. IsJoined(j, p.shards, n, p.boundary)
      BY PartsJoined
<1>3. /\ j.status = "ok" /\ NodesBuilt(nodes) /\ Built(edges) /\ edges.data.rows = FlattenSeq(et)
      /\ ToSet(Column(nodes.data, "_id")) = AllIds(g)
  <2>1. UNION {AllIds(p.shards[k]) : k \in 1..n} = AllIds(g)
        BY <1>1, ShardsApart
  <2> DEFINE all == UNION {AllIds(p.shards[k]) : k \in 1..n}
  <2>2. /\ j.status = "ok" /\ NodesBuilt(nodes) /\ Built(edges) /\ edges.data.rows = FlattenSeq(et)
        /\ ToSet(Column(nodes.data, "_id")) = all
        BY <1>2 DEF IsJoined
  <2> HIDE DEF all, j, nodes, edges, et
  <2>3. all = AllIds(g)
        BY <2>1 DEF all
  <2>4. QED BY <2>2, <2>3
<1>4. Merge(p) = NewGraph(nodes, edges)
      BY <1>3 DEF Merge, Then
<1> HIDE DEF j, nodes, edges
<1>5. \A x : HasNode(nodes, x) <=> x \in AllIds(g)
      BY <1>3, BuiltHas
<1>6. PICK V : et \in Seq(Seq(V))
      BY PartsJoined
<1>7. PICK cut : Parted(et, s, n + 1, cut)
      BY <1>1, EdgesParted
<1> HIDE DEF et
<1>8. ASSUME NEW q \in DOMAIN edges.data.rows PROVE \E r \in DOMAIN s : edges.data.rows[q] = s[r]
  <2> DEFINE flat == FlattenSeq(et)
             m    == n + 1
  <2>1. PICK o : Lies(et, Len(et), o, flat)
        BY <1>6, FlattenLies
  <2>2. DOMAIN et = 1..(n + 1) /\ Len(et) = n + 1
    <3>1. DOMAIN et = 1..(n + 1) /\ n + 1 \in Nat
          BY <1>7 DEF Parted
    <3>2. QED BY <1>6, <3>1, LenProperties
  <2>3. edges.data.rows = flat /\ q \in DOMAIN flat
        BY <1>3
  <2>4. Lies(et, m, o, flat) /\ DOMAIN et = 1..m /\ m = n + 1
        BY <2>1, <2>2
  <2> HIDE DEF flat, m
  <2>5. edges.data.rows = flat /\ q \in 1..o[m]
        BY <2>3, <2>4 DEF Lies
  <2>6. PICK k \in 1..m : \E i \in 1..Len(et[k]) : flat[q] = et[k][i]
    <3>1. PICK k \in 1..m : \E i \in 1..Len(et[k]) : q = o[k - 1] + i
          BY <2>5, <2>4 DEF Lies
    <3>2. \A i \in 1..Len(et[k]) : flat[o[k - 1] + i] = et[k][i]
          BY <2>4 DEF Lies
    <3>3. QED BY <3>1, <3>2
  <2>7. PICK i \in 1..Len(et[k]) : flat[q] = et[k][i]
        BY <2>6
  <2>8. DOMAIN et[k] = 1..Len(et[k])
    <3>1. k \in DOMAIN et /\ et[k] \in Seq(V)
          BY <1>6, <2>4
    <3>2. QED BY <3>1
  <2>9. Keeps(et[k], s, cut[k]) /\ cut[k] \subseteq DOMAIN s
        BY <1>7, <2>4 DEF Parted
  <2>10. \E r \in cut[k] : et[k][i] = s[r]
    <3> DEFINE a == et[k]
               K == cut[k]
    <3>1. Keeps(a, s, K) /\ i \in DOMAIN a
          BY <2>8, <2>9
    <3> HIDE DEF a, K, s
    <3>2. \E r \in K : a[i] = s[r]
          BY ONLY <3>1, KeptRows
    <3>3. QED BY <3>2 DEF a, K
  <2>11. QED BY <2>5, <2>7, <2>9, <2>10
<1>9. ~Dangles(nodes, edges)
  <2>1. \A r \in DOMAIN s : s[r]["_src"] \in AllIds(g) /\ s[r]["_dst"] \in AllIds(g)
        BY <1>1, EndsAreNodes
  <2> HIDE DEF s
  <2>2. QED BY <1>5, <1>8, <2>1 DEF Dangles
<1>10. NewGraph(nodes, edges).status = "ok"
      BY <1>9 DEF NewGraph, Ok
<1> DEFINE h == NewGraph(nodes, edges).value
<1>11. h = Unchecked(nodes, edges) /\ WellBuilt(h)
       BY <1>3, <1>10, GraphBuilt
<1>12. h.nodes = nodes /\ h.edges = edges
       BY <1>11 DEF Unchecked
<1> HIDE DEF h
<1>13. AllIds(h) = AllIds(g)
       BY <1>3, <1>12 DEF AllIds, IdsOf
<1>14. Len(EdgeRows(h)) = Len(s)
  <2>1. EdgeRows(h) = FlattenSeq(et)
        BY <1>3, <1>12 DEF EdgeRows
  <2>2. QED BY <2>1, TablesLength DEF et
<1>15. QED BY <1>4, <1>10, <1>11, <1>13, <1>14 DEF h

\* The counts of stats are those of the whole graph.
LEMMA StatsAdd ==
    ASSUME NEW g, NEW n \in Nat \ {0}, NEW p, CutWell(p, g, n)
    PROVE  /\ FoldLeft(+, 0, Stats(p).nodes) = Len(IdsOf(g))
           /\ FoldLeft(+, Stats(p).boundary, Stats(p).edges) = Len(EdgeRows(g))
<1> DEFINE gs == p.shards
           nt == NodeTables(gs, n)
           et == EdgeTables(gs, n, p.boundary)
           b  == p.boundary.data.rows
           dn == [k \in 1..n |-> Len(IdsOf(gs[k]))]
           de == [k \in 1..n |-> Len(EdgeRows(gs[k]))]
<1>1. DOMAIN gs = 1..n /\ \A k \in 1..n : WellBuilt(gs[k])
      BY DEF CutWell, CutsUp, InParts, LikeGraph, FullGraph
<1>2. Len(gs) = n
      BY <1>1, ListLen
<1>3. Stats(p).nodes = dn /\ Stats(p).edges = de /\ Stats(p).boundary = Len(b)
      BY <1>2 DEF Stats
<1>4. PICK U : nt \in Seq(Seq(U))
      BY PartsJoined
<1>5. PICK V : et \in Seq(Seq(V))
      BY PartsJoined
<1>6. Len(FlattenSeq(nt)) = Len(IdsOf(g)) /\ Len(FlattenSeq(et)) = Len(EdgeRows(g))
      BY TablesLength
<1>7. DOMAIN nt = 1..n /\ Len(nt) = n /\ \A k \in 1..n : nt[k] = gs[k].nodes.data.rows
  <2>1. DOMAIN nt = 1..n /\ n \in Nat /\ \A k \in 1..n : nt[k] = gs[k].nodes.data.rows
        BY DEF NodeTables
  <2>2. QED BY <2>1, ListLen
<1>8. AreEdges(et, gs, n, p.boundary)
      BY EdgeTablesAre
<1> HIDE DEF nt, et, gs
<1>9. ASSUME NEW k \in 1..n PROVE dn[k] = Len(nt[k]) /\ de[k] = Len(et[k])
  <2>1. PICK w \in Nat : DOMAIN gs[k].nodes.data.rows = 1..w
        BY <1>1 DEF WellBuilt, Batch
  <2>2. DOMAIN IdsOf(gs[k]) = 1..w
        BY <2>1 DEF IdsOf, Column
  <2>3. Len(IdsOf(gs[k])) = w /\ Len(gs[k].nodes.data.rows) = w
        BY <2>1, <2>2, ListLen
  <2>4. QED BY <1>7, <1>8, <2>3 DEF AreEdges
<1>10. DOMAIN dn = 1..n /\ DOMAIN de = 1..n
       OBVIOUS
<1> HIDE DEF dn, de
<1>11. FoldLeft(+, 0, dn) = Len(IdsOf(g))
  <2> DEFINE zero == 0
             sum  == FoldLeft(+, zero, dn)
  <2>1. zero \in Nat /\ n <= Len(nt) /\ LengthsOf(dn, nt, n)
        BY <1>7, <1>9, <1>10 DEF LengthsOf
  <2> HIDE DEF zero
  <2>2. SumReaches(nt, zero, dn, n)
        BY <1>4, <2>1, LengthsAdd
  <2>3. PICK o : Lies(nt, Len(nt), o, FlattenSeq(nt)) /\ sum = zero + o[n]
        BY <2>2 DEF SumReaches
  <2> HIDE DEF sum
  <2>4. Lies(nt, n, o, FlattenSeq(nt))
        BY <1>7, <2>3
  <2>5. Len(FlattenSeq(nt)) = o[n] /\ o[n] \in Nat
        BY <2>4 DEF Lies
  <2>6. sum = Len(IdsOf(g))
        BY <1>6, <2>3, <2>5 DEF zero
  <2>7. QED BY <2>6 DEF sum, zero
<1>12. FoldLeft(+, Len(b), de) = Len(EdgeRows(g))
  <2> DEFINE base == Len(b)
             sum  == FoldLeft(+, base, de)
             m    == n + 1
  <2>1. Len(et) = m /\ n <= Len(et) /\ et[m] = b /\ DOMAIN et = 1..m /\ m \in 1..m /\ m - 1 = n /\ n \in 0..m /\ m \in Nat
        BY <1>8 DEF AreEdges
  <2>2. base \in Nat
    <3>1. et[m] \in Seq(V)
          BY <1>5, <2>1
    <3>2. QED BY <2>1, <3>1
  <2>3. LengthsOf(de, et, n)
        BY <1>9, <1>10 DEF LengthsOf
  <2>4. base = Len(et[m])
        BY <2>1
  <2> HIDE DEF base, m
  <2>5. SumReaches(et, base, de, n)
        BY <1>5, <2>1, <2>2, <2>3, LengthsAdd
  <2>6. PICK o : Lies(et, Len(et), o, FlattenSeq(et)) /\ sum = base + o[n]
        BY <2>5 DEF SumReaches
  <2> HIDE DEF sum
  <2>7. Lies(et, m, o, FlattenSeq(et))
        BY <2>1, <2>6
  <2>8. Len(FlattenSeq(et)) = o[m] /\ o[m] = o[m - 1] + Len(et[m]) /\ o[n] \in Nat
        BY <2>1, <2>7 DEF Lies
  <2>9. o[m] = o[n] + base
        BY <2>1, <2>8, <2>4
  <2>10. sum = Len(EdgeRows(g))
        BY <1>6, <2>2, <2>6, <2>8, <2>9
  <2>11. QED BY <2>10 DEF sum, base
<1>13. QED BY <1>3, <1>11, <1>12

\* A node row of the graph is in one shard, once.
LEMMA NodesOnce ==
    ASSUME NEW g, NEW n \in Nat \ {0}, NEW p, CutWell(p, g, n), NEW row \in ToSet(g.nodes.data.rows)
    PROVE  Cardinality(SpotsOf(row, NodeTables(p.shards, n))) = 1
<1> DEFINE s  == g.nodes.data.rows
           nt == NodeTables(p.shards, n)
<1>1. WellBuilt(g) /\ CutsUp(p, g, n)
      BY DEF CutWell, FullGraph
<1>2. PICK w \in Nat : DOMAIN s = 1..w
      BY <1>1 DEF WellBuilt, Batch
<1>3. PICK cut : Parted(nt, s, n, cut)
      BY <1>1, NodesParted
<1>4. PICK r \in DOMAIN s : s[r] = row
      BY DEF ToSet
<1>5. \A q \in DOMAIN s : IdsOf(g)[q] = s[q]["_id"]
      BY DEF IdsOf, Column
<1>6. \A q \in DOMAIN s : s[q] = row => q = r
      BY <1>1, <1>4, <1>5 DEF WellBuilt, IsInjective, IdsOf, Column
<1> HIDE DEF s, nt
<1>7. {q \in DOMAIN s : s[q] = row} = {r}
      BY <1>4, <1>6
<1>8. Cardinality({q \in DOMAIN s : s[q] = row}) = 1
      BY <1>7, FS_Singleton
<1>9. Cardinality(SpotsOf(row, nt)) = Cardinality({q \in DOMAIN s : s[q] = row})
      BY <1>2, <1>3, PartedTimes
<1>10. QED BY <1>8, <1>9 DEF nt

\* An edge row is in the shards and on the border as often as in the graph.
LEMMA EdgesAsOften ==
    ASSUME NEW g, NEW n \in Nat \ {0}, NEW p, CutWell(p, g, n), NEW row
    PROVE  Cardinality(SpotsOf(row, EdgeTables(p.shards, n, p.boundary))) = Cardinality(SpotsOf(row, <<EdgeRows(g)>>))
<1> DEFINE s   == EdgeRows(g)
           et  == EdgeTables(p.shards, n, p.boundary)
           one == <<s>>
           m   == n + 1
           i   == 1
<1>1. WellBuilt(g) /\ IsFrame(g) /\ CutsUp(p, g, n) /\ Tabled(g.edges.data)
      BY WellBuiltFrame DEF CutWell, FullGraph
<1>2. PICK w \in Nat : s = [r \in 1..w |-> [c \in Names(g.edges.data) |-> s[r][c]]]
      BY <1>1 DEF Tabled, EdgeRows
<1>3. DOMAIN s = 1..w /\ s = [r \in 1..w |-> s[r]]
  <2> DEFINE N == Names(g.edges.data)
  <2> HIDE DEF s, N
  <2>1. s = [r \in 1..w |-> [c \in N |-> s[r][c]]]
        BY <1>2 DEF N
  <2>2. QED BY <2>1
<1>4. PICK cut : Parted(et, s, m, cut)
      BY <1>1, EdgesParted
<1>5. m \in Nat /\ i \in Nat
      OBVIOUS
<1> HIDE DEF s, et, m
<1>6. PICK cot : Parted(one, s, 1, cot)
      BY <1>3, PartedWhole
<1> HIDE DEF one, i
<1>7. w \in Nat /\ DOMAIN s = 1..w
       BY <1>3
<1>8. Cardinality(SpotsOf(row, et)) = Cardinality({q \in DOMAIN s : s[q] = row})
      BY ONLY <1>7, <1>4, <1>5, PartedTimes
<1>9. Cardinality(SpotsOf(row, one)) = Cardinality({q \in DOMAIN s : s[q] = row})
  <2>1. Parted(one, s, i, cot)
        BY <1>6 DEF i
  <2>2. QED BY ONLY <1>7, <1>5, <2>1, PartedTimes
<1>10. QED BY <1>8, <1>9 DEF et, one, s

\* The ends of an edge on the border are in two shards.
LEMMA BorderApart ==
    ASSUME NEW g, NEW n, NEW p, CutsUp(p, g, n), NEW row \in ToSet(p.boundary.data.rows)
    PROVE  p.shardOf[row["_src"]] # p.shardOf[row["_dst"]]
<1> DEFINE b == p.boundary.data.rows
           s == EdgeRows(g)
           R == Between(g, p.shardOf)
<1>1. Keeps(b, s, R)
      BY DEF CutsUp
<1>2. \A r \in R : p.shardOf[s[r]["_src"]] # p.shardOf[s[r]["_dst"]]
      BY DEF Between
<1>3. PICK i \in DOMAIN b : b[i] = row
      BY DEF ToSet
<1> HIDE DEF b, s, R
<1>4. \E r \in R : b[i] = s[r]
      BY <1>1, KeptRows
<1>5. QED BY <1>2, <1>3, <1>4

\* The whole part of a quotient grows with the dividend.
LEMMA QuotientsGrow ==
    ASSUME NEW a \in Nat, NEW c \in Nat, a <= c, NEW b \in Nat \ {0}
    PROVE  a \div b <= c \div b
<1> DEFINE u == a \div b
           v == c \div b
<1>1. u \in Nat /\ v \in Nat
      OBVIOUS
<1>2. a = b * u + (a % b) /\ a % b \in 0..(b - 1)
      OBVIOUS
<1>3. c = b * v + (c % b) /\ c % b \in 0..(b - 1)
      OBVIOUS
<1> HIDE DEF u, v
<1>4. b * u < b * v + b
  <2> DEFINE e == a % b
             f == c % b
  <2>1. /\ e \in 0..(b - 1) /\ f \in 0..(b - 1) /\ b * u \in Nat /\ b * v \in Nat
        /\ a = b * u + e /\ c = b * v + f
        BY <1>1, <1>2, <1>3
  <2> HIDE DEF e, f
  <2>2. QED BY <2>1
<1>5. ASSUME u >= v + 1 PROVE FALSE
  <2>1. PICK d \in Nat : u = v + 1 + d
    <3>1. u - (v + 1) \in Nat /\ u = v + 1 + (u - (v + 1))
          BY <1>1, <1>5
    <3>2. QED BY <3>1
  <2>2. b * u = b * v + b + b * d
        BY <1>1, <2>1
  <2>3. b * d >= 0 /\ b * v \in Nat /\ b * d \in Nat
        BY <1>1
  <2>4. QED BY <1>4, <2>2, <2>3
<1>6. u <= v
      BY <1>1, <1>5
<1>7. QED BY <1>6 DEF u, v

\* The bands are in the order of the ids.
LEMMA BandsInOrder ==
    ASSUME NEW g, IsFrame(g), AllIds(g) \subseteq Int, NEW n \in Nat \ {0},
           NEW x \in AllIds(g), NEW y \in AllIds(g), x <= y
    PROVE  RangeShard(IdsOf(g), x, n) <= RangeShard(IdsOf(g), y, n)
<1> DEFINE ids  == IdsOf(g)
           S(z) == {v \in ToSet(ids) : v < z}
           R(z) == Cardinality(S(z))
           part == (Len(ids) + n - 1) \div n
           band == Max({1, part})
<1>1. R(x) \in Nat /\ R(y) \in Nat /\ R(x) <= R(y)
  <2>1. ToSet(ids) \subseteq Int /\ IsFiniteSet(ToSet(ids)) /\ x \in Int /\ y \in Int
        BY IdsFinite DEF AllIds
  <2>2. S(x) \in SUBSET S(y) /\ S(y) \in SUBSET ToSet(ids)
        BY <2>1
  <2> HIDE DEF S
  <2>3. IsFiniteSet(S(y))
        BY <2>1, <2>2, FS_Subset
  <2>4. IsFiniteSet(S(x)) /\ Cardinality(S(x)) <= Cardinality(S(y))
        BY <2>2, <2>3, FS_Subset
  <2>5. QED BY <2>3, <2>4, FS_CardinalityType
<1>2. part \in Int
  <2>1. Len(ids) + n - 1 \in Int
        BY IdsFinite
  <2>2. QED BY <2>1
<1> HIDE DEF part
<1>3. band \in Nat \ {0}
  <2>1. \E u \in {1, part} : \A v \in {1, part} : u >= v
        BY <1>2
  <2>2. band \in {1, part} /\ band >= 1
        BY <2>1 DEF Max
  <2>3. QED BY <1>2, <2>2
<1>4. RangeShard(ids, x, n) = Min({R(x) \div band, n - 1}) + 1 /\ RangeShard(ids, y, n) = Min({R(y) \div band, n - 1}) + 1
      BY DEF RangeShard, part
<1> DEFINE a == R(x) \div band
           c == R(y) \div band
<1> HIDE DEF band, R
<1>5. a \in Nat /\ c \in Nat
      BY <1>1, <1>3
<1>6. a <= c
      BY <1>1, <1>3, QuotientsGrow
<1>7. RangeShard(ids, x, n) = Min({a, n - 1}) + 1 /\ RangeShard(ids, y, n) = Min({c, n - 1}) + 1
      BY <1>4
<1> HIDE DEF a, c, ids
<1>8. ASSUME NEW q \in Nat PROVE Min({q, n - 1}) \in Nat /\ Min({q, n - 1}) = IF q <= n - 1 THEN q ELSE n - 1
  <2>1. \E u \in {q, n - 1} : \A v \in {q, n - 1} : u <= v
        OBVIOUS
  <2>2. /\ Min({q, n - 1}) \in {q, n - 1} /\ Min({q, n - 1}) <= n - 1 /\ Min({q, n - 1}) <= q
        BY <2>1 DEF Min
  <2>3. QED BY <2>2
<1>9. Min({a, n - 1}) <= Min({c, n - 1}) /\ Min({a, n - 1}) \in Nat /\ Min({c, n - 1}) \in Nat
      BY <1>5, <1>6, <1>8
<1>10. QED BY <1>7, <1>9 DEF ids

\* No id of a band is between two of another.
LEMMA BandsApart ==
    ASSUME NEW g, IsFrame(g), AllIds(g) \subseteq Int, NEW n \in Nat \ {0},
           NEW x \in AllIds(g), NEW y \in AllIds(g), NEW z \in AllIds(g), y <= x, x <= z,
           RangeShard(IdsOf(g), y, n) = RangeShard(IdsOf(g), z, n)
    PROVE  RangeShard(IdsOf(g), x, n) = RangeShard(IdsOf(g), y, n)
<1>1. RangeShard(IdsOf(g), y, n) <= RangeShard(IdsOf(g), x, n)
      BY BandsInOrder
<1>2. RangeShard(IdsOf(g), x, n) <= RangeShard(IdsOf(g), z, n)
      BY BandsInOrder
<1>3. RangeShard(IdsOf(g), x, n) \in 1..n /\ RangeShard(IdsOf(g), y, n) \in 1..n
      BY RangeTotal
<1>4. QED BY <1>1, <1>2, <1>3

\* partition cuts a graph up into parts like it.
LEMMA PartitionWell ==
    ASSUME NEW g, FullGraph(g), AllIds(g) \subseteq DOMAIN Hash, NEW n \in Nat \ {0}, NEW method \in Methods
    PROVE  /\ Partition(g, n, method).status = "ok"
           /\ CutWell(Partition(g, n, method).value, g, n)
           /\ Partition(g, n, method).value.shardOf = Assigned(g, n, method)
<1>1. IsFrame(g)
      BY WellBuiltFrame DEF FullGraph
<1>2. Partition(g, n, method).status = "ok" /\ CutsUp(Partition(g, n, method).value, g, n)
      BY <1>1, PartitionCorrect
<1>3. InParts(Partition(g, n, method).value, g, n, Assigned(g, n, method))
      BY PartitionParts
<1>4. Partition(g, n, method).value.shardOf = Assigned(g, n, method)
      BY <1>3 DEF InParts
<1>5. QED BY <1>2, <1>3, <1>4 DEF CutWell

\* What subgraph makes of a part of g is like g.
LEMMA SubgraphLike ==
    ASSUME NEW g, NEW h, LikeGraph(h, g), NEW X
    PROVE  LikeGraph(Subgraph(h, X).value, g)
<1> DEFINE nodes == NodesIn(h.nodes, X)
           R     == {r \in DOMAIN EdgeRows(h) :
                        HasNode(nodes, EdgeRows(h)[r]["_src"]) /\ HasNode(nodes, EdgeRows(h)[r]["_dst"])}
<1>1. FullGraph(h) /\ WellBuilt(h)
      BY DEF LikeGraph, FullGraph
<1>2. Subgraph(h, X) = NewGraph(nodes, EdgesAt(h.edges, R))
      BY DEF Subgraph, Induced
<1>3. Subgraph(h, X).status = "ok"
      BY <1>1, SubgraphBuilt
<1> HIDE DEF R
<1>4. LikeGraph(Subgraph(h, X).value, h)
      BY <1>1, <1>2, <1>3, PartLike
<1>5. QED BY <1>4 DEF LikeGraph

\* What the expansion puts together: of each shard the nodes it found there and the
\* edges between them, and the edges of the border over which it found some.
Expanded(g, p, n, X, gs, border) ==
    /\ gs = [k \in 1..n |-> gs[k]] /\ \A k \in 1..n : LikeGraph(gs[k], g)
    /\ \A k \in 1..n : AllIds(gs[k]) = {x \in AllIds(g) : x \in X /\ p.shardOf[x] = k}
    /\ Built(border) /\ Tabled(border.data) /\ border.data.fields = g.edges.data.fields
    /\ \A row \in ToSet(border.data.rows) :
          /\ row["_src"] \in X /\ row["_dst"] \in X
          /\ row["_src"] \in AllIds(g) /\ row["_dst"] \in AllIds(g)

\* Joined, they have the nodes found and edges between these.
LEMMA ExpandedJoined ==
    ASSUME NEW g, FullGraph(g), NEW n \in Nat \ {0}, NEW p, CutsUp(p, g, n), NEW X, NEW gs, NEW border,
           Expanded(g, p, n, X, gs, border)
    PROVE  /\ Joined(gs, border).status = "ok"
           /\ ToSet(Column(Joined(gs, border).value.nodes.data, "_id")) = AllIds(g) \cap X
           /\ \A row \in ToSet(Joined(gs, border).value.edges.data.rows) :
                 row["_src"] \in AllIds(g) \cap X /\ row["_dst"] \in AllIds(g) \cap X
<1> DEFINE j  == Joined(gs, border)
           et == EdgeTables(gs, n, border)
           b  == border.data.rows
           K  == AllIds(g) \cap X
           m  == n + 1
<1>1. /\ gs = [k \in 1..n |-> gs[k]] /\ \A k \in 1..n : LikeGraph(gs[k], g)
      /\ Built(border) /\ Tabled(border.data) /\ border.data.fields = g.edges.data.fields
      BY DEF Expanded
<1>2. \A k \in 1..n : \A x : x \in AllIds(gs[k]) <=> x \in AllIds(g) /\ x \in X /\ p.shardOf[x] = k
      BY DEF Expanded
<1>3. \A k, l \in 1..n : k # l => AllIds(gs[k]) \cap AllIds(gs[l]) = {}
      BY <1>2
<1>4. IsJoined(j, gs, n, border) /\ \E U : et \in Seq(Seq(U))
      BY <1>1, <1>3, JoinedIs
<1> HIDE DEF j, et
<1>5. PICK U : et \in Seq(Seq(U))
      BY <1>4
<1>6. UNION {AllIds(gs[k]) : k \in 1..n} = K
  <2>1. \A x \in AllIds(g) : p.shardOf[x] \in 1..n
        BY DEF CutsUp
  <2>2. QED BY <1>2, <2>1
<1>7. j.status = "ok" /\ ToSet(Column(j.value.nodes.data, "_id")) = UNION {AllIds(gs[k]) : k \in 1..n}
      BY <1>4 DEF IsJoined
<1>8. ToSet(j.value.edges.data.rows) = UNION {ToSet(et[k]) : k \in DOMAIN et}
  <2> DEFINE flat == FlattenSeq(et)
  <2>1. j.value.edges.data.rows = flat
        BY <1>4 DEF IsJoined, et
  <2>2. ToSet(flat) = UNION {ToSet(et[k]) : k \in DOMAIN et}
        BY <1>5, FlattenHas
  <2> HIDE DEF flat
  <2>3. QED BY <2>1, <2>2
<1>9. AreEdges(et, gs, n, border)
      BY EdgeTablesAre DEF et
<1>10. DOMAIN et = 1..m /\ et[m] = b /\ \A k \in 1..n : et[k] = EdgeRows(gs[k])
       BY <1>9 DEF AreEdges
<1>11. \A k \in 1..m : k = m \/ k \in 1..n
       OBVIOUS
<1>12. \A row \in ToSet(b) : row["_src"] \in K /\ row["_dst"] \in K
       BY DEF Expanded
<1> HIDE DEF m, b, K
<1>13. ASSUME NEW k \in DOMAIN et, NEW row \in ToSet(et[k]) PROVE row["_src"] \in K /\ row["_dst"] \in K
  <2>1. CASE k = m
        BY <1>10, <1>12, <2>1
  <2>2. CASE k \in 1..n
    <3>1. et[k] = EdgeRows(gs[k]) /\ IsFrame(gs[k])
          BY <1>1, <1>10, <2>2, WellBuiltFrame DEF LikeGraph, FullGraph
    <3>2. PICK r \in DOMAIN EdgeRows(gs[k]) : EdgeRows(gs[k])[r] = row
          BY <3>1 DEF ToSet
    <3>3. row["_src"] \in AllIds(gs[k]) /\ row["_dst"] \in AllIds(gs[k])
          BY <3>1, <3>2, EndsAreNodes
    <3>4. QED BY <1>6, <2>2, <3>3
  <2>3. QED BY <1>10, <1>11, <2>1, <2>2
<1>14. \A row \in ToSet(j.value.edges.data.rows) : row["_src"] \in K /\ row["_dst"] \in K
       BY <1>8, <1>13
<1>15. QED BY <1>6, <1>7, <1>14 DEF j, K

\* An expansion that has found the nodes K and edges between them.
HasFound(e, K) ==
    /\ e.status = "ok" /\ ToSet(Column(e.value.nodes.data, "_id")) = K
    /\ \A row \in ToSet(e.value.edges.data.rows) : row["_src"] \in K /\ row["_dst"] \in K

\* Over the shards the expansion finds what a search of the whole graph finds, and puts
\* out edges between these nodes.
LEMMA DistributedIs ==
    ASSUME NEW g, NEW n \in Nat \ {0}, NEW p, CutWell(p, g, n), NEW types, NEW dir, NEW seeds, NEW hops \in Nat
    PROVE  HasFound(DistributedExpand(p, seeds, types, hops, dir), AllIds(g) \cap Within(g, types, dir, seeds, hops))
<1> DEFINE X      == Within(g, types, dir, seeds, hops)
           first  == [frontier |-> seeds, visited |-> seeds, boundary |-> {}]
           s      == Rounds(p, types, dir, first, hops)
           gs     == [k \in DOMAIN p.shards |-> Subgraph(p.shards[k], s.visited).value]
           border == EdgesAt(p.boundary, s.boundary)
<1>1. FullGraph(g) /\ IsFrame(g) /\ CutsUp(p, g, n) /\ InParts(p, g, n, p.shardOf)
      BY WellBuiltFrame DEF CutWell, FullGraph
<1>2. /\ s.visited = X
      /\ \A i \in s.boundary : /\ i \in DOMAIN p.boundary.data.rows
                               /\ p.boundary.data.rows[i]["_src"] \in s.visited
                               /\ p.boundary.data.rows[i]["_dst"] \in s.visited
      /\ \A k \in 1..n : AllIds(Subgraph(p.shards[k], s.visited).value) =
                             {x \in AllIds(g) : x \in s.visited /\ p.shardOf[x] = k}
  <2>1. Searched(g, p, types, dir, seeds, first, 0)
        BY WithinZero DEF Searched
  <2> HIDE DEF first
  <2>2. Searched(g, p, types, dir, seeds, s, hops)
        BY <1>1, <2>1, RoundsSearch
  <2> HIDE DEF s
  <2>3. s.visited = X /\ \A i \in s.boundary : /\ i \in DOMAIN p.boundary.data.rows
                                               /\ p.boundary.data.rows[i]["_src"] \in s.visited
                                               /\ p.boundary.data.rows[i]["_dst"] \in s.visited
        BY <2>2 DEF Searched
  <2>4. ASSUME NEW k \in 1..n
        PROVE  AllIds(Subgraph(p.shards[k], s.visited).value) = {x \in AllIds(g) : x \in s.visited /\ p.shardOf[x] = k}
    <3> DEFINE h == p.shards[k]
               V == s.visited
    <3>1. IsFrame(h) /\ AllIds(h) = AllIds(g) \cap HomeOf(p.shardOf, k) /\ DOMAIN p.shardOf = AllIds(g)
          BY <1>1 DEF CutsUp, IsPart
    <3> HIDE DEF h, V
    <3>2. AllIds(Subgraph(h, V).value) = AllIds(h) \cap V
          BY <3>1, SubgraphCorrect DEF IsPart
    <3>3. AllIds(Subgraph(h, V).value) = {x \in AllIds(g) : x \in V /\ p.shardOf[x] = k}
          BY <3>1, <3>2 DEF HomeOf
    <3>4. QED BY <3>3 DEF h, V
  <2>5. QED BY <2>3, <2>4
<1>3. DistributedExpand(p, seeds, types, hops, dir) = Joined(gs, border)
      BY DEF DistributedExpand, Expansion
<1> HIDE DEF first, s
<1>4. DOMAIN p.shards = 1..n /\ \A k \in 1..n : LikeGraph(p.shards[k], g)
      BY <1>1 DEF InParts, CutsUp
<1>5. gs = [k \in 1..n |-> gs[k]] /\ \A k \in 1..n : gs[k] = Subgraph(p.shards[k], s.visited).value
      BY <1>4
<1> HIDE DEF gs
<1>6. \A k \in 1..n : LikeGraph(gs[k], g)
      BY <1>4, <1>5, SubgraphLike
<1>7. \A k \in 1..n : AllIds(gs[k]) = {x \in AllIds(g) : x \in X /\ p.shardOf[x] = k}
      BY <1>2, <1>5
<1>8. Built(border) /\ Tabled(border.data) /\ border.data.fields = g.edges.data.fields
  <2> DEFINE d    == p.boundary.data
             mask == [r \in DOMAIN d.rows |-> r \in s.boundary]
  <2>1. Built(p.boundary) /\ Tabled(d) /\ d.fields = g.edges.data.fields /\ DOMAIN mask = DOMAIN d.rows
        BY <1>1 DEF InParts
  <2>2. border = EdgesOf(FilterRows(d, mask)) /\ border.data = FilterRows(d, mask)
        BY DEF EdgesAt, EdgesOf
  <2> HIDE DEF mask
  <2>3. Built(EdgesOf(FilterRows(d, mask)))
        BY <2>1, EdgesFiltered
  <2>4. Tabled(FilterRows(d, mask)) /\ FilterRows(d, mask).fields = d.fields
        BY <2>1, FilterTabled
  <2>5. QED BY <2>1, <2>2, <2>3, <2>4
<1>9. ASSUME NEW row \in ToSet(border.data.rows)
      PROVE  /\ row["_src"] \in X /\ row["_dst"] \in X
             /\ row["_src"] \in AllIds(g) /\ row["_dst"] \in AllIds(g)
  <2> DEFINE a == border.data.rows
             b == p.boundary.data.rows
             t == EdgeRows(g)
             B == s.boundary
             C == Between(g, p.shardOf)
  <2>1. B \in SUBSET DOMAIN b /\ Batch(p.boundary.data) /\ Keeps(b, t, C) /\ C \subseteq DOMAIN t
        BY <1>1, <1>2 DEF CutsUp, Between
  <2>2. Keeps(a, b, B)
        BY <2>1, EdgesAtKeep
  <2>3. PICK q \in DOMAIN a : a[q] = row
        BY DEF ToSet
  <2>4. \A i \in B : b[i]["_src"] \in X /\ b[i]["_dst"] \in X
        BY <1>2
  <2>5. \A r \in DOMAIN t : t[r]["_src"] \in AllIds(g) /\ t[r]["_dst"] \in AllIds(g)
        BY <1>1, EndsAreNodes
  <2> HIDE DEF a, b, t, B, C
  <2>6. PICK i \in B : row = b[i]
    <3>1. \E i \in B : a[q] = b[i]
          BY <2>2, KeptRows
    <3>2. QED BY <2>3, <3>1
  <2>7. PICK r \in C : row = t[r]
    <3>1. \E r \in C : b[i] = t[r]
          BY <2>1, KeptRows
    <3>2. QED BY <2>6, <3>1
  <2>8. QED BY <2>1, <2>4, <2>5, <2>6, <2>7
<1> DEFINE j == Joined(gs, border)
<1> HIDE DEF border, X
<1>10. Expanded(g, p, n, X, gs, border)
       BY <1>5, <1>6, <1>7, <1>8, <1>9 DEF Expanded
<1>11. HasFound(j, AllIds(g) \cap X)
       BY <1>1, <1>10, ExpandedJoined DEF HasFound
<1>12. QED BY <1>3, <1>11 DEF X

-----------------------------------------------------------------------------
(* Samples.                                                                 *)

\* How often x is in s.
CountOf(s, x) == Cardinality({k \in DOMAIN s : s[k] = x})

\* A count is a number.
LEMMA CountNat ==
    ASSUME NEW U, NEW s \in Seq(U), NEW x
    PROVE  CountOf(s, x) \in Nat
<1> DEFINE A == {k \in DOMAIN s : s[k] = x}
<1>1. IsFiniteSet(DOMAIN s) /\ A \subseteq DOMAIN s
      BY LenProperties, FS_Interval
<1> HIDE DEF A
<1>2. IsFiniteSet(A)
      BY <1>1, FS_Subset
<1>3. Cardinality(A) \in Nat
      BY <1>2, FS_CardinalityType
<1>4. QED BY <1>3 DEF CountOf, A

\* One more at the end counts once more.
LEMMA CountAppend ==
    ASSUME NEW U, NEW s \in Seq(U), NEW y \in U, NEW x
    PROVE  /\ CountOf(s, x) \in Nat
           /\ CountOf(Append(s, y), x) = CountOf(s, x) + (IF y = x THEN 1 ELSE 0)
<1> DEFINE u == Append(s, y)
           n == Len(s)
<1>1. /\ n \in Nat /\ DOMAIN s = 1..n /\ DOMAIN u = 1..(n + 1)
      /\ (\A i \in 1..n : u[i] = s[i]) /\ u[n + 1] = y
      BY AppendProperties, LenProperties
<1> HIDE DEF u, n
<1> DEFINE A == {k \in 1..n : s[k] = x}
           B == {k \in 1..(n + 1) : u[k] = x}
<1>2. IsFiniteSet(A)
  <2>1. IsFiniteSet(1..n) /\ A \subseteq 1..n
        BY <1>1, FS_Interval
  <2> HIDE DEF A
  <2>2. QED BY <2>1, FS_Subset
<1>3. n + 1 \notin A /\ B = IF y = x THEN A \cup {n + 1} ELSE A
      BY <1>1
<1>4. CountOf(s, x) = Cardinality(A) /\ CountOf(u, x) = Cardinality(B)
      BY <1>1 DEF CountOf
<1> HIDE DEF A, B
<1>5. Cardinality(A) \in Nat
      BY <1>2, FS_CardinalityType
<1>6. Cardinality(A \cup {n + 1}) = Cardinality(A) + 1
      BY <1>2, <1>3, FS_AddElement
<1>7. QED BY <1>3, <1>4, <1>5, <1>6 DEF u

\* Without its head a list counts once less.
LEMMA CountTail ==
    ASSUME NEW U, NEW s \in Seq(U), s # <<>>, NEW x
    PROVE  /\ CountOf(Tail(s), x) \in Nat
           /\ CountOf(s, x) = CountOf(Tail(s), x) + (IF Head(s) = x THEN 1 ELSE 0)
<1> DEFINE u == Tail(s)
           n == Len(s)
<1>1. /\ n \in Nat /\ n > 0 /\ DOMAIN s = 1..n /\ DOMAIN u = 1..(n - 1)
      /\ \A i \in 1..(n - 1) : u[i] = s[i + 1]
      BY HeadTailProperties, LenProperties, EmptySeq
<1>2. Head(s) = s[1]
      OBVIOUS
<1> HIDE DEF u, n
<1> DEFINE A == {k \in 1..n : s[k] = x}
           B == {k \in 1..(n - 1) : u[k] = x}
           f == [k \in B |-> k + 1]
           C == {f[k] : k \in B}
<1>3. IsFiniteSet(B)
  <2>1. IsFiniteSet(1..(n - 1)) /\ B \subseteq 1..(n - 1)
        BY <1>1, FS_Interval
  <2> HIDE DEF B
  <2>2. QED BY <2>1, FS_Subset
<1>4. \A j, k \in B : f[j] = f[k] => j = k
      BY <1>1
<1>5. 1 \notin C /\ A = IF s[1] = x THEN C \cup {1} ELSE C
  <2>1. \A k \in B : f[k] = k + 1 /\ k + 1 \in 2..n /\ s[k + 1] = x
        BY <1>1
  <2>2. \A k \in A : k # 1 => k - 1 \in B /\ f[k - 1] = k
    <3> TAKE k \in A
    <3> HAVE k # 1
    <3>1. k \in 1..n /\ s[k] = x /\ k - 1 \in 1..(n - 1) /\ (k - 1) + 1 = k
          BY <1>1
    <3>2. u[k - 1] = x
          BY <1>1, <3>1
    <3>3. k - 1 \in B
          BY <3>1, <3>2
    <3>4. QED BY <2>1, <3>1, <3>3
  <2>3. C \subseteq A /\ 1 \notin C
    <3>1. ASSUME NEW k \in B PROVE f[k] \in A /\ f[k] # 1
      <4>1. f[k] = k + 1 /\ k + 1 \in 2..n /\ s[k + 1] = x
            BY <2>1
      <4>2. k + 1 \in 1..n /\ k + 1 # 1
            BY <1>1, <4>1
      <4>3. QED BY <4>1, <4>2
    <3>2. QED BY <3>1
  <2>4. \A k \in A : k # 1 => k \in C
        BY <2>2
  <2>5. 1 \in A <=> s[1] = x
        BY <1>1
  <2> HIDE DEF A, C
  <2>6. ASSUME s[1] = x PROVE A = C \cup {1}
        BY <2>3, <2>4, <2>5, <2>6
  <2>7. ASSUME s[1] # x PROVE A = C
        BY <2>3, <2>4, <2>5, <2>7
  <2>8. QED BY <2>3, <2>6, <2>7
<1>6. CountOf(s, x) = Cardinality(A) /\ CountOf(u, x) = Cardinality(B)
      BY <1>1 DEF CountOf
<1>7. IsFiniteSet(C) /\ Cardinality(C) = Cardinality(B)
  <2> HIDE DEF B, f
  <2>1. QED BY <1>3, <1>4, SameSize
<1> HIDE DEF A, B, C
<1>8. Cardinality(B) \in Nat
      BY <1>3, FS_CardinalityType
<1>9. Cardinality(C \cup {1}) = Cardinality(C) + 1
      BY <1>5, <1>7, FS_AddElement
<1>10. QED BY <1>2, <1>5, <1>6, <1>7, <1>8, <1>9 DEF u

\* What comes once counts once.
LEMMA CountOnce ==
    ASSUME NEW U, NEW s \in Seq(U), IsInjective(s), NEW x
    PROVE  CountOf(s, x) = IF x \in ToSet(s) THEN 1 ELSE 0
<1> DEFINE A == {k \in DOMAIN s : s[k] = x}
<1>1. CASE x \in ToSet(s)
  <2>1. PICK k \in DOMAIN s : s[k] = x
        BY <1>1 DEF ToSet
  <2>2. A = {k}
        BY <2>1 DEF IsInjective
  <2>3. QED BY <1>1, <2>2, FS_Singleton DEF CountOf
<1>2. CASE x \notin ToSet(s)
  <2>1. A = {}
        BY <1>2 DEF ToSet
  <2>2. QED BY <1>2, <2>1, FS_EmptySet DEF CountOf
<1>3. QED BY <1>1, <1>2

\* An empty list has nothing.
LEMMA CountNone == \A x : CountOf(<<>>, x) = 0 /\ ToSet(<<>>) = {}
<1> DEFINE s == <<>>
<1>1. DOMAIN s = {}
      OBVIOUS
<1> HIDE DEF s
<1>2. \A x : CountOf(s, x) = 0 /\ ToSet(s) = {}
      BY <1>1, FS_EmptySet DEF CountOf, ToSet
<1>3. QED BY <1>2 DEF s

\* What is picked from a list is a list, and something where anything is picked.
LEMMA PickedList ==
    ASSUME NEW m \in Nat, NEW R, R \subseteq 1..m, NEW s, NEW U, \A r \in R : s[r] \in U
    PROVE  Picked(s, R) \in Seq(U) /\ (R # {} => Len(Picked(s, R)) # 0)
<1>1. PICK n, at : PickedAt(R, n, at)
      BY PickedIs
<1> DEFINE t == Picked(s, R)
<1>2. /\ n \in Nat /\ at \in [1..n -> R]
      /\ \A r \in R : \E i \in 1..n : at[i] = r
      /\ t = [i \in 1..n |-> s[at[i]]]
      BY <1>1 DEF PickedAt
<1> HIDE DEF t
<1>3. t \in [1..n -> U] /\ DOMAIN t = 1..n
      BY <1>2
<1>4. t \in Seq(U) /\ Len(t) = n
      BY <1>2, <1>3
<1>5. ASSUME R # {} PROVE n # 0
  <2>1. PICK r \in R : TRUE
        BY <1>5
  <2>2. PICK i \in 1..n : at[i] = r
        BY <1>2, <2>1
  <2>3. QED BY <1>2, <2>2
<1>6. QED BY <1>4, <1>5 DEF t

\* One of some numbers and zero is the largest.
LEMMA LargestIn ==
    ASSUME NEW s \in Seq(Nat)
    PROVE  Max({0} \cup ToSet(s)) \in Nat /\ \A k \in DOMAIN s : s[k] <= Max({0} \cup ToSet(s))
<1> DEFINE n    == Len(s)
           V(m) == {0} \cup {s[k] : k \in 1..m}
           T    == {m \in Nat : m <= n => \E x \in V(m) : \A y \in V(m) : y <= x}
<1>1. n \in Nat /\ DOMAIN s = 1..n /\ \A k \in 1..n : s[k] \in Nat
      BY LenProperties
<1> HIDE DEF n
<1>2. 0 \in T
      OBVIOUS
<1>3. ASSUME NEW m \in Nat, m \in T PROVE m + 1 \in T
  <2>1. SUFFICES ASSUME m + 1 <= n PROVE \E x \in V(m + 1) : \A y \in V(m + 1) : y <= x
        OBVIOUS
  <2>2. PICK x \in V(m) : \A y \in V(m) : y <= x
        BY <1>1, <1>3, <2>1
  <2>3. V(m + 1) = V(m) \cup {s[m + 1]}
    <3>1. 1..(m + 1) = (1..m) \cup {m + 1}
          OBVIOUS
    <3>2. QED BY <3>1
  <2>4. s[m + 1] \in Nat /\ V(m) \subseteq Nat
        BY <1>1, <2>1
  <2> HIDE DEF V
  <2>5. CASE s[m + 1] <= x
        BY <2>2, <2>3, <2>4, <2>5
  <2>6. CASE ~(s[m + 1] <= x)
        BY <2>2, <2>3, <2>4, <2>6
  <2>7. QED BY <2>5, <2>6
<1>4. n \in T
  <2> HIDE DEF T
  <2>1. QED BY <1>1, <1>2, <1>3, NatSetInduction
<1>5. V(n) = {0} \cup ToSet(s) /\ V(n) \subseteq Nat /\ \A k \in DOMAIN s : s[k] \in V(n)
      BY <1>1 DEF ToSet
<1>6. PICK x \in V(n) : \A y \in V(n) : y <= x
      BY <1>1, <1>4
<1> DEFINE all == V(n)
<1>7. x \in all /\ all \subseteq Int /\ \A y \in all : y <= x
      BY <1>5, <1>6
<1> HIDE DEF V, all
<1>8. Max(all) = x
      BY <1>7, MaxIs
<1>9. Max(V(n)) = x
      BY <1>8 DEF all
<1>10. QED BY <1>5, <1>6, <1>9

\* The rows that a sample may take from node i, with where they lead.
StepsOn(g, cfg, i) ==
    {p \in [to : DOMAIN g.edges.ids, row : DOMAIN EdgeRows(g)] :
        Leading(cfg, EdgeRows(g)[p.row], g.edges.ids[i], g.edges.ids[p.to])}

\* The candidates of a node are rows that lead on from it, and there is one where a row does.
LEMMA DrawableLeads ==
    ASSUME NEW g, WellBuilt(g), NEW i \in DOMAIN g.edges.ids, NEW cfg
    PROVE  /\ Drawable(g, i, cfg.dir, cfg.types) \in Seq(StepsOn(g, cfg, i))
           /\ \A r \in DOMAIN EdgeRows(g) : \A y :
                 Leading(cfg, EdgeRows(g)[r], g.edges.ids[i], y) => Len(Drawable(g, i, cfg.dir, cfg.types)) # 0
<1> DEFINE rows  == EdgeRows(g)
           ids   == g.edges.ids
           ahead == IF cfg.dir \in {"out", "both"} THEN Slice(g.edges.out, i) ELSE <<>>
           back  == IF cfg.dir \in {"in", "both"} THEN Slice(g.edges.in, i) ELSE <<>>
           A     == {j \in DOMAIN ahead : rows[ahead[j].row]["_type"] \in cfg.types}
           B     == {j \in DOMAIN back : /\ \A k \in DOMAIN ahead : ahead[k].row # back[j].row
                                         /\ rows[back[j].row]["_type"] \in cfg.types}
           a     == Picked(ahead, A)
           b     == Picked(back, B)
           U     == StepsOn(g, cfg, i)
<1>1. Drawable(g, i, cfg.dir, cfg.types) = a \o b
      BY DEF Drawable, Those
<1>2. /\ RowsListed(g.edges, Slice(g.edges.out, i), "_src", "_dst", ids[i])
      /\ RowsListed(g.edges, Slice(g.edges.in, i), "_dst", "_src", ids[i])
      BY BuiltSlices DEF WellBuilt
<1>3. rows = g.edges.data.rows
      BY DEF EdgeRows
<1>4. ASSUME cfg.dir \in {"out", "both"}
      PROVE  RowsListed(g.edges, ahead, "_src", "_dst", ids[i])
      BY <1>2, <1>4
<1>5. ASSUME cfg.dir \in {"in", "both"}
      PROVE  RowsListed(g.edges, back, "_dst", "_src", ids[i])
      BY <1>2, <1>5
<1>6. \E m \in Nat : DOMAIN ahead = 1..m
  <2>1. CASE cfg.dir \in {"out", "both"}
        BY <1>4, <2>1 DEF RowsListed
  <2>2. CASE cfg.dir \notin {"out", "both"}
        BY <2>2
  <2>3. QED BY <2>1, <2>2
<1>7. \E m \in Nat : DOMAIN back = 1..m
  <2>1. CASE cfg.dir \in {"in", "both"}
        BY <1>5, <2>1 DEF RowsListed
  <2>2. CASE cfg.dir \notin {"in", "both"}
        BY <2>2
  <2>3. QED BY <2>1, <2>2
<1>8. cfg.dir \notin {"out", "both"} => DOMAIN ahead = {}
      OBVIOUS
<1>9. cfg.dir \notin {"in", "both"} => DOMAIN back = {}
      OBVIOUS
<1> HIDE DEF ahead, back, rows, ids
<1>10. ASSUME NEW j \in A PROVE ahead[j] \in U
  <2>1. cfg.dir \in {"out", "both"} /\ j \in DOMAIN ahead
        BY <1>8
  <2>2. /\ ahead[j] = [to |-> ahead[j].to, row |-> ahead[j].row]
        /\ ahead[j].row \in DOMAIN rows /\ ahead[j].to \in DOMAIN g.edges.ids
        /\ rows[ahead[j].row]["_src"] = ids[i] /\ ids[ahead[j].to] = rows[ahead[j].row]["_dst"]
        BY <1>3, <1>4, <2>1 DEF RowsListed, ids
  <2>3. Leading(cfg, rows[ahead[j].row], ids[i], ids[ahead[j].to])
        BY <2>1, <2>2 DEF Leading
  <2>4. ahead[j] \in [to : DOMAIN g.edges.ids, row : DOMAIN rows]
        BY <2>2
  <2>5. QED BY <2>3, <2>4 DEF StepsOn, rows, ids
<1>11. ASSUME NEW j \in B PROVE back[j] \in U
  <2>1. cfg.dir \in {"in", "both"} /\ j \in DOMAIN back
        BY <1>9
  <2>2. /\ back[j] = [to |-> back[j].to, row |-> back[j].row]
        /\ back[j].row \in DOMAIN rows /\ back[j].to \in DOMAIN g.edges.ids
        /\ rows[back[j].row]["_dst"] = ids[i] /\ ids[back[j].to] = rows[back[j].row]["_src"]
        BY <1>3, <1>5, <2>1 DEF RowsListed, ids
  <2>3. Leading(cfg, rows[back[j].row], ids[i], ids[back[j].to])
        BY <2>1, <2>2 DEF Leading
  <2>4. back[j] \in [to : DOMAIN g.edges.ids, row : DOMAIN rows]
        BY <2>2
  <2>5. QED BY <2>3, <2>4 DEF StepsOn, rows, ids
<1>12. ASSUME NEW r \in DOMAIN rows, NEW y, Leading(cfg, rows[r], ids[i], y) PROVE A # {} \/ B # {}
  <2>1. CASE cfg.dir \in {"out", "both"} /\ rows[r]["_src"] = ids[i]
    <3>1. PICK j \in DOMAIN ahead : ahead[j].row = r
          BY <1>3, <1>4, <2>1 DEF RowsListed
    <3>2. QED BY <1>12, <3>1 DEF Leading
  <2>2. CASE cfg.dir \in {"in", "both"} /\ rows[r]["_dst"] = ids[i]
    <3>1. PICK j \in DOMAIN back : back[j].row = r
          BY <1>3, <1>5, <2>2 DEF RowsListed
    <3>2. rows[r]["_type"] \in cfg.types
          BY <1>12 DEF Leading
    <3>3. QED BY <3>1, <3>2
  <2>3. QED BY <1>12, <2>1, <2>2 DEF Leading
<1>13. A \subseteq DOMAIN ahead /\ B \subseteq DOMAIN back
       OBVIOUS
<1> HIDE DEF A, B, U
<1>14. a \in Seq(U) /\ (A # {} => Len(a) # 0)
       BY <1>6, <1>10, <1>13, PickedList
<1>15. b \in Seq(U) /\ (B # {} => Len(b) # 0)
       BY <1>7, <1>11, <1>13, PickedList
<1> HIDE DEF a, b
<1>16. a \o b \in Seq(U) /\ Len(a \o b) = Len(a) + Len(b) /\ Len(a) \in Nat /\ Len(b) \in Nat
       BY <1>14, <1>15, ConcatProperties, LenProperties
<1>17. A # {} \/ B # {} => Len(a \o b) # 0
       BY <1>14, <1>15, <1>16
<1>18. QED BY <1>1, <1>12, <1>16, <1>17 DEF rows, ids, U

\* A draw is at most so many of the candidates.
LEMMA DrawsAre ==
    ASSUME NEW n \in Nat, NEW most \in Nat, NEW replace, NEW d \in Draws(n, most, replace)
    PROVE  d \in Seq(1..n) /\ Len(d) \in 0..most
<1>1. CASE n = 0
      BY <1>1 DEF Draws
<1>2. CASE d \in [1..most -> 1..n]
      BY <1>2
<1>3. CASE most >= n /\ d = [i \in 1..n |-> i]
  <2>1. d \in [1..n -> 1..n]
        BY <1>3
  <2>2. QED BY <1>3, <2>1
<1>4. QED BY <1>1, <1>2, <1>3 DEF Draws

-----------------------------------------------------------------------------

\* What a sample is made of.
SampleStates(g) ==
    [nodes : Seq(DOMAIN g.edges.ids), nodeRows : Seq({g.nodes.index[x] : x \in AllIds(g)}),
     src : Seq(DOMAIN g.edges.ids), dst : Seq(DOMAIN g.edges.ids), rows : Seq(DOMAIN EdgeRows(g)), hop : Nat,
     frontier : Seq(DOMAIN g.edges.ids), next : Seq(DOMAIN g.edges.ids)]

\* The nodes of a sample are listed once, beside their rows.
NodesListed(g, s) ==
    /\ IsInjective(s.nodes) /\ DOMAIN s.nodeRows = DOMAIN s.nodes
    /\ \A k \in DOMAIN s.nodes : s.nodeRows[k] = g.nodes.index[g.edges.ids[s.nodes[k]]]

\* t is s with node i listed.
ListedToo(g, s, i, t) ==
    /\ t \in SampleStates(g) /\ NodesListed(g, t) /\ ToSet(t.nodes) = ToSet(s.nodes) \cup {i}
    /\ t.src = s.src /\ t.dst = s.dst /\ t.rows = s.rows
    /\ t.hop = s.hop /\ t.frontier = s.frontier /\ t.next = s.next

\* A node that is met is listed.
LEMMA MetIs ==
    ASSUME NEW g, NEW s \in SampleStates(g), NodesListed(g, s),
           NEW i \in DOMAIN g.edges.ids, g.edges.ids[i] \in AllIds(g)
    PROVE  ListedToo(g, s, i, Met(g, s, i))
<1> DEFINE ids == DOMAIN g.edges.ids
           at  == {g.nodes.index[x] : x \in AllIds(g)}
           row == g.nodes.index[g.edges.ids[i]]
           a   == Append(s.nodes, i)
           b   == Append(s.nodeRows, row)
           t   == Met(g, s, i)
           n   == Len(s.nodes)
<1>1. /\ t = IF i \in ToSet(s.nodes) THEN s ELSE [s EXCEPT !.nodes = a, !.nodeRows = b]
      BY DEF Met
<1>2. s.nodes \in Seq(ids) /\ s.nodeRows \in Seq(at) /\ row \in at
      BY DEF SampleStates
<1>3. /\ a \in Seq(ids) /\ ToSet(a) = ToSet(s.nodes) \cup {i}
      /\ i \notin ToSet(s.nodes) => IsInjective(a)
  <2> DEFINE q == s.nodes
  <2>1. q \in Seq(ids) /\ i \in ids /\ IsInjective(q)
        BY <1>2 DEF NodesListed
  <2> HIDE DEF q, ids
  <2>2. QED BY <2>1, OneMore DEF q
<1>4. /\ n \in Nat /\ DOMAIN s.nodes = 1..n /\ DOMAIN s.nodeRows = 1..n
      BY <1>2, LenProperties DEF NodesListed
<1>5. /\ DOMAIN a = 1..(n + 1) /\ a[n + 1] = i /\ \A k \in 1..n : a[k] = s.nodes[k]
  <2> DEFINE q == s.nodes
  <2>1. q \in Seq(ids) /\ i \in ids /\ n = Len(q)
        BY <1>2
  <2> HIDE DEF q, ids, n
  <2>2. QED BY <2>1, AppendProperties, LenProperties DEF q
<1>6. /\ b \in Seq(at) /\ DOMAIN b = 1..(n + 1) /\ b[n + 1] = row /\ \A k \in 1..n : b[k] = s.nodeRows[k]
  <2> DEFINE q == s.nodeRows
  <2>1. q \in Seq(at) /\ row \in at /\ n = Len(q)
        BY <1>2, <1>4, LenProperties
  <2> HIDE DEF q, at, row, n
  <2>2. QED BY <2>1, AppendProperties, LenProperties DEF q
<1>7. CASE i \in ToSet(s.nodes)
      BY <1>1, <1>7 DEF ListedToo
<1>8. CASE i \notin ToSet(s.nodes)
  <2>1. t = [s EXCEPT !.nodes = a, !.nodeRows = b]
        BY <1>1, <1>8
  <2> HIDE DEF a, b, t
  <2>2. /\ t.nodes = a /\ t.nodeRows = b
        /\ t.src = s.src /\ t.dst = s.dst /\ t.rows = s.rows
        /\ t.hop = s.hop /\ t.frontier = s.frontier /\ t.next = s.next
        BY <2>1 DEF SampleStates
  <2>3. t \in SampleStates(g)
        BY <1>3, <1>6, <2>1 DEF SampleStates
  <2>4. ASSUME NEW k \in DOMAIN a PROVE b[k] = g.nodes.index[g.edges.ids[a[k]]]
    <3>1. CASE k \in 1..n
          BY <1>4, <1>5, <1>6, <3>1 DEF NodesListed
    <3>2. CASE k = n + 1
          BY <1>5, <1>6, <3>2
    <3>3. QED BY <1>4, <1>5, <3>1, <3>2
  <2>5. NodesListed(g, t)
        BY <1>3, <1>5, <1>6, <1>8, <2>2, <2>4 DEF NodesListed
  <2>6. QED BY <1>3, <2>2, <2>3, <2>5 DEF ListedToo, t
<1>9. QED BY <1>7, <1>8

\* The nodes with these ids.
StartsOf(g, from) == {i \in DOMAIN g.edges.ids : g.edges.ids[i] \in from}

\* Each drawn row leads on from a node that was started from or drawn before.
RowsLead(g, cfg, from, s) ==
    /\ DOMAIN s.src = DOMAIN s.rows /\ DOMAIN s.dst = DOMAIN s.rows
    /\ \A k \in DOMAIN s.rows :
          /\ Leading(cfg, EdgeRows(g)[s.rows[k]], g.edges.ids[s.src[k]], g.edges.ids[s.dst[k]])
          /\ g.edges.ids[s.src[k]] \in from \/ \E j \in 1..(k - 1) : s.dst[j] = s.src[k]

\* u is t with the row of p drawn from i.
DrawnToo(g, t, i, p, u) ==
    /\ u \in SampleStates(g) /\ NodesListed(g, u) /\ ToSet(u.nodes) = ToSet(t.nodes) \cup {p.to}
    /\ u.src = Append(t.src, i) /\ u.dst = Append(t.dst, p.to) /\ u.rows = Append(t.rows, p.row)
    /\ u.next = Append(t.next, p.to) /\ u.hop = t.hop /\ u.frontier = t.frontier

\* The nodes that are numbered are nodes.
LEMMA NumberedNodes ==
    ASSUME NEW g, WellBuilt(g), NEW i \in DOMAIN g.edges.ids
    PROVE  g.edges.ids[i] \in AllIds(g)
<1>1. ToSet(g.edges.ids) = EndsOf(g.edges.data)
      BY BuiltParts DEF WellBuilt
<1>2. g.edges.ids[i] \in EndsOf(g.edges.data)
      BY <1>1 DEF ToSet
<1>3. IsFrame(g)
      BY WellBuiltFrame
<1>4. QED BY <1>2, <1>3, EndsAreNodes DEF EndsOf, EdgeRows, ToSet

\* What is drawn is put down.
LEMMA DrawnIs ==
    ASSUME NEW g, NEW t \in SampleStates(g), NodesListed(g, t), NEW cfg, NEW i \in DOMAIN g.edges.ids,
           NEW p \in StepsOn(g, cfg, i), g.edges.ids[p.to] \in AllIds(g)
    PROVE  DrawnToo(g, t, i, p, Drawn(g, t, i, p))
<1> DEFINE ids == DOMAIN g.edges.ids
           y   == p.to
           m   == Met(g, t, y)
           a   == Append(m.src, i)
           b   == Append(m.dst, y)
           c   == Append(m.rows, p.row)
           d   == Append(m.next, y)
           u   == Drawn(g, t, i, p)
<1>1. u = [m EXCEPT !.src = a, !.dst = b, !.rows = c, !.next = d]
      BY DEF Drawn
<1>2. y \in ids /\ p.row \in DOMAIN EdgeRows(g)
      BY DEF StepsOn
<1>3. ListedToo(g, t, y, m)
      BY <1>2, MetIs
<1> HIDE DEF m, y
<1>4. m \in SampleStates(g)
      BY <1>3 DEF ListedToo
<1>5. /\ m.src \in Seq(ids) /\ m.dst \in Seq(ids) /\ m.next \in Seq(ids) /\ m.rows \in Seq(DOMAIN EdgeRows(g))
      BY <1>4 DEF SampleStates
<1>6. a \in Seq(ids) /\ b \in Seq(ids) /\ d \in Seq(ids) /\ c \in Seq(DOMAIN EdgeRows(g))
  <2> DEFINE e == DOMAIN EdgeRows(g)
             r == p.row
  <2> HIDE DEF ids, e, r
  <2>1. i \in ids /\ y \in ids /\ r \in e
        BY <1>2 DEF ids, e, r
  <2>2. m.src \in Seq(ids) /\ m.dst \in Seq(ids) /\ m.next \in Seq(ids) /\ m.rows \in Seq(e)
        BY <1>5 DEF ids, e
  <2>3. Append(m.rows, r) \in Seq(e)
        BY <2>1, <2>2, AppendProperties
  <2>4. a \in Seq(ids)
        BY <2>1, <2>2, AppendProperties
  <2>5. b \in Seq(ids) /\ d \in Seq(ids)
        BY <2>1, <2>2, AppendProperties
  <2>6. QED BY <2>3, <2>4, <2>5 DEF ids, e, r
<1> HIDE DEF a, b, c, d, u
<1>7. u \in SampleStates(g)
      BY <1>1, <1>4, <1>6 DEF SampleStates
<1>8. /\ u.src = a /\ u.dst = b /\ u.rows = c /\ u.next = d /\ u.hop = m.hop /\ u.frontier = m.frontier
      /\ u.nodes = m.nodes /\ u.nodeRows = m.nodeRows
      BY <1>1, <1>4 DEF SampleStates
<1>9. /\ m.src = t.src /\ m.dst = t.dst /\ m.rows = t.rows /\ m.next = t.next /\ m.hop = t.hop
      /\ m.frontier = t.frontier /\ NodesListed(g, m) /\ ToSet(m.nodes) = ToSet(t.nodes) \cup {y}
      BY <1>3 DEF ListedToo
<1>10. NodesListed(g, u)
      BY <1>8, <1>9 DEF NodesListed
<1>11. QED BY <1>7, <1>8, <1>9, <1>10 DEF DrawnToo, a, b, c, d, u, y

\* One more row that leads on.
LEMMA RowsLeadOn ==
    ASSUME NEW g, NEW cfg, NEW from, NEW t \in SampleStates(g), RowsLead(g, cfg, from, t),
           NEW i \in DOMAIN g.edges.ids, NEW p \in StepsOn(g, cfg, i), NEW u, DrawnToo(g, t, i, p, u),
           i \in StartsOf(g, from) \cup ToSet(t.dst)
    PROVE  RowsLead(g, cfg, from, u)
<1> DEFINE ids == DOMAIN g.edges.ids
           e   == DOMAIN EdgeRows(g)
           n   == Len(t.rows)
           y   == p.to
           r   == p.row
<1>1. t.src \in Seq(ids) /\ t.dst \in Seq(ids) /\ t.rows \in Seq(e)
      BY DEF SampleStates
<1>2. y \in ids /\ r \in e /\ Leading(cfg, EdgeRows(g)[r], g.edges.ids[i], g.edges.ids[y])
      BY DEF StepsOn
<1>3. u.src = Append(t.src, i) /\ u.dst = Append(t.dst, y) /\ u.rows = Append(t.rows, r)
      BY DEF DrawnToo
<1> HIDE DEF ids, e, y, r
<1>4. n \in Nat /\ DOMAIN t.rows = 1..n /\ DOMAIN t.src = 1..n /\ DOMAIN t.dst = 1..n
      BY <1>1, LenProperties DEF RowsLead
<1>5. i \in ids
      BY DEF ids
<1>6. Len(t.src) = n /\ Len(t.dst) = n
      BY <1>4, ListLen
<1> HIDE DEF n
<1>7. DOMAIN u.src = 1..(n + 1) /\ u.src[n + 1] = i /\ \A k \in 1..n : u.src[k] = t.src[k]
      BY <1>1, <1>3, <1>5, <1>6, AppendProperties, LenProperties
<1>8. DOMAIN u.dst = 1..(n + 1) /\ u.dst[n + 1] = y /\ \A k \in 1..n : u.dst[k] = t.dst[k]
      BY <1>1, <1>2, <1>3, <1>6, AppendProperties, LenProperties
<1>9. DOMAIN u.rows = 1..(n + 1) /\ u.rows[n + 1] = r /\ \A k \in 1..n : u.rows[k] = t.rows[k]
  <2>1. Len(t.rows) = n
        BY DEF n
  <2>2. QED BY <1>1, <1>2, <1>3, <2>1, AppendProperties, LenProperties
<1>10. ASSUME NEW k \in 1..n
       PROVE  /\ Leading(cfg, EdgeRows(g)[u.rows[k]], g.edges.ids[u.src[k]], g.edges.ids[u.dst[k]])
              /\ g.edges.ids[u.src[k]] \in from \/ \E j \in 1..(k - 1) : u.dst[j] = u.src[k]
  <2>1. /\ Leading(cfg, EdgeRows(g)[t.rows[k]], g.edges.ids[t.src[k]], g.edges.ids[t.dst[k]])
        /\ g.edges.ids[t.src[k]] \in from \/ \E j \in 1..(k - 1) : t.dst[j] = t.src[k]
        BY <1>4 DEF RowsLead
  <2>2. 1..(k - 1) \subseteq 1..n
        BY <1>4
  <2>3. QED BY <1>7, <1>8, <1>9, <2>1, <2>2
<1>11. g.edges.ids[i] \in from \/ \E j \in 1..n : u.dst[j] = i
       BY <1>4, <1>8 DEF StartsOf, ToSet
<1>12. ASSUME NEW k \in 1..(n + 1)
       PROVE  /\ Leading(cfg, EdgeRows(g)[u.rows[k]], g.edges.ids[u.src[k]], g.edges.ids[u.dst[k]])
              /\ g.edges.ids[u.src[k]] \in from \/ \E j \in 1..(k - 1) : u.dst[j] = u.src[k]
  <2>1. CASE k \in 1..n
        BY <1>10, <2>1
  <2>2. CASE k = n + 1
    <3>1. 1..(k - 1) = 1..n
          BY <1>4, <2>2
    <3>2. QED BY <1>2, <1>7, <1>8, <1>9, <1>11, <2>2, <3>1
  <2>3. QED BY <1>4, <2>1, <2>2
<1>13. QED BY <1>7, <1>8, <1>9, <1>12 DEF RowsLead

\* So many rows have been drawn from i since s, which is t now.
Drawing(g, cfg, from, s, i, k, t) ==
    /\ t \in SampleStates(g) /\ NodesListed(g, t) /\ RowsLead(g, cfg, from, t)
    /\ ToSet(t.nodes) = StartsOf(g, from) \cup ToSet(t.dst)
    /\ t.hop = s.hop /\ t.frontier = s.frontier
    /\ ToSet(s.nodes) \subseteq ToSet(t.nodes) /\ ToSet(t.next) \subseteq ToSet(t.nodes)
    /\ \A j \in ToSet(t.nodes) : g.edges.ids[j] \in Within(g, cfg.types, cfg.dir, from, s.hop)
    /\ \A x : /\ CountOf(t.src, x) = CountOf(s.src, x) + (IF x = i THEN k ELSE 0)
              /\ CountOf(t.dst, x) - CountOf(t.next, x) = CountOf(s.dst, x) - CountOf(s.next, x)

\* One row more.
LEMMA DrawingNext ==
    ASSUME NEW g, WellBuilt(g), NEW cfg, NEW from, NEW s \in SampleStates(g), NEW h \in Nat, s.hop = h + 1,
           NEW i \in ToSet(s.nodes), i \in DOMAIN g.edges.ids,
           g.edges.ids[i] \in Within(g, cfg.types, cfg.dir, from, h),
           NEW k \in Nat, NEW t, Drawing(g, cfg, from, s, i, k, t), NEW p \in StepsOn(g, cfg, i)
    PROVE  Drawing(g, cfg, from, s, i, k + 1, Drawn(g, t, i, p))
<1> DEFINE u    == Drawn(g, t, i, p)
           y    == p.to
           W(n) == Within(g, cfg.types, cfg.dir, from, n)
<1>1. t \in SampleStates(g) /\ NodesListed(g, t) /\ RowsLead(g, cfg, from, t)
      BY DEF Drawing
<1>2. y \in DOMAIN g.edges.ids /\ p.row \in DOMAIN EdgeRows(g)
      /\ Leading(cfg, EdgeRows(g)[p.row], g.edges.ids[i], g.edges.ids[y])
      BY DEF StepsOn
<1>3. g.edges.ids[y] \in AllIds(g)
      BY <1>2, NumberedNodes
<1>4. DrawnToo(g, t, i, p, u)
      BY <1>1, <1>3, DrawnIs
<1> HIDE DEF u
<1>5. ToSet(t.nodes) = StartsOf(g, from) \cup ToSet(t.dst) /\ i \in ToSet(t.nodes)
      BY DEF Drawing
<1>6. RowsLead(g, cfg, from, u)
      BY <1>1, <1>4, <1>5, RowsLeadOn
<1>7. /\ u.src = Append(t.src, i) /\ u.dst = Append(t.dst, y) /\ u.next = Append(t.next, y)
      /\ u.hop = t.hop /\ u.frontier = t.frontier /\ ToSet(u.nodes) = ToSet(t.nodes) \cup {y}
      /\ u \in SampleStates(g) /\ NodesListed(g, u)
      BY <1>4 DEF DrawnToo
<1>8. t.src \in Seq(DOMAIN g.edges.ids) /\ t.dst \in Seq(DOMAIN g.edges.ids) /\ t.next \in Seq(DOMAIN g.edges.ids)
      BY <1>1 DEF SampleStates
<1>9. ToSet(u.dst) = ToSet(t.dst) \cup {y} /\ ToSet(u.next) = ToSet(t.next) \cup {y}
  <2> DEFINE ids == DOMAIN g.edges.ids
             a   == t.dst
             b   == t.next
  <2> HIDE DEF ids, a, b, y
  <2>1. y \in ids /\ a \in Seq(ids) /\ b \in Seq(ids) /\ u.dst = Append(a, y) /\ u.next = Append(b, y)
        BY <1>2, <1>7, <1>8 DEF ids, a, b
  <2>2. QED BY <2>1, OneMore DEF a, b
<1>10. g.edges.ids[y] \in W(h + 1)
  <2>1. RowLeads(EdgeRows(g)[p.row], cfg.types, cfg.dir, g.edges.ids[i], g.edges.ids[y])
        BY <1>2 DEF Leading, RowLeads
  <2>2. Leads(EdgeRows(g), cfg.types, cfg.dir, g.edges.ids[i], g.edges.ids[y])
        BY <1>2, <2>1 DEF Leads
  <2>3. g.edges.ids[y] \in LedTo(g, cfg.types, cfg.dir, W(h))
        BY <1>3, <2>2 DEF LedTo
  <2>4. IsFrame(g)
        BY WellBuiltFrame
  <2>5. QED BY <2>3, <2>4, WithinNext
<1>11. ASSUME NEW x
       PROVE  /\ CountOf(u.src, x) = CountOf(s.src, x) + (IF x = i THEN k + 1 ELSE 0)
              /\ CountOf(u.dst, x) - CountOf(u.next, x) = CountOf(s.dst, x) - CountOf(s.next, x)
  <2> DEFINE ids == DOMAIN g.edges.ids
             a   == t.src
             b   == t.dst
             c   == t.next
  <2> HIDE DEF ids, a, b, c, y
  <2>1. /\ y \in ids /\ i \in ids /\ a \in Seq(ids) /\ b \in Seq(ids) /\ c \in Seq(ids)
        /\ u.src = Append(a, i) /\ u.dst = Append(b, y) /\ u.next = Append(c, y)
        BY <1>2, <1>7, <1>8 DEF ids, a, b, c
  <2>2. CountOf(a, x) \in Nat /\ CountOf(u.src, x) = CountOf(a, x) + (IF i = x THEN 1 ELSE 0)
        BY <2>1, CountAppend
  <2>3. CountOf(b, x) \in Nat /\ CountOf(u.dst, x) = CountOf(b, x) + (IF y = x THEN 1 ELSE 0)
        BY <2>1, CountAppend
  <2>4. CountOf(c, x) \in Nat /\ CountOf(u.next, x) = CountOf(c, x) + (IF y = x THEN 1 ELSE 0)
        BY <2>1, CountAppend
  <2>5. /\ CountOf(a, x) = CountOf(s.src, x) + (IF x = i THEN k ELSE 0)
        /\ CountOf(b, x) - CountOf(c, x) = CountOf(s.dst, x) - CountOf(s.next, x)
        BY DEF Drawing, a, b, c
  <2>6. CountOf(s.src, x) \in Nat
        BY CountNat DEF SampleStates
  <2>7. QED BY <2>2, <2>3, <2>4, <2>5, <2>6
<1>12. /\ t.hop = s.hop /\ t.frontier = s.frontier
       /\ ToSet(s.nodes) \subseteq ToSet(t.nodes) /\ ToSet(t.next) \subseteq ToSet(t.nodes)
       /\ \A j \in ToSet(t.nodes) : g.edges.ids[j] \in W(s.hop)
       BY DEF Drawing
<1> HIDE DEF W, y
<1>13. \A j \in ToSet(u.nodes) : g.edges.ids[j] \in W(s.hop)
       BY <1>7, <1>10, <1>12
<1>14. QED BY <1>5, <1>6, <1>7, <1>9, <1>11, <1>12, <1>13 DEF Drawing, W, u

\* A list has its head and what is in its tail.
LEMMA TailHas ==
    ASSUME NEW U, NEW s \in Seq(U), s # <<>>
    PROVE  ToSet(s) = {Head(s)} \cup ToSet(Tail(s))
<1> DEFINE u == Tail(s)
           n == Len(s)
<1>1. /\ n \in Nat /\ n > 0 /\ DOMAIN s = 1..n /\ DOMAIN u = 1..(n - 1)
      /\ \A i \in 1..(n - 1) : u[i] = s[i + 1]
      BY HeadTailProperties, LenProperties, EmptySeq
<1>2. Head(s) = s[1]
      OBVIOUS
<1> HIDE DEF u, n
<1>3. ASSUME NEW k \in 1..n PROVE s[k] = s[1] \/ s[k] \in ToSet(u)
  <2>1. CASE k = 1
        BY <2>1
  <2>2. CASE k # 1
    <3>1. k - 1 \in 1..(n - 1) /\ (k - 1) + 1 = k
          BY <1>1, <2>2
    <3>2. u[k - 1] = s[k]
          BY <1>1, <3>1
    <3>3. QED BY <1>1, <3>1, <3>2 DEF ToSet
  <2>3. QED BY <2>1, <2>2
<1>4. ASSUME NEW k \in 1..(n - 1) PROVE u[k] \in ToSet(s)
  <2>1. k + 1 \in 1..n /\ u[k] = s[k + 1]
        BY <1>1
  <2>2. QED BY <1>1, <2>1 DEF ToSet
<1>5. s[1] \in ToSet(s) /\ (\A x \in ToSet(s) : \E k \in 1..n : x = s[k]) /\ \A x \in ToSet(u) : \E k \in 1..(n - 1) : x = u[k]
      BY <1>1 DEF ToSet
<1>6. QED BY <1>2, <1>3, <1>4, <1>5 DEF u

\* The draws of node i among the candidates found.
DrawsKind(g, i, found) == [fold |-> "draws", g |-> g, i |-> i, found |-> found]

DrawsMade(g, i, found, base, d, m, h) == h[0] = base /\ \A k \in 1..m : h[k] = Drawn(g, h[k - 1], i, found[d[k]])
DrawAll(g, base, i, found, d) == FoldLeft(LAMBDA acc, k : Drawn(g, acc, i, found[k]), base, d)

\* Draws are made one by one.
LEMMA DrawsFold ==
    ASSUME NEW g, NEW i, NEW found, NEW base, NEW d, NEW m \in Nat, DOMAIN d = 1..m
    PROVE  \E h : DrawsMade(g, i, found, base, d, m, h) /\ DrawAll(g, base, i, found, d) = h[m]
<1> DEFINE N(t, x) == Drawn(g, t, i, found[x])
           W == CHOOSE f : f = [T \in SUBSET (1..m) |-> IF T = {} THEN base ELSE N(f[T \ {Max(T)}], d[Max(T)])]
           all == DrawAll(g, base, i, found, d)
<1>1. all = W[1..m]
      BY DEF DrawAll, FoldLeft, MapThenFoldSet
<1>2. \A t, x : Added(DrawsKind(g, i, found), t, x) = N(t, x)
      BY DEF Added, DrawsKind
<1> HIDE DEF N
<1>3. ASSUME NEW f
      PROVE  OfParts(DrawsKind(g, i, found), base, d, m, f)
             <=> f = [T \in SUBSET (1..m) |-> IF T = {} THEN base ELSE N(f[T \ {Max(T)}], d[Max(T)])]
      BY <1>2 DEF OfParts
<1>4. OfParts(DrawsKind(g, i, found), base, d, m, W)
      BY <1>3, FoldSteps
<1> HIDE DEF W, all
<1>5. PICK h : UpTo(DrawsKind(g, i, found), base, d, m, h) /\ all = h[m]
      BY <1>1, <1>4, FoldSteps
<1> DEFINE kind == DrawsKind(g, i, found)
<1> HIDE DEF kind
<1>6. UpTo(kind, base, d, m, h) /\ m \in Nat
      BY <1>5 DEF kind
<1>7. h[0] = base /\ \A k \in 1..m : h[k] = Added(kind, h[k - 1], d[k])
      BY ONLY <1>6, UpToIs
<1>8. \A k \in 1..m : h[k] = N(h[k - 1], d[k])
      BY <1>2, <1>7 DEF kind
<1>9. DrawsMade(g, i, found, base, d, m, h)
      BY <1>7, <1>8 DEF DrawsMade, N
<1>10. QED BY <1>5, <1>9 DEF all

\* All of them.
LEMMA DrawingAll ==
    ASSUME NEW g, WellBuilt(g), NEW cfg, NEW from, NEW s \in SampleStates(g), NEW hop \in Nat, s.hop = hop + 1,
           NEW i \in ToSet(s.nodes), i \in DOMAIN g.edges.ids,
           g.edges.ids[i] \in Within(g, cfg.types, cfg.dir, from, hop),
           Drawing(g, cfg, from, s, i, 0, s),
           NEW n \in Nat, NEW found, \A k \in 1..n : found[k] \in StepsOn(g, cfg, i),
           NEW m \in Nat, NEW d \in [1..m -> 1..n]
    PROVE  Drawing(g, cfg, from, s, i, m, DrawAll(g, s, i, found, d))
<1> DEFINE all == DrawAll(g, s, i, found, d)
<1>1. PICK h : /\ h[0] = s /\ \A k \in 1..m : h[k] = Drawn(g, h[k - 1], i, found[d[k]])
               /\ all = h[m]
  <2> DEFINE list == d
  <2>1. DOMAIN list = 1..m
        OBVIOUS
  <2> HIDE DEF list
  <2>2. \E h : DrawsMade(g, i, found, s, list, m, h) /\ DrawAll(g, s, i, found, list) = h[m]
        BY <2>1, DrawsFold
  <2>3. QED BY <2>2 DEF list, DrawsMade
<1> HIDE DEF all
<1> DEFINE T == {k \in Nat : k <= m => Drawing(g, cfg, from, s, i, k, h[k])}
<1>2. 0 \in T
      BY <1>1
<1>3. ASSUME NEW k \in Nat, k \in T PROVE k + 1 \in T
  <2>1. SUFFICES ASSUME k + 1 <= m PROVE Drawing(g, cfg, from, s, i, k + 1, h[k + 1])
        OBVIOUS
  <2>2. k + 1 \in 1..m /\ (k + 1) - 1 = k /\ k <= m
        BY <2>1
  <2> DEFINE p == found[d[k + 1]]
             t == h[k]
  <2>3. p \in StepsOn(g, cfg, i) /\ h[k + 1] = Drawn(g, t, i, p)
        BY <1>1, <2>2
  <2>4. Drawing(g, cfg, from, s, i, k, t)
        BY <1>3, <2>2
  <2> HIDE DEF p, t
  <2>5. Drawing(g, cfg, from, s, i, k + 1, Drawn(g, t, i, p))
        BY <2>3, <2>4, DrawingNext
  <2>6. QED BY <2>3, <2>5
<1>4. m \in T
  <2> HIDE DEF T
  <2>1. QED BY <1>2, <1>3, NatSetInduction
<1>5. Drawing(g, cfg, from, s, i, m, h[m])
      BY <1>4
<1>6. QED BY <1>1, <1>5 DEF all

\* The configurations of a sample.
SampleConfigs ==
    [hops : Nat, fanOut : Seq(Nat), dir : {"out", "in", "both", "none"}, types : SUBSET STRING, replace : BOOLEAN]

\* How often a node was met and has had its draws.
Used(g, from, s, x) ==
    CountOf(s.dst, x) + (IF g.edges.ids[x] \in from THEN 1 ELSE 0) - CountOf(s.frontier, x) - CountOf(s.next, x)
MostOf(cfg) == Max({0} \cup ToSet(cfg.fanOut))

\* A sample of cfg from some nodes, between any two draws.
SampleGrows(g, cfg, from, s) ==
    /\ s \in SampleStates(g) /\ NodesListed(g, s) /\ RowsLead(g, cfg, from, s)
    /\ ToSet(s.nodes) = StartsOf(g, from) \cup ToSet(s.dst)
    /\ s.hop \in 1..(cfg.hops + 1)
    /\ ToSet(s.frontier) \subseteq ToSet(s.nodes) /\ ToSet(s.next) \subseteq ToSet(s.nodes)
    /\ \A j \in ToSet(s.frontier) : g.edges.ids[j] \in Within(g, cfg.types, cfg.dir, from, s.hop - 1)
    /\ \A j \in ToSet(s.nodes) :
          g.edges.ids[j] \in Within(g, cfg.types, cfg.dir, from, IF s.hop <= cfg.hops THEN s.hop ELSE cfg.hops)
    /\ \A x \in DOMAIN g.edges.ids :
          Used(g, from, s, x) \in Nat /\ CountOf(s.src, x) <= Used(g, from, s, x) * MostOf(cfg)

\* When a hop is over, what it has found is the next frontier.
LEMMA HopOver ==
    ASSUME NEW g, WellBuilt(g), NEW cfg \in SampleConfigs, NEW from, NEW s, SampleGrows(g, cfg, from, s),
           s.hop <= cfg.hops, s.frontier = <<>>
    PROVE  SampleGrows(g, cfg, from, [s EXCEPT !.frontier = s.next, !.next = <<>>, !.hop = s.hop + 1])
<1> DEFINE none == <<>>
           t    == [s EXCEPT !.frontier = s.next, !.next = none, !.hop = s.hop + 1]
           W(n) == Within(g, cfg.types, cfg.dir, from, n)
<1>1. s \in SampleStates(g) /\ cfg.hops \in Nat
      BY DEF SampleGrows, SampleConfigs
<1>2. none \in Seq(DOMAIN g.edges.ids) /\ (\A x : CountOf(none, x) = 0) /\ ToSet(none) = {} /\ s.frontier = none
      BY CountNone, EmptySeq
<1> HIDE DEF none
<1>3. t \in SampleStates(g)
  <2> DEFINE found == s.next
             more  == s.hop + 1
  <2>1. found \in Seq(DOMAIN g.edges.ids) /\ more \in Nat
        BY <1>1 DEF SampleStates
  <2>2. t = [s EXCEPT !.frontier = found, !.next = none, !.hop = more]
        OBVIOUS
  <2> HIDE DEF found, more, t
  <2>3. QED BY <1>1, <1>2, <2>1, <2>2 DEF SampleStates
<1>4. /\ t.nodes = s.nodes /\ t.nodeRows = s.nodeRows /\ t.src = s.src /\ t.dst = s.dst /\ t.rows = s.rows
      /\ t.frontier = s.next /\ t.next = none /\ t.hop = s.hop + 1
      BY <1>1 DEF SampleStates
<1> HIDE DEF t
<1>5. NodesListed(g, t) /\ RowsLead(g, cfg, from, t) /\ ToSet(t.nodes) = StartsOf(g, from) \cup ToSet(t.dst)
  <2>1. NodesListed(g, s) /\ RowsLead(g, cfg, from, s) /\ ToSet(s.nodes) = StartsOf(g, from) \cup ToSet(s.dst)
        BY DEF SampleGrows
  <2>2. NodesListed(g, t)
        BY <1>4, <2>1 DEF NodesListed
  <2>3. RowsLead(g, cfg, from, t)
        BY <1>4, <2>1 DEF RowsLead
  <2>4. QED BY <1>4, <2>1, <2>2, <2>3
<1>6. /\ \A j \in ToSet(s.nodes) : g.edges.ids[j] \in W(s.hop)
      /\ ToSet(s.next) \subseteq ToSet(s.nodes) /\ s.hop \in 1..(cfg.hops + 1)
      BY DEF SampleGrows
<1>7. W(s.hop) \subseteq W(s.hop + 1)
  <2>1. s.hop \in Nat /\ IsFrame(g)
        BY <1>1, <1>6, WellBuiltFrame
  <2>2. QED BY <2>1, WithinNext
<1> HIDE DEF W
<1>8. \A j \in ToSet(t.nodes) : g.edges.ids[j] \in W(IF t.hop <= cfg.hops THEN t.hop ELSE cfg.hops)
  <2>1. CASE t.hop <= cfg.hops
        BY <1>4, <1>6, <1>7, <2>1
  <2>2. CASE ~(t.hop <= cfg.hops)
    <3>1. s.hop = cfg.hops
          BY <1>1, <1>4, <1>6, <2>2
    <3>2. QED BY <1>4, <1>6, <2>2, <3>1
  <2>3. QED BY <2>1, <2>2
<1>9. (t.hop - 1) = s.hop /\ t.hop \in 1..(cfg.hops + 1)
      BY <1>1, <1>4, <1>6
<1>10. \A j \in ToSet(t.frontier) : g.edges.ids[j] \in W(t.hop - 1)
       BY <1>4, <1>6, <1>9
<1>11. ASSUME NEW x \in DOMAIN g.edges.ids
       PROVE  Used(g, from, t, x) \in Nat /\ CountOf(t.src, x) <= Used(g, from, t, x) * MostOf(cfg)
  <2>1. Used(g, from, s, x) \in Nat /\ CountOf(s.src, x) <= Used(g, from, s, x) * MostOf(cfg)
        BY DEF SampleGrows
  <2>2. CountOf(s.next, x) \in Nat /\ CountOf(s.dst, x) \in Nat
        BY <1>1, CountNat DEF SampleStates
  <2>3. Used(g, from, t, x) = Used(g, from, s, x)
        BY <1>2, <1>4, <2>2 DEF Used
  <2>4. QED BY <1>4, <2>1, <2>3
<1>12. ToSet(t.frontier) \subseteq ToSet(t.nodes) /\ ToSet(t.next) \subseteq ToSet(t.nodes)
       BY <1>2, <1>4, <1>6
<1>13. SampleGrows(g, cfg, from, t)
       BY <1>3, <1>5, <1>8, <1>9, <1>10, <1>11, <1>12 DEF SampleGrows, W
<1>14. QED BY <1>13 DEF t, none

\* Numbers multiplied.
LEMMA OneTimesMore ==
    ASSUME NEW u \in Nat, NEW most \in Nat, NEW m \in Nat, m <= most, NEW c \in Nat, c <= u * most
    PROVE  c + m <= (u + 1) * most /\ c <= u * most
<1>1. (u + 1) * most = u * most + most /\ u * most \in Nat
      OBVIOUS
<1> DEFINE um == u * most
           un == (u + 1) * most
<1>2. un = um + most /\ um \in Nat /\ c <= um
      BY <1>1
<1> HIDE DEF um, un
<1>3. c + m <= un
      BY <1>2
<1>4. QED BY <1>3 DEF un

\* A node of the frontier draws its rows.
LEMMA FrontierDraws ==
    ASSUME NEW g, WellBuilt(g), NEW cfg \in SampleConfigs, ConfigError(cfg) = "ok", NEW from, NEW s,
           SampleGrows(g, cfg, from, s), s.hop <= cfg.hops, s.frontier # <<>>,
           NEW t \in DrawFrom(g, cfg, s)
    PROVE  SampleGrows(g, cfg, from, t)
<1> DEFINE ids   == DOMAIN g.edges.ids
           W(k)  == Within(g, cfg.types, cfg.dir, from, k)
           f     == s.frontier
           i     == Head(f)
           rest  == Tail(f)
           found == Drawable(g, i, cfg.dir, cfg.types)
           base  == [s EXCEPT !.frontier = rest]
           most  == cfg.fanOut[s.hop]
<1>1. PICK d \in Draws(Len(found), most, cfg.replace) :
         t = DrawAll(g, base, i, found, d)
      BY DEF DrawFrom, DrawAll
<1>2. s \in SampleStates(g) /\ cfg.hops \in Nat /\ cfg.fanOut \in Seq(Nat)
      BY DEF SampleGrows, SampleConfigs
<1>3. /\ i \in ids /\ rest \in Seq(ids) /\ ToSet(f) = {i} \cup ToSet(rest)
      /\ \A x : /\ CountOf(rest, x) \in Nat
                /\ CountOf(f, x) = CountOf(rest, x) + (IF i = x THEN 1 ELSE 0)
  <2>1. f \in Seq(ids) /\ f # <<>>
        BY <1>2 DEF SampleStates
  <2> HIDE DEF f, ids
  <2>2. i \in ids /\ rest \in Seq(ids)
        BY <2>1, HeadTailProperties
  <2>3. \A x : /\ CountOf(rest, x) \in Nat
               /\ CountOf(f, x) = CountOf(rest, x) + (IF i = x THEN 1 ELSE 0)
        BY <2>1, CountTail
  <2>4. ToSet(f) = {i} \cup ToSet(rest)
        BY <2>1, TailHas
  <2>5. QED BY <2>2, <2>3, <2>4
<1>4. found \in Seq(StepsOn(g, cfg, i))
      BY <1>3, DrawableLeads
<1> DEFINE n == Len(found)
           m == Len(d)
<1>5. n \in Nat /\ \A k \in 1..n : found[k] \in StepsOn(g, cfg, i)
      BY <1>4, LenProperties, ElementOfSeq
<1>6. s.hop \in DOMAIN cfg.fanOut /\ most \in Nat /\ most <= MostOf(cfg) /\ MostOf(cfg) \in Nat
  <2>1. Len(cfg.fanOut) >= cfg.hops /\ Len(cfg.fanOut) \in Nat /\ DOMAIN cfg.fanOut = 1..Len(cfg.fanOut)
        BY <1>2, LenProperties DEF ConfigError
  <2>2. s.hop \in 1..(cfg.hops + 1)
        BY DEF SampleGrows
  <2>3. s.hop \in DOMAIN cfg.fanOut
        BY <1>2, <2>1, <2>2
  <2>4. MostOf(cfg) \in Nat /\ cfg.fanOut[s.hop] <= MostOf(cfg)
        BY <1>2, <2>3, LargestIn DEF MostOf
  <2>5. cfg.fanOut[s.hop] \in Nat
        BY <1>2, <2>1, <2>3, ElementOfSeq
  <2>6. QED BY <2>3, <2>4, <2>5
<1>7. base \in SampleStates(g)
  <2> HIDE DEF rest
  <2>1. QED BY <1>2, <1>3 DEF SampleStates
<1>8. /\ base.nodes = s.nodes /\ base.nodeRows = s.nodeRows /\ base.src = s.src /\ base.dst = s.dst
      /\ base.rows = s.rows /\ base.next = s.next /\ base.hop = s.hop /\ base.frontier = rest
  <2> HIDE DEF rest
  <2>1. QED BY <1>2 DEF SampleStates
<1> HIDE DEF found, base, most, i, rest
<1>9. d \in [1..m -> 1..n] /\ m \in Nat /\ m <= most
  <2> HIDE DEF n, m
  <2>1. d \in Draws(n, most, cfg.replace)
        BY <1>1 DEF n
  <2>2. d \in Seq(1..n) /\ Len(d) \in 0..most
        BY <1>5, <1>6, <2>1, DrawsAre
  <2> DEFINE D == 1..n
  <2>3. d \in Seq(D) /\ Len(d) \in 0..most
        BY <2>2
  <2> HIDE DEF D
  <2>4. d \in [1..Len(d) -> D]
        BY <2>3, LenProperties
  <2>5. QED BY <1>6, <2>3, <2>4 DEF m, D
<1> HIDE DEF n, m
<1>10. /\ NodesListed(g, s) /\ RowsLead(g, cfg, from, s) /\ ToSet(s.nodes) = StartsOf(g, from) \cup ToSet(s.dst)
       /\ s.hop \in 1..(cfg.hops + 1)
       /\ ToSet(f) \subseteq ToSet(s.nodes) /\ ToSet(s.next) \subseteq ToSet(s.nodes)
       /\ \A j \in ToSet(f) : g.edges.ids[j] \in W(s.hop - 1)
       /\ \A j \in ToSet(s.nodes) : g.edges.ids[j] \in W(s.hop)
       BY DEF SampleGrows
<1> DEFINE hop == s.hop - 1
<1>11. hop \in Nat /\ base.hop = hop + 1 /\ g.edges.ids[i] \in W(hop) /\ i \in ToSet(base.nodes)
       BY <1>2, <1>3, <1>8, <1>10
<1> HIDE DEF hop
<1>12. Drawing(g, cfg, from, base, i, 0, base)
  <2>1. NodesListed(g, base)
        BY <1>8, <1>10 DEF NodesListed
  <2>2. RowsLead(g, cfg, from, base)
        BY <1>8, <1>10 DEF RowsLead
  <2>3. \A x : CountOf(base.src, x) = CountOf(base.src, x) + (IF x = i THEN 0 ELSE 0)
        BY <1>7, CountNat DEF SampleStates
  <2>4. QED BY <1>7, <1>8, <1>10, <2>1, <2>2, <2>3 DEF Drawing
<1>13. Drawing(g, cfg, from, base, i, m, t)
  <2>1. cfg \in SampleConfigs /\ WellBuilt(g) /\ i \in DOMAIN g.edges.ids
        BY <1>3
  <2>2. g.edges.ids[i] \in Within(g, cfg.types, cfg.dir, from, hop)
        BY <1>11
  <2>3. t = DrawAll(g, base, i, found, d)
        BY <1>1
  <2> HIDE DEF W, ids, f
  <2>4. Drawing(g, cfg, from, base, i, m, DrawAll(g, base, i, found, d))
        BY ONLY <1>5, <1>7, <1>9, <1>11, <1>12, <2>1, <2>2, DrawingAll
  <2>5. QED BY <2>3, <2>4
<1>14. /\ t \in SampleStates(g) /\ NodesListed(g, t) /\ RowsLead(g, cfg, from, t)
       /\ ToSet(t.nodes) = StartsOf(g, from) \cup ToSet(t.dst)
       /\ t.hop = s.hop /\ t.frontier = rest
       /\ ToSet(s.nodes) \subseteq ToSet(t.nodes) /\ ToSet(t.next) \subseteq ToSet(t.nodes)
       /\ \A j \in ToSet(t.nodes) : g.edges.ids[j] \in W(s.hop)
       BY <1>8, <1>13 DEF Drawing
<1>15. ASSUME NEW x \in ids
       PROVE  Used(g, from, t, x) \in Nat /\ CountOf(t.src, x) <= Used(g, from, t, x) * MostOf(cfg)
  <2> DEFINE u == Used(g, from, s, x)
             c == CountOf(s.src, x)
  <2>1. u \in Nat /\ c <= u * MostOf(cfg)
        BY DEF SampleGrows
  <2>2. c \in Nat /\ CountOf(s.dst, x) \in Nat /\ CountOf(s.next, x) \in Nat /\ CountOf(f, x) \in Nat
        BY <1>2, CountNat DEF SampleStates
  <2>3. CountOf(t.dst, x) \in Nat /\ CountOf(t.next, x) \in Nat
        BY <1>14, CountNat DEF SampleStates
  <2>4. /\ CountOf(t.src, x) = c + (IF x = i THEN m ELSE 0)
        /\ CountOf(t.dst, x) - CountOf(t.next, x) = CountOf(s.dst, x) - CountOf(s.next, x)
        BY <1>8, <1>13 DEF Drawing
  <2>5. CountOf(rest, x) \in Nat /\ CountOf(f, x) = CountOf(rest, x) + (IF i = x THEN 1 ELSE 0)
        BY <1>3
  <2>6. Used(g, from, t, x) = u + (IF x = i THEN 1 ELSE 0)
    <3> DEFINE e == IF g.edges.ids[x] \in from THEN 1 ELSE 0
    <3>1. /\ u = CountOf(s.dst, x) + e - CountOf(f, x) - CountOf(s.next, x)
          /\ Used(g, from, t, x) = CountOf(t.dst, x) + e - CountOf(rest, x) - CountOf(t.next, x)
          BY <1>14 DEF Used
    <3>2. e \in Nat
          OBVIOUS
    <3> DEFINE v  == Used(g, from, t, x)
               a  == CountOf(s.dst, x)
               b  == CountOf(f, x)
               n1 == CountOf(s.next, x)
               a2 == CountOf(t.dst, x)
               b2 == CountOf(rest, x)
               n2 == CountOf(t.next, x)
               o  == IF x = i THEN 1 ELSE 0
    <3>3. /\ a \in Nat /\ b \in Nat /\ n1 \in Nat /\ a2 \in Nat /\ b2 \in Nat /\ n2 \in Nat /\ o \in Nat
          /\ u = a + e - b - n1 /\ v = a2 + e - b2 - n2 /\ a2 - n2 = a - n1 /\ b = b2 + o
          BY <2>2, <2>3, <2>4, <2>5, <3>1
    <3> HIDE DEF u, e, v, a, b, n1, a2, b2, n2, o
    <3>4. v = u + o
          BY ONLY <3>2, <3>3
    <3>5. QED BY <3>4 DEF v, o
  <2> HIDE DEF u, c
  <2>7. c + m <= (u + 1) * MostOf(cfg)
    <3>1. m <= MostOf(cfg)
          BY <1>6, <1>9
    <3>2. QED BY <1>6, <1>9, <2>1, <2>2, <3>1, OneTimesMore
  <2>8. CASE x = i
        BY <2>1, <2>4, <2>6, <2>7, <2>8
  <2>9. CASE x # i
        BY <2>1, <2>2, <2>4, <2>6, <2>9
  <2>10. QED BY <2>8, <2>9
<1>16. /\ ToSet(t.frontier) \subseteq ToSet(t.nodes)
       /\ \A j \in ToSet(t.frontier) : g.edges.ids[j] \in W(t.hop - 1)
       BY <1>3, <1>10, <1>14
<1>17. \A j \in ToSet(t.nodes) : g.edges.ids[j] \in W(IF t.hop <= cfg.hops THEN t.hop ELSE cfg.hops)
       BY <1>14
<1>18. QED BY <1>10, <1>14, <1>15, <1>16, <1>17 DEF SampleGrows

\* The seeds of a sample.
SeedsKind(g) == [fold |-> "seeds", g |-> g]
SeedAll(g, base, seeds) == FoldLeft(LAMBDA acc, x : Seeded(g, acc, x), base, seeds)

\* Seeds are met one by one.
LEMMA SeedsFold ==
    ASSUME NEW g, NEW base, NEW seeds, NEW m \in Nat, DOMAIN seeds = 1..m
    PROVE  \E h : UpTo(SeedsKind(g), base, seeds, m, h)
                  /\ SeedAll(g, base, seeds) = h[m]
<1> DEFINE N(t, x) == Seeded(g, t, x)
           W == CHOOSE f : f = [T \in SUBSET (1..m) |-> IF T = {} THEN base ELSE N(f[T \ {Max(T)}], seeds[Max(T)])]
           all == SeedAll(g, base, seeds)
<1>1. all = W[1..m]
      BY DEF SeedAll, FoldLeft, MapThenFoldSet
<1>2. \A t, x : Added(SeedsKind(g), t, x) = N(t, x)
      BY DEF Added, SeedsKind
<1> HIDE DEF N
<1>3. ASSUME NEW f
      PROVE  OfParts(SeedsKind(g), base, seeds, m, f)
             <=> f = [T \in SUBSET (1..m) |-> IF T = {} THEN base ELSE N(f[T \ {Max(T)}], seeds[Max(T)])]
      BY <1>2 DEF OfParts
<1>4. OfParts(SeedsKind(g), base, seeds, m, W)
      BY <1>3, FoldSteps
<1> HIDE DEF W, all
<1>5. \E h : UpTo(SeedsKind(g), base, seeds, m, h) /\ all = h[m]
      BY <1>1, <1>4, FoldSteps
<1>6. QED BY <1>5 DEF all

\* A sample that has met these seeds, and nothing else.
Seeding(g, from, s) ==
    /\ s \in SampleStates(g) /\ NodesListed(g, s) /\ ToSet(s.nodes) = StartsOf(g, from)
    /\ s.src = <<>> /\ s.dst = <<>> /\ s.rows = <<>> /\ s.next = <<>> /\ s.hop = 1

\* One seed more.
LEMMA SeedingNext ==
    ASSUME NEW g, WellBuilt(g), NEW from, NEW s, Seeding(g, from, s), NEW x
    PROVE  Seeding(g, from \cup {x}, Seeded(g, s, x))
<1> DEFINE ids == g.edges.ids
           i   == LocalOf(ids, x)
           t   == Seeded(g, s, x)
           all == from \cup {x}
<1>1. PICK n \in Nat : DOMAIN ids = 1..n /\ IsInjective(ids)
      BY BuiltParts DEF WellBuilt
<1>2. s \in SampleStates(g) /\ NodesListed(g, s) /\ ToSet(s.nodes) = StartsOf(g, from)
      /\ s.src = <<>> /\ s.dst = <<>> /\ s.rows = <<>> /\ s.next = <<>> /\ s.hop = 1
      BY DEF Seeding
<1>3. InEdges(g, x) <=> x \in ToSet(ids)
      BY DEF InEdges
<1>4. CASE InEdges(g, x)
  <2>1. i \in DOMAIN ids /\ ids[i] = x
    <3>1. x \in ToSet(ids)
          BY <1>3, <1>4
    <3> HIDE DEF ids
    <3>2. QED BY <1>1, <3>1, LocalIs
  <2>2. t = Met(g, s, i)
        BY <1>4 DEF Seeded
  <2> HIDE DEF i, t
  <2>3. ids[i] \in AllIds(g)
        BY <2>1, NumberedNodes
  <2>4. ListedToo(g, s, i, t)
        BY <1>2, <2>1, <2>2, <2>3, MetIs
  <2>5. StartsOf(g, all) = StartsOf(g, from) \cup {i}
        BY <1>1, <2>1 DEF StartsOf, IsInjective
  <2> HIDE DEF all
  <2>6. Seeding(g, all, t)
        BY <1>2, <2>4, <2>5 DEF Seeding, ListedToo
  <2>7. QED BY <2>6 DEF all, t
<1>5. CASE ~InEdges(g, x)
  <2>1. t = s
        BY <1>5 DEF Seeded
  <2>2. StartsOf(g, all) = StartsOf(g, from)
        BY <1>3, <1>5 DEF StartsOf, ToSet
  <2> HIDE DEF all, t
  <2>3. Seeding(g, all, t)
        BY <1>2, <2>1, <2>2 DEF Seeding
  <2>4. QED BY <2>3 DEF all, t
<1>6. QED BY <1>4, <1>5

\* All of them.
LEMMA SeedingAll ==
    ASSUME NEW g, WellBuilt(g), NEW base, Seeding(g, {}, base), NEW seeds, NEW m \in Nat, DOMAIN seeds = 1..m
    PROVE  Seeding(g, ToSet(seeds), SeedAll(g, base, seeds))
<1> DEFINE all  == SeedAll(g, base, seeds)
           kind == SeedsKind(g)
           V(k) == {seeds[j] : j \in 1..k}
<1>1. PICK h : UpTo(kind, base, seeds, m, h) /\ all = h[m]
      BY SeedsFold
<1>2. h[0] = base /\ \A k \in 1..m : h[k] = Added(kind, h[k - 1], seeds[k])
  <2>1. UpTo(kind, base, seeds, m, h) /\ m \in Nat
        BY <1>1
  <2> HIDE DEF kind
  <2>2. QED BY ONLY <2>1, UpToIs
<1>3. \A t, x : Added(kind, t, x) = Seeded(g, t, x)
      BY DEF Added, SeedsKind
<1> HIDE DEF all, kind
<1> DEFINE T == {k \in Nat : k <= m => Seeding(g, V(k), h[k])}
<1>4. 0 \in T
  <2>1. V(0) = {}
        OBVIOUS
  <2> HIDE DEF V
  <2>2. QED BY <1>2, <2>1
<1>5. ASSUME NEW k \in Nat, k \in T PROVE k + 1 \in T
  <2>1. SUFFICES ASSUME k + 1 <= m PROVE Seeding(g, V(k + 1), h[k + 1])
    <3> HIDE DEF V
    <3>1. QED OBVIOUS
  <2>2. k + 1 \in 1..m /\ (k + 1) - 1 = k /\ k <= m
        BY <2>1
  <2>3. V(k + 1) = V(k) \cup {seeds[k + 1]}
    <3>1. 1..(k + 1) = (1..k) \cup {k + 1}
          OBVIOUS
    <3>2. QED BY <3>1
  <2>4. h[k + 1] = Seeded(g, h[k], seeds[k + 1])
        BY <1>2, <1>3, <2>2
  <2>5. Seeding(g, V(k), h[k])
        BY <1>5, <2>2
  <2> HIDE DEF V
  <2>6. Seeding(g, V(k) \cup {seeds[k + 1]}, Seeded(g, h[k], seeds[k + 1]))
        BY <2>5, SeedingNext
  <2>7. QED BY <2>3, <2>4, <2>6
<1>6. m \in T
  <2> HIDE DEF T
  <2>1. QED BY <1>4, <1>5, NatSetInduction
<1>7. V(m) = ToSet(seeds)
      BY DEF ToSet
<1> HIDE DEF V
<1>8. QED BY <1>1, <1>6, <1>7 DEF all

\* The seeds that have a number.
SeedsIn(g, seeds) == {x \in ToSet(seeds) : InEdges(g, x)}

\* A sample starts at its seeds.
LEMMA SampleStarts ==
    ASSUME NEW g, WellBuilt(g), NEW seeds, NEW m \in Nat, DOMAIN seeds = 1..m, NEW cfg \in SampleConfigs,
           SampleStart(g, seeds, cfg).status = "ok"
    PROVE  ConfigError(cfg) = "ok" /\ SampleGrows(g, cfg, SeedsIn(g, seeds), SampleStart(g, seeds, cfg).value)
<1> DEFINE none  == <<>>
           empty == [nodes |-> none, nodeRows |-> none, src |-> none, dst |-> none, rows |-> none,
                     hop |-> 1, frontier |-> none, next |-> none]
           s     == SeedAll(g, empty, seeds)
           t     == [s EXCEPT !.frontier = s.nodes]
           from  == SeedsIn(g, seeds)
           W(n)  == Within(g, cfg.types, cfg.dir, from, n)
<1>1. SampleStart(g, seeds, cfg) = IF ConfigError(cfg) # "ok" THEN Err(ConfigError(cfg))
                                   ELSE IF \E x \in ToSet(seeds) : ~HasNode(g.nodes, x) THEN Err("NodeNotFound")
                                   ELSE Ok(t)
      BY DEF SampleStart, SeedAll
<1>2. ConfigError(cfg) = "ok" \/ ConfigError(cfg) = "InvalidConfig"
      BY DEF ConfigError
<1> HIDE DEF t
<1>3. ConfigError(cfg) = "ok" /\ SampleStart(g, seeds, cfg).value = t
      BY <1>1, <1>2 DEF Err, Ok
<1>4. Seeding(g, {}, empty)
  <2>1. DOMAIN none = {} /\ ToSet(none) = {} /\ none = <<>> /\ \A U : none \in Seq(U)
        BY CountNone, EmptySeq
  <2>2. StartsOf(g, {}) = {} /\ IsInjective(none)
        BY <2>1 DEF StartsOf, IsInjective
  <2> HIDE DEF none
  <2>3. empty \in SampleStates(g)
        BY <2>1 DEF SampleStates
  <2>4. NodesListed(g, empty)
        BY <2>1, <2>2 DEF NodesListed
  <2>5. QED BY <2>1, <2>2, <2>3, <2>4 DEF Seeding
<1>5. Seeding(g, ToSet(seeds), s)
  <2> HIDE DEF empty
  <2>1. QED BY <1>4, SeedingAll
<1> HIDE DEF s, empty
<1>6. StartsOf(g, from) = StartsOf(g, ToSet(seeds))
      BY DEF StartsOf, SeedsIn, InEdges, ToSet
<1>7. /\ s \in SampleStates(g) /\ NodesListed(g, s) /\ ToSet(s.nodes) = StartsOf(g, from)
      /\ s.src = none /\ s.dst = none /\ s.rows = none /\ s.next = none /\ s.hop = 1
      BY <1>5, <1>6 DEF Seeding
<1>8. (\A x : CountOf(none, x) = 0) /\ ToSet(none) = {} /\ DOMAIN none = {}
      BY CountNone
<1> HIDE DEF none, from
<1>9. t \in SampleStates(g)
      BY <1>7 DEF SampleStates, t
<1>10. /\ t.nodes = s.nodes /\ t.nodeRows = s.nodeRows /\ t.src = none /\ t.dst = none /\ t.rows = none
       /\ t.next = none /\ t.hop = 1 /\ t.frontier = s.nodes
       BY <1>7 DEF SampleStates, t
<1>11. NodesListed(g, t) /\ RowsLead(g, cfg, from, t) /\ ToSet(t.nodes) = StartsOf(g, from) \cup ToSet(t.dst)
  <2>1. NodesListed(g, t)
        BY <1>7, <1>10 DEF NodesListed
  <2>2. RowsLead(g, cfg, from, t)
        BY <1>8, <1>10 DEF RowsLead
  <2>3. QED BY <1>7, <1>8, <1>10, <2>1, <2>2
<1>12. cfg.hops \in Nat /\ cfg.fanOut \in Seq(Nat)
       BY DEF SampleConfigs
<1>13. W(0) = from /\ from \subseteq W(1)
  <2>1. W(0) = from
        BY WithinZero
  <2>2. W(0 + 1) = W(0) \cup LedTo(g, cfg.types, cfg.dir, W(0))
        BY WellBuiltFrame, WithinNext
  <2>3. 0 + 1 = 1
        OBVIOUS
  <2> HIDE DEF W
  <2>4. QED BY <2>1, <2>2, <2>3
<1>14. \A j \in ToSet(s.nodes) : g.edges.ids[j] \in from
       BY <1>7 DEF StartsOf
<1> HIDE DEF W
<1>15. \A j \in ToSet(t.nodes) : g.edges.ids[j] \in W(IF t.hop <= cfg.hops THEN t.hop ELSE cfg.hops)
  <2>1. CASE 1 <= cfg.hops
        BY <1>10, <1>13, <1>14, <2>1
  <2>2. CASE ~(1 <= cfg.hops)
    <3>1. cfg.hops = 0
          BY <1>12, <2>2
    <3>2. QED BY <1>10, <1>13, <1>14, <3>1
  <2>3. QED BY <2>1, <2>2
<1>16. \A j \in ToSet(t.frontier) : g.edges.ids[j] \in W(t.hop - 1)
  <2>1. t.hop - 1 = 0
        BY <1>10
  <2>2. QED BY <1>10, <1>13, <1>14, <2>1
<1>17. ASSUME NEW x \in DOMAIN g.edges.ids
       PROVE  Used(g, from, t, x) \in Nat /\ CountOf(t.src, x) <= Used(g, from, t, x) * MostOf(cfg)
  <2>1. CountOf(s.nodes, x) = IF x \in ToSet(s.nodes) THEN 1 ELSE 0
        BY <1>7, CountOnce DEF SampleStates, NodesListed
  <2>2. x \in ToSet(s.nodes) <=> g.edges.ids[x] \in from
        BY <1>7 DEF StartsOf
  <2>3. Used(g, from, t, x) = 0
        BY <1>8, <1>10, <2>1, <2>2 DEF Used
  <2>4. MostOf(cfg) \in Nat
        BY <1>12, LargestIn DEF MostOf
  <2>5. CountOf(t.src, x) = 0
        BY <1>8, <1>10
  <2>6. QED BY <2>3, <2>4, <2>5
<1>18. /\ ToSet(t.frontier) \subseteq ToSet(t.nodes) /\ ToSet(t.next) \subseteq ToSet(t.nodes)
       /\ t.hop \in 1..(cfg.hops + 1)
       BY <1>8, <1>10, <1>12
<1>19. SampleGrows(g, cfg, from, t)
       BY <1>9, <1>11, <1>15, <1>16, <1>17, <1>18 DEF SampleGrows, W
<1>20. QED BY <1>3, <1>19 DEF from

\* A sample grows by every step that it takes.
LEMMA SampleStepGrows ==
    ASSUME NEW g, WellBuilt(g), NEW cfg \in SampleConfigs, ConfigError(cfg) = "ok", NEW from, NEW s,
           SampleGrows(g, cfg, from, s), ~SampleDone(s, cfg), NEW t \in SampleSteps(g, cfg, s)
    PROVE  SampleGrows(g, cfg, from, t)
<1>1. s.hop <= cfg.hops
  <2>1. s.hop \in 1..(cfg.hops + 1) /\ cfg.hops \in Nat
        BY DEF SampleGrows, SampleConfigs
  <2>2. QED BY <2>1 DEF SampleDone
<1>2. CASE s.frontier = <<>>
  <2>1. t = [s EXCEPT !.frontier = s.next, !.next = <<>>, !.hop = s.hop + 1]
    <3>1. s = [s EXCEPT !.hop = s.hop]
          BY DEF SampleGrows, SampleStates
    <3>2. QED BY <1>2 DEF SampleSteps
  <2>2. QED BY <1>1, <1>2, <2>1, HopOver
<1>3. CASE s.frontier # <<>>
  <2>1. t \in DrawFrom(g, cfg, s)
        BY <1>3 DEF SampleSteps
  <2>2. QED BY <1>1, <1>3, <2>1, FrontierDraws
<1>4. QED BY <1>2, <1>3

\* The smaller of two.
LEMMA SmallerIs ==
    ASSUME NEW a \in Nat, NEW b \in Nat
    PROVE  Min({a, b}) = IF a <= b THEN a ELSE b
<1> DEFINE c == IF a <= b THEN a ELSE b
<1>1. c \in {a, b} /\ \A y \in {a, b} : c <= y
      OBVIOUS
<1>2. \A x \in {a, b} : (\A y \in {a, b} : x <= y) => x = c
      OBVIOUS
<1>3. Min({a, b}) = CHOOSE x \in {a, b} : \A y \in {a, b} : x <= y
      BY DEF Min
<1> HIDE DEF c
<1>4. Min({a, b}) = c
      BY <1>1, <1>2, <1>3
<1>5. QED BY <1>4 DEF c

\* The more often, the more in all.
LEMMA TimesMore ==
    ASSUME NEW u \in Nat, NEW v \in Nat, u <= v, NEW most \in Nat
    PROVE  u * most <= v * most
<1> DEFINE w == v - u
<1>1. w \in Nat /\ v = u + w
      OBVIOUS
<1> HIDE DEF w
<1>2. (u + w) * most = u * most + w * most /\ w * most \in Nat /\ u * most \in Nat
      BY <1>1
<1> DEFINE um == u * most
           wm == w * most
           vm == (u + w) * most
<1>3. vm = um + wm /\ wm \in Nat /\ um \in Nat
      BY <1>2
<1> HIDE DEF um, wm, vm
<1>4. um <= vm
      BY <1>3
<1>5. QED BY <1>1, <1>4 DEF um, vm

\* Walks are taken a step further together.
WalksKind(g, dir, types) == [fold |-> "walks", g |-> g, dir |-> dir, types |-> types]

WalksMade(g, dir, types, start, n, h) ==
    h[0] = {<<start>>} /\ \A k \in 1..n : h[k] = UNION {Further(g, walk, dir, types) : walk \in h[k - 1]}

\* The rounds of a walk.
LEMMA WalkRounds ==
    ASSUME NEW g, NEW start, NEW n \in Nat, NEW dir, NEW types
    PROVE  \E h : WalksMade(g, dir, types, start, n, h) /\ WalksFrom(g, start, n, dir, types) = h[n]
<1> DEFINE N(t) == UNION {Further(g, walk, dir, types) : walk \in t}
           W    == CHOOSE h : h = [k \in 0..n |-> IF k = 0 THEN {<<start>>} ELSE N(h[k - 1])]
<1>1. WalksFrom(g, start, n, dir, types) = W[n]
      BY DEF WalksFrom
<1>2. \A t, x : Added(WalksKind(g, dir, types), t, x) = N(t)
      BY DEF Added, WalksKind
<1> HIDE DEF N
<1>3. ASSUME NEW h
      PROVE  UpTo(WalksKind(g, dir, types), {<<start>>}, <<>>, n, h)
             <=> h = [k \in 0..n |-> IF k = 0 THEN {<<start>>} ELSE N(h[k - 1])]
      BY <1>2 DEF UpTo
<1>4. UpTo(WalksKind(g, dir, types), {<<start>>}, <<>>, n, W)
      BY <1>3, RoundsExist
<1> DEFINE kind == WalksKind(g, dir, types)
           base == {<<start>>}
           none == <<>>
<1> HIDE DEF W, kind, base, none
<1>5. UpTo(kind, base, none, n, W) /\ n \in Nat
      BY <1>4 DEF kind, base, none
<1>6. W[0] = base /\ \A k \in 1..n : W[k] = Added(kind, W[k - 1], none[k])
      BY ONLY <1>5, UpToIs
<1>7. \A k \in 1..n : W[k] = N(W[k - 1])
      BY <1>2, <1>6 DEF kind
<1>8. W[0] = {<<start>>}
      BY <1>6 DEF base
<1>9. WalksMade(g, dir, types, start, n, W)
      BY <1>7, <1>8 DEF WalksMade, N
<1>10. QED BY <1>1, <1>9

\* A row leads on from node i.
LeadsOn(g, cfg, i) == \E y \in AllIds(g) : \E r \in ToSet(EdgeRows(g)) : Leading(cfg, r, g.edges.ids[i], y)

\* A walk of so many steps, or of fewer where nothing leads on.
WalkGoes(g, cfg, start, k, walk) ==
    /\ walk \in Seq(DOMAIN g.edges.ids) /\ Len(walk) \in 1..(k + 1) /\ walk[1] = start
    /\ \A j \in 1..(Len(walk) - 1) :
          \E r \in ToSet(EdgeRows(g)) : Leading(cfg, r, g.edges.ids[walk[j]], g.edges.ids[walk[j + 1]])
    /\ Len(walk) = k + 1 \/ ~LeadsOn(g, cfg, walk[Len(walk)])

\* A step further.
LEMMA FurtherGoes ==
    ASSUME NEW g, WellBuilt(g), NEW cfg, NEW start, NEW k \in Nat, NEW walk, WalkGoes(g, cfg, start, k, walk),
           NEW w \in Further(g, walk, cfg.dir, cfg.types)
    PROVE  WalkGoes(g, cfg, start, k + 1, w)
<1> DEFINE ids   == DOMAIN g.edges.ids
           n     == Len(walk)
           i     == walk[n]
           able  == Drawable(g, i, cfg.dir, cfg.types)
           found == {p.to : p \in ToSet(able)}
<1>1. /\ walk \in Seq(ids) /\ n \in 1..(k + 1) /\ walk[1] = start
      /\ \A j \in 1..(n - 1) :
            \E r \in ToSet(EdgeRows(g)) : Leading(cfg, r, g.edges.ids[walk[j]], g.edges.ids[walk[j + 1]])
      /\ n = k + 1 \/ ~LeadsOn(g, cfg, i)
      BY DEF WalkGoes
<1>2. i \in ids
  <2> HIDE DEF ids
  <2>1. QED BY <1>1, LenProperties, ElementOfSeq
<1>3. w \in IF found = {} THEN {walk} ELSE {Append(walk, y) : y \in found}
      BY DEF Further, Last
<1>4. /\ able \in Seq(StepsOn(g, cfg, i))
      /\ \A r \in DOMAIN EdgeRows(g) : \A y : Leading(cfg, EdgeRows(g)[r], g.edges.ids[i], y) => Len(able) # 0
      BY <1>2, DrawableLeads
<1> HIDE DEF able
<1>5. ToSet(able) \subseteq StepsOn(g, cfg, i) /\ (Len(able) # 0 => ToSet(able) # {})
  <2> DEFINE U == StepsOn(g, cfg, i)
  <2>1. able \in Seq(U)
        BY <1>4
  <2> HIDE DEF U
  <2>2. DOMAIN able = 1..Len(able) /\ Len(able) \in Nat /\ \A j \in 1..Len(able) : able[j] \in U
        BY <2>1, LenProperties
  <2>3. Len(able) # 0 => 1 \in DOMAIN able
        BY <2>2
  <2>4. QED BY <2>2, <2>3 DEF ToSet, U
<1>6. CASE found = {}
  <2>1. w = walk /\ ToSet(able) = {}
        BY <1>3, <1>6
  <2>2. ~LeadsOn(g, cfg, i)
        BY <1>4, <1>5, <2>1 DEF LeadsOn, ToSet
  <2>3. n \in 1..((k + 1) + 1)
        BY <1>1
  <2>4. QED BY <1>1, <2>1, <2>2, <2>3 DEF WalkGoes
<1>7. CASE found # {}
  <2>1. PICK p \in ToSet(able) : w = Append(walk, p.to)
        BY <1>3, <1>7
  <2> DEFINE y == p.to
  <2>2. y \in ids /\ p.row \in DOMAIN EdgeRows(g)
        /\ Leading(cfg, EdgeRows(g)[p.row], g.edges.ids[i], g.edges.ids[y])
        BY <1>5 DEF StepsOn
  <2>3. g.edges.ids[y] \in AllIds(g)
        BY <2>2, NumberedNodes
  <2>4. EdgeRows(g)[p.row] \in ToSet(EdgeRows(g))
        BY <2>2 DEF ToSet
  <2>5. n = k + 1
        BY <1>1, <2>2, <2>3, <2>4 DEF LeadsOn
  <2>6. w = Append(walk, y)
        BY <2>1
  <2> HIDE DEF ids, y, n, i
  <2>7. n = Len(walk)
        BY DEF n
  <2>8. /\ w \in Seq(ids) /\ Len(w) = n + 1 /\ w[n + 1] = y /\ \A j \in 1..n : w[j] = walk[j]
        BY <1>1, <2>2, <2>6, <2>7, AppendProperties
  <2>9. w[1] = start
        BY <1>1, <2>5, <2>8
  <2>10. ASSUME NEW j \in 1..n
         PROVE  \E r \in ToSet(EdgeRows(g)) : Leading(cfg, r, g.edges.ids[w[j]], g.edges.ids[w[j + 1]])
    <3>1. CASE j \in 1..(n - 1)
      <4>1. w[j] = walk[j] /\ w[j + 1] = walk[j + 1]
            BY <1>1, <2>8, <3>1
      <4>2. QED BY <1>1, <3>1, <4>1
    <3>2. CASE j = n
      <4>1. w[j] = i /\ w[j + 1] = y
            BY <1>1, <2>5, <2>8, <3>2 DEF i
      <4>2. QED BY <2>2, <2>4, <4>1
    <3>3. QED BY <1>1, <3>1, <3>2
  <2>11. Len(w) = (k + 1) + 1 /\ Len(w) - 1 = n /\ Len(w) \in 1..((k + 1) + 1)
         BY <2>5, <2>8
  <2>12. QED BY <2>8, <2>9, <2>10, <2>11 DEF WalkGoes, ids
<1>8. QED BY <1>6, <1>7

\* So goes every walk.
LEMMA WalksGo ==
    ASSUME NEW g, WellBuilt(g), NEW cfg, NEW start \in DOMAIN g.edges.ids, NEW n \in Nat,
           NEW w \in WalksFrom(g, start, n, cfg.dir, cfg.types)
    PROVE  WalkGoes(g, cfg, start, n, w)
<1>1. PICK h : /\ h[0] = {<<start>>}
               /\ \A k \in 1..n : h[k] = UNION {Further(g, walk, cfg.dir, cfg.types) : walk \in h[k - 1]}
               /\ WalksFrom(g, start, n, cfg.dir, cfg.types) = h[n]
  <2> DEFINE dir   == cfg.dir
             types == cfg.types
  <2> HIDE DEF dir, types
  <2>1. \E h : WalksMade(g, dir, types, start, n, h) /\ WalksFrom(g, start, n, dir, types) = h[n]
        BY WalkRounds
  <2>2. QED BY <2>1 DEF WalksMade, dir, types
<1>2. \A walk \in h[0] : WalkGoes(g, cfg, start, 0, walk)
  <2> DEFINE U   == DOMAIN g.edges.ids
             one == <<start>>
  <2>1. start \in U
        OBVIOUS
  <2> HIDE DEF U
  <2>2. one \in Seq(U) /\ Len(one) = 1 /\ one[1] = start
        BY <2>1
  <2> HIDE DEF one
  <2>3. Len(one) \in 1..(0 + 1) /\ Len(one) = 0 + 1 /\ 1..(Len(one) - 1) = {}
        BY <2>2
  <2>4. WalkGoes(g, cfg, start, 0, one)
        BY <2>2, <2>3 DEF WalkGoes, U
  <2>5. \A walk \in h[0] : walk = one
        BY <1>1 DEF one
  <2>6. QED BY <2>4, <2>5
<1> DEFINE T == {k \in Nat : k <= n => \A walk \in h[k] : WalkGoes(g, cfg, start, k, walk)}
<1>3. 0 \in T
      BY <1>1, <1>2
<1>4. ASSUME NEW k \in Nat, k \in T PROVE k + 1 \in T
  <2>1. SUFFICES ASSUME k + 1 <= n, NEW walk \in h[k + 1] PROVE WalkGoes(g, cfg, start, k + 1, walk)
        OBVIOUS
  <2>2. k + 1 \in 1..n /\ (k + 1) - 1 = k /\ k <= n
        BY <2>1
  <2>3. h[k + 1] = UNION {Further(g, v, cfg.dir, cfg.types) : v \in h[k]}
        BY <1>1, <2>2
  <2>4. PICK v \in h[k] : walk \in Further(g, v, cfg.dir, cfg.types)
        BY <2>1, <2>3
  <2>5. WalkGoes(g, cfg, start, k, v)
        BY <1>4, <2>2, <2>4
  <2>6. QED BY <2>4, <2>5, FurtherGoes
<1>5. n \in T
  <2> HIDE DEF T
  <2>1. QED BY <1>3, <1>4, NatSetInduction
<1>6. QED BY <1>1, <1>5
=============================================================================
