---------------------------- MODULE ExpandProofs ----------------------------
(***************************************************************************)
(* Proofs about Expand, for any graph, any frontier, any filter, any       *)
(* number of hops and of threads.                                          *)
(***************************************************************************)
EXTENDS Expand, FiniteSetTheorems, WellFoundedInduction, TLAPS

-----------------------------------------------------------------------------
(* Natural numbers. *)

\* A set of natural numbers that is not empty has a least element.
LEMMA LeastNat ==
    ASSUME NEW T \in SUBSET Nat, T # {}
    PROVE  \E m \in T : \A n \in T : m <= n
<1> DEFINE R == OpToRel(<, Nat)
<1>1. IsWellFoundedOn(R, Nat)
      BY NatLessThanWellFounded
<1>2. \A m, n \in T : n < m => <<n, m>> \in R
      BY DEF OpToRel
<1> HIDE DEF R
<1>3. PICK m \in T : \A n \in T : <<n, m>> \notin R
      BY <1>1, WFMin
<1>4. \A n \in T : ~(n < m)
      BY <1>2, <1>3
<1>5. QED BY <1>3, <1>4

\* Induction over the natural numbers, for a set.
LEMMA NatSetInduction ==
    ASSUME NEW S, 0 \in S, \A n \in Nat : n \in S => n + 1 \in S
    PROVE  Nat \subseteq S
<1>1. SUFFICES ASSUME Nat \ S # {} PROVE FALSE
      OBVIOUS
<1>2. PICK m \in Nat \ S : \A n \in Nat \ S : m <= n
      BY <1>1, LeastNat
<1>3. m # 0
      BY <1>2
<1>4. m - 1 \in Nat /\ m - 1 \notin Nat \ S
      BY <1>2, <1>3
<1>5. (m - 1) + 1 \in S
      BY <1>4
<1>6. QED BY <1>2, <1>5

-----------------------------------------------------------------------------
(* Paths. *)

LEMMA NodesAndRows ==
    ASSUME NEW q \in Queries, NEW n, NEW e \in Entries(q, n)
    PROVE  /\ e.to \in Nodes /\ e.row \in DOMAIN q.edges
           /\ {q.edges[e.row].src, q.edges[e.row].dst} = {n, e.to}
<1>1. q \in Query
      BY QueriesAssumption
<1>2. \A r \in DOMAIN q.edges : q.edges[r] \in Row
      BY <1>1 DEF Query
<1>3. QED BY <1>1, <1>2 DEF Entries, Row

\* No hop leads to each node of the start.
LEMMA ReachStart ==
    ASSUME NEW q \in Queries, NEW S \in SUBSET Nodes, NEW k \in Nat
    PROVE  S \subseteq Reach(q, S, k)
<1> SUFFICES ASSUME NEW n \in S PROVE n \in Reach(q, S, k)
    OBVIOUS
<1> DEFINE p == [i \in 0..0 |-> n]
<1>1. p \in [0..0 -> Nodes] /\ p[0] = n
      OBVIOUS
<1>2. 0 \in 0..k /\ (0..(0 - 1)) = {}
      OBVIOUS
<1> HIDE DEF p
<1>3. QED BY <1>1, <1>2 DEF Reach

\* Without a hop there is nothing else.
LEMMA ReachNothing ==
    ASSUME NEW q \in Queries, NEW S \in SUBSET Nodes
    PROVE  Reach(q, S, 0) = S
<1>1. Reach(q, S, 0) \subseteq S
      BY DEF Reach
<1>2. QED BY <1>1, ReachStart

LEMMA ReachGrows ==
    ASSUME NEW q \in Queries, NEW S, NEW k \in Nat, NEW l \in Nat, k <= l
    PROVE  Reach(q, S, k) \subseteq Reach(q, S, l)
<1>1. 0..k \subseteq 0..l
      OBVIOUS
<1>2. QED BY <1>1 DEF Reach

\* One hop more leads on.
LEMMA ReachNext ==
    ASSUME NEW q \in Queries, NEW S, NEW k \in Nat, NEW m \in Reach(q, S, k),
           NEW n \in Nodes, Hop(q, m, n)
    PROVE  n \in Reach(q, S, k + 1)
<1>1. PICK j \in 0..k : \E p \in [0..j -> Nodes] :
                          /\ p[0] \in S /\ p[j] = m
                          /\ \A i \in 0..(j - 1) : Hop(q, p[i], p[i + 1])
      BY DEF Reach
<1>2. PICK p \in [0..j -> Nodes] : /\ p[0] \in S /\ p[j] = m
                                   /\ \A i \in 0..(j - 1) : Hop(q, p[i], p[i + 1])
      BY <1>1
<1> DEFINE r == [i \in 0..(j + 1) |-> IF i = j + 1 THEN n ELSE p[i]]
<1>3. r \in [0..(j + 1) -> Nodes] /\ j + 1 \in 0..(k + 1)
      BY <1>1, <1>2
<1>4. r[0] \in S /\ r[j + 1] = n
      BY <1>1, <1>2
<1>5. ASSUME NEW i \in 0..((j + 1) - 1) PROVE Hop(q, r[i], r[i + 1])
  <2>1. CASE i = j
        BY <2>1, <1>1, <1>2
  <2>2. CASE i # j
    <3>1. i \in 0..(j - 1) /\ r[i] = p[i] /\ r[i + 1] = p[i + 1]
          BY <2>2, <1>1, <1>5
    <3>2. QED BY <3>1, <1>2
  <2>3. QED BY <2>1, <2>2
<1> HIDE DEF r
<1>6. QED BY <1>3, <1>4, <1>5 DEF Reach

\* What one more hop leads to, it leads to from where the others ended.
LEMMA ReachLast ==
    ASSUME NEW q \in Queries, NEW S, NEW k \in Nat, NEW n \in Reach(q, S, k + 1)
    PROVE  n \in S \/ \E m \in Reach(q, S, k) : Hop(q, m, n)
<1>1. PICK j \in 0..(k + 1) : \E p \in [0..j -> Nodes] :
                          /\ p[0] \in S /\ p[j] = n
                          /\ \A i \in 0..(j - 1) : Hop(q, p[i], p[i + 1])
      BY DEF Reach
<1>2. PICK p \in [0..j -> Nodes] : /\ p[0] \in S /\ p[j] = n
                                   /\ \A i \in 0..(j - 1) : Hop(q, p[i], p[i + 1])
      BY <1>1
<1>3. CASE j = 0
      BY <1>3, <1>2
<1>4. CASE j # 0
  <2> DEFINE l == j - 1
             r == [i \in 0..l |-> p[i]]
  <2>1. l \in 0..k /\ l \in 0..(j - 1) /\ l + 1 = j
        BY <1>1, <1>4
  <2>2. r \in [0..l -> Nodes] /\ r[0] \in S /\ r[l] = p[l]
        BY <1>2, <2>1
  <2>3. \A i \in 0..(l - 1) : Hop(q, r[i], r[i + 1])
        BY <1>2, <2>1
  <2>4. Hop(q, p[l], n)
        BY <1>2, <2>1
  <2>5. p[l] \in Nodes
        BY <1>2, <2>1
  <2> HIDE DEF r, l
  <2>6. p[l] \in Reach(q, S, k)
        BY <2>1, <2>2, <2>3, <2>5 DEF Reach
  <2>7. QED BY <2>4, <2>6
<1>5. QED BY <1>3, <1>4

\* A set that holds the start and that no hop leaves holds all there is.
LEMMA ReachClosed ==
    ASSUME NEW q \in Queries, NEW S \in SUBSET Nodes, NEW V, S \subseteq V,
           \A m \in V, n \in Nodes : Hop(q, m, n) => n \in V,
           NEW k \in Nat
    PROVE  Reach(q, S, k) \subseteq V
<1> DEFINE K == {l \in Nat : Reach(q, S, l) \subseteq V}
<1>1. 0 \in K
      BY ReachNothing
<1>2. ASSUME NEW l \in Nat, l \in K PROVE l + 1 \in K
  <2>1. SUFFICES ASSUME NEW n \in Reach(q, S, l + 1) PROVE n \in V
        BY <1>2
  <2>2. n \in Nodes
        BY DEF Reach
  <2>3. QED BY <1>2, <2>1, <2>2, ReachLast
<1> HIDE DEF K
<1>3. Nat \subseteq K
      BY <1>1, <1>2, NatSetInduction
<1>4. QED BY <1>3 DEF K

-----------------------------------------------------------------------------
(* The chunks. *)

\* No id of the frontier is left out or made up.
LEMMA ChunksCover ==
    ASSUME NEW q \in Queries
    PROVE  /\ Frontier(q) \subseteq Nodes
           /\ \A w \in Workers(q) : Chunk(q, w) \subseteq Frontier(q)
           /\ \A n \in Frontier(q) : \E w \in Workers(q) : n \in Chunk(q, w)
<1>1. q.frontier \in Seq(Nodes)
      BY QueriesAssumption DEF Query
<1>2. \A i \in DOMAIN q.frontier : q.frontier[i] \in Nodes
      BY <1>1
<1>3. \A i \in DOMAIN q.frontier : WorkerOf(q, i) \in Workers(q)
      BY DEF Workers
<1>4. QED BY <1>2, <1>3 DEF Frontier, Chunk

\* Searching the chunks reaches what searching the frontier does.
LEMMA ReachByChunks ==
    ASSUME NEW q \in Queries, NEW k \in Nat
    PROVE  \A n : n \in Reach(q, Frontier(q), k) <=>
                     \E w \in Workers(q) : n \in Reach(q, Chunk(q, w), k)
<1>1. ASSUME NEW n \in Reach(q, Frontier(q), k)
      PROVE  \E w \in Workers(q) : n \in Reach(q, Chunk(q, w), k)
  <2>1. PICK j \in 0..k : \E p \in [0..j -> Nodes] :
                            /\ p[0] \in Frontier(q) /\ p[j] = n
                            /\ \A i \in 0..(j - 1) : Hop(q, p[i], p[i + 1])
        BY DEF Reach
  <2>2. PICK p \in [0..j -> Nodes] : /\ p[0] \in Frontier(q) /\ p[j] = n
                                     /\ \A i \in 0..(j - 1) : Hop(q, p[i], p[i + 1])
        BY <2>1
  <2>3. PICK w \in Workers(q) : p[0] \in Chunk(q, w)
        BY <2>2, ChunksCover
  <2>4. n \in Reach(q, Chunk(q, w), k)
        BY <1>1, <2>1, <2>2, <2>3 DEF Reach
  <2>5. QED BY <2>4
<1>2. ASSUME NEW w \in Workers(q), NEW n \in Reach(q, Chunk(q, w), k)
      PROVE  n \in Reach(q, Frontier(q), k)
      BY ChunksCover DEF Reach
<1>3. QED BY <1>1, <1>2

-----------------------------------------------------------------------------
(* The scan of a node. *)

\* Of the entries of a node with some property, one comes before all others.
LEMMA FirstEntry ==
    ASSUME NEW q \in Queries, NEW n, NEW B \in SUBSET Entries(q, n), B # {}
    PROVE  \E e \in B : \A f \in B : ~Before(q, f, e)
<1> DEFINE O == {e \in B : e.side = "out"}
           C == IF O = {} THEN B ELSE O
           T == {i \in Nat : \E e \in C : i \in Appears(q, e.to)}
<1>1. \A e \in B : e.side \in {"out", "in"} /\ e.to \in Nodes /\ e.row \in DOMAIN q.edges
      BY NodesAndRows DEF Entries
<1>2. C # {} /\ C \subseteq B
      OBVIOUS
<1>3. \A f \in B, e \in C : e.side # f.side => ~(e.side = "in" /\ f.side = "out")
      BY <1>1
<1>4. \A r \in DOMAIN q.edges : r \in Nat /\ 2 * r \in Nat /\ 2 * r - 1 \in Nat
  <2>1. q.edges \in Seq(Row)
        BY QueriesAssumption DEF Query
  <2>2. DOMAIN q.edges = 1..Len(q.edges) /\ Len(q.edges) \in Nat
        BY <2>1
  <2>3. QED BY <2>2
<1>5. ASSUME NEW e \in B
      PROVE  Appears(q, e.to) # {} /\ Appears(q, e.to) \subseteq Nat
  <2>1. e.row \in DOMAIN q.edges /\ e.to \in {q.edges[e.row].src, q.edges[e.row].dst}
        BY DEF Entries
  <2>2. 2 * e.row - 1 \in Appears(q, e.to) \/ 2 * e.row \in Appears(q, e.to)
        BY <2>1 DEF Appears
  <2>3. Appears(q, e.to) \subseteq Nat
        BY <1>4 DEF Appears
  <2>4. QED BY <2>2, <2>3
<1>6. T # {} /\ T \subseteq Nat
      BY <1>2, <1>5
<1> HIDE DEF C
<1>7. PICK m \in T : \A i \in T : m <= i
      BY <1>6, LeastNat
<1>8. PICK d \in C : m \in Appears(q, d.to)
      BY <1>7
<1>9. \A f \in C : ~IndexBefore(q, f.to, d.to)
  <2>1. SUFFICES ASSUME NEW f \in C, IndexBefore(q, f.to, d.to) PROVE FALSE
        OBVIOUS
  <2>2. PICK i \in Appears(q, f.to) : i < m
        BY <1>8, <2>1 DEF IndexBefore
  <2>3. i \in T
        BY <1>2, <1>5, <2>1, <2>2
  <2>4. QED BY <1>6, <1>7, <2>2, <2>3
<1> DEFINE R == {e.row : e \in {e \in C : e.to = d.to}}
<1>10. R # {} /\ R \subseteq Nat
      BY <1>1, <1>2, <1>4, <1>8
<1>11. PICK r \in R : \A i \in R : r <= i
      BY <1>10, LeastNat
<1>12. PICK e \in C : e.to = d.to /\ e.row = r
      BY <1>11
<1>13. ASSUME NEW f \in B, Before(q, f, e) PROVE FALSE
  <2>1. f.side = e.side
        BY <1>2, <1>3, <1>12, <1>13 DEF Before
  <2>2. f \in C
        BY <1>2, <1>12, <2>1 DEF C
  <2>3. f.to = e.to /\ f.row < e.row
        BY <1>9, <1>12, <1>13, <2>1, <2>2 DEF Before
  <2>4. f.row \in R
        BY <1>12, <2>2, <2>3
  <2>5. r <= f.row /\ r \in Nat /\ f.row \in Nat
        BY <1>10, <1>11, <2>4
  <2>6. QED BY <1>12, <2>3, <2>5
<1>14. QED BY <1>2, <1>12, <1>13

\* A scan that nothing ends looks at every entry.
LEMMA ScanMeetsAll ==
    ASSUME query \in Queries, NEW w, NEW n, \A e \in LookedAt(w, n) : ~Ends(w, n, e)
    PROVE  LookedAt(w, n) = Entries(query, n) /\ \A e \in Entries(query, n) : ~Ends(w, n, e)
<1> DEFINE B == {e \in Entries(query, n) : Ends(w, n, e)}
<1>1. ASSUME B # {} PROVE FALSE
  <2>1. PICK e \in B : \A f \in B : ~Before(query, f, e)
        BY <1>1, FirstEntry
  <2>2. e \in LookedAt(w, n)
        BY <2>1 DEF LookedAt
  <2>3. QED BY <2>1, <2>2
<1>2. QED BY <1>1 DEF LookedAt

\* What a scan takes are hops from the node, over rows that join the two.
LEMMA TakenAreHops ==
    ASSUME query \in Queries, NEW w, NEW n, NEW e \in Taken(w, n)
    PROVE  /\ e \in Entries(query, n) /\ e.to \in query.passes
           /\ e.to \in Nodes /\ e.row \in DOMAIN query.edges
           /\ {query.edges[e.row].src, query.edges[e.row].dst} = {n, e.to}
           /\ Hop(query, n, e.to)
<1>1. e \in Entries(query, n) /\ e.to \in query.passes
      BY DEF Taken, LookedAt
<1>2. QED BY <1>1, NodesAndRows DEF Hop

-----------------------------------------------------------------------------
(* Types. *)

LEMMA InitTyped == Init => TypeOK
<1> SUFFICES ASSUME Init PROVE TypeOK
    OBVIOUS
<1>1. query \in Queries /\ query.hops \in Nat
      BY QueriesAssumption DEF Init, Query
<1>2. \A w \in Workers(query) : Chunk(query, w) \in SUBSET Nodes
      BY <1>1, ChunksCover
<1>3. result \in [status : {"none", "ok", "err"}, nodes : SUBSET Nodes,
                  rows : SUBSET DOMAIN query.edges]
      BY DEF Init, NoResult
<1>4. QED BY <1>1, <1>2, <1>3 DEF Init, TypeOK

LEMMA ScanTyped ==
    ASSUME TypeOK, NEW w \in Workers(query), NEW n \in Nodes, ScanNode(w, n)
    PROVE  TypeOK'
<1>1. query \in Queries
      BY DEF TypeOK
<1>2. \A e \in Taken(w, n) : e.to \in Nodes /\ e.row \in DOMAIN query.edges
      BY <1>1, TakenAreHops
<1> DEFINE to == {e.to : e \in Taken(w, n)}
           over == {e.row : e \in Taken(w, n)}
<1>3. to \subseteq Nodes /\ over \subseteq DOMAIN query.edges
      BY <1>2
<1>4. /\ visited' = [visited EXCEPT ![w] = @ \cup to]
      /\ next' = [next EXCEPT ![w] = @ \cup (to \ visited[w])]
      /\ rows' = [rows EXCEPT ![w] = @ \cup over]
      /\ todo' = [todo EXCEPT ![w] = @ \ {n}]
      BY DEF ScanNode
<1> HIDE DEF to, over
<1>5. at' \in [Workers(query) -> {"scan", "done", "failed"}]
      BY DEF TypeOK, ScanNode
<1>6. UNCHANGED <<query, hop, result>>
      BY DEF ScanNode
<1>7. QED BY <1>3, <1>4, <1>5, <1>6 DEF TypeOK

LEMMA MergeTyped ==
    ASSUME TypeOK, Merge
    PROVE  TypeOK'
<1> DEFINE found == UNION {visited[w] : w \in Workers(query)}
           retained == UNION {rows[w] : w \in Workers(query)}
<1>1. found \subseteq Nodes /\ retained \subseteq DOMAIN query.edges
      BY DEF TypeOK
<1>2. result' \in {Failure, [status |-> "ok", nodes |-> found, rows |-> retained]}
      BY DEF Merge
<1> HIDE DEF found, retained
<1>3. result' \in [status : {"none", "ok", "err"}, nodes : SUBSET Nodes,
                   rows : SUBSET DOMAIN query.edges]
      BY <1>1, <1>2 DEF Failure
<1>4. QED BY <1>3 DEF TypeOK, Merge

\* The searches of a level are bounded: what is left to scan has a level to be in.
LevelsLeft == \A w \in Workers(query) : at[w] = "scan" => hop[w] < query.hops

LEMMA NextTyped ==
    ASSUME TypeOK, LevelsLeft, [Next]_vars
    PROVE  TypeOK' /\ LevelsLeft'
<1>1. query.hops \in Nat
      BY QueriesAssumption DEF TypeOK, Query
<1>2. ASSUME NEW w \in Workers(query), EndLevel(w) PROVE TypeOK' /\ LevelsLeft'
  <2>1. hop[w] + 1 \in 0..query.hops
        BY <1>1, <1>2 DEF TypeOK, LevelsLeft, EndLevel
  <2>2. TypeOK'
        BY <1>2, <2>1 DEF TypeOK, EndLevel
  <2>3. LevelsLeft'
        BY <1>1, <1>2, <2>1 DEF TypeOK, LevelsLeft, EndLevel
  <2>4. QED BY <2>2, <2>3
<1>3. ASSUME NEW w \in Workers(query), NEW n \in Nodes, ScanNode(w, n)
      PROVE  TypeOK' /\ LevelsLeft'
  <2>1. LevelsLeft'
        BY <1>3 DEF TypeOK, LevelsLeft, ScanNode
  <2>2. QED BY <1>3, <2>1, ScanTyped
<1>4. ASSUME Merge PROVE TypeOK' /\ LevelsLeft'
  <2>1. LevelsLeft'
        BY <1>4 DEF LevelsLeft, Merge
  <2>2. QED BY <1>4, <2>1, MergeTyped
<1>5. ASSUME UNCHANGED vars PROVE TypeOK' /\ LevelsLeft'
      BY <1>5 DEF TypeOK, LevelsLeft, vars
<1>6. QED BY <1>2, <1>3, <1>4, <1>5 DEF Next

LEMMA TypesInvariant == Spec => [](TypeOK /\ LevelsLeft)
<1>1. Init => LevelsLeft
  <2> SUFFICES ASSUME Init PROVE LevelsLeft
      OBVIOUS
  <2>1. query.hops \in Nat
        BY QueriesAssumption DEF Init, Query
  <2>2. QED BY <2>1 DEF Init, LevelsLeft
<1>2. TypeOK /\ LevelsLeft /\ [Next]_vars => (TypeOK /\ LevelsLeft)'
      BY NextTyped
<1>3. QED BY <1>1, <1>2, InitTyped, PTL DEF Spec

\* Every worker keeps its sets among the nodes and rows of the graph, and never
\* completes more levels than the plan asks for.
THEOREM TypeCorrect == Spec => []TypeOK
BY TypesInvariant, PTL

-----------------------------------------------------------------------------
(* Soundness: a search finds nothing but what hops lead to, under any plan. *)

\* What worker w has found and what it has still to scan, while it scans.
Frontiers(w) ==
    /\ todo[w] \subseteq visited[w] \cap Reach(query, Chunk(query, w), hop[w])
    /\ next[w] \subseteq visited[w] \cap Reach(query, Chunk(query, w), hop[w] + 1)

Sound(w) ==
    /\ Chunk(query, w) \subseteq visited[w]
    /\ visited[w] \subseteq Reach(query, Chunk(query, w), query.hops)
    /\ rows[w] \subseteq RowsWithin(query, Chunk(query, w), query.hops)
    /\ \A r \in rows[w] : {query.edges[r].src, query.edges[r].dst} \subseteq visited[w]
    /\ at[w] = "failed" => FailsWithin(query, Chunk(query, w), query.hops)
    /\ at[w] = "scan" => Frontiers(w)

AllSound == \A w \in Workers(query) : Sound(w)

LEMMA SoundInit == Init => AllSound
<1> SUFFICES ASSUME Init, NEW w \in Workers(query) PROVE Sound(w)
    BY DEF AllSound
<1> DEFINE S == Chunk(query, w)
<1>1. query \in Queries /\ query.hops \in Nat
      BY QueriesAssumption DEF Init, Query
<1>2. S \subseteq Nodes
      BY <1>1, ChunksCover
<1>3. visited[w] = S /\ todo[w] = S /\ next[w] = {} /\ rows[w] = {} /\ hop[w] = 0
      BY DEF Init
<1>4. at[w] # "failed"
      BY DEF Init
<1>5. S \subseteq Reach(query, S, query.hops) /\ S \subseteq Reach(query, S, 0)
      BY <1>1, <1>2, ReachStart
<1> HIDE DEF S
<1>6. QED BY <1>3, <1>4, <1>5 DEF Sound, Frontiers, S

\* Nothing of a worker's soundness is about the other workers.
LEMMA SoundElsewhere ==
    ASSUME NEW w \in Workers(query), Sound(w), query' = query,
           at'[w] = at[w], hop'[w] = hop[w], visited'[w] = visited[w],
           todo'[w] = todo[w], next'[w] = next[w], rows'[w] = rows[w]
    PROVE  Sound(w)'
BY DEF Sound, Frontiers

LEMMA SoundScan ==
    ASSUME TypeOK, LevelsLeft, NEW w \in Workers(query), Sound(w),
           NEW n \in Nodes, ScanNode(w, n)
    PROVE  Sound(w)'
<1> DEFINE S == Chunk(query, w)
           to == {e.to : e \in Taken(w, n)}
           over == {e.row : e \in Taken(w, n)}
<1>1. query \in Queries /\ query.hops \in Nat /\ hop[w] \in Nat /\ hop[w] < query.hops
      BY QueriesAssumption DEF TypeOK, Query, LevelsLeft, ScanNode
<1>2. /\ query' = query /\ hop'[w] = hop[w]
      /\ visited'[w] = visited[w] \cup to
      /\ next'[w] = next[w] \cup (to \ visited[w])
      /\ rows'[w] = rows[w] \cup over
      /\ todo'[w] = todo[w] \ {n}
      BY DEF TypeOK, ScanNode
<1>3. n \in Reach(query, S, hop[w]) /\ n \in visited[w]
      BY DEF ScanNode, Sound, Frontiers
<1>4. to \subseteq Reach(query, S, hop[w] + 1)
  <2>1. \A e \in Taken(w, n) : e.to \in Nodes /\ Hop(query, n, e.to)
        BY <1>1, TakenAreHops
  <2>2. QED BY <1>1, <1>3, <2>1, ReachNext
<1>5. Reach(query, S, hop[w] + 1) \subseteq Reach(query, S, query.hops)
      BY <1>1, ReachGrows
<1>6. n \in Scanned(query, S, query.hops)
  <2>1. Reach(query, S, hop[w]) \subseteq Reach(query, S, query.hops - 1)
        BY <1>1, ReachGrows
  <2>2. QED BY <1>1, <1>3, <2>1 DEF Scanned
<1>7. over \subseteq RowsWithin(query, S, query.hops)
      BY <1>1, <1>6, TakenAreHops DEF RowsWithin
<1>8. \A r \in over : {query.edges[r].src, query.edges[r].dst} \subseteq visited'[w]
  <2>1. SUFFICES ASSUME NEW e \in Taken(w, n)
                 PROVE  {query.edges[e.row].src, query.edges[e.row].dst} \subseteq visited'[w]
        OBVIOUS
  <2>2. {query.edges[e.row].src, query.edges[e.row].dst} = {n, e.to}
        BY <1>1, TakenAreHops
  <2>3. QED BY <1>2, <1>3, <2>2
<1>9. at'[w] = "failed" => FailsWithin(query, S, query.hops)
  <2>1. at'[w] = "failed" => \E e \in LookedAt(w, n) : e.to \in query.fails
        BY DEF TypeOK, ScanNode
  <2>2. QED BY <1>6, <2>1 DEF FailsWithin, LookedAt
<1> HIDE DEF to, over
<1>10. at[w] = "scan"
       BY DEF ScanNode
<1>11. Frontiers(w)'
       BY <1>2, <1>4, <1>10 DEF Sound, Frontiers
<1>12. visited'[w] \subseteq Reach(query, S, query.hops)
       BY <1>2, <1>4, <1>5 DEF Sound
<1>13. rows'[w] \subseteq RowsWithin(query, S, query.hops)
       BY <1>2, <1>7 DEF Sound
<1>14. \A r \in rows'[w] : {query.edges[r].src, query.edges[r].dst} \subseteq visited'[w]
       BY <1>2, <1>8 DEF Sound
<1>15. S \subseteq visited'[w]
       BY <1>2 DEF Sound
<1>16. QED BY <1>2, <1>9, <1>11, <1>12, <1>13, <1>14, <1>15 DEF Sound

LEMMA SoundEndLevel ==
    ASSUME TypeOK, LevelsLeft, NEW w \in Workers(query), Sound(w), EndLevel(w)
    PROVE  Sound(w)'
<1>1. /\ query' = query /\ hop'[w] = hop[w] + 1
      /\ visited'[w] = visited[w] /\ rows'[w] = rows[w]
      /\ todo'[w] = next[w] /\ next'[w] = {}
      /\ at'[w] \in {"scan", "done"} /\ at[w] = "scan"
      BY DEF TypeOK, EndLevel
<1>2. Frontiers(w)'
      BY <1>1 DEF Sound, Frontiers
<1>3. QED BY <1>1, <1>2 DEF Sound

\* A step of one worker, of none, or of the merge.
LEMMA SoundNext ==
    ASSUME TypeOK, LevelsLeft, AllSound, [Next]_vars
    PROVE  AllSound'
<1>1. ASSUME NEW w \in Workers(query),
             EndLevel(w) \/ \E n \in Nodes : ScanNode(w, n)
      PROVE  AllSound'
  <2>1. Sound(w)'
        BY <1>1, SoundScan, SoundEndLevel DEF AllSound
  <2>2. ASSUME NEW v \in Workers(query), v # w PROVE Sound(v)'
    <3>1. /\ query' = query /\ at'[v] = at[v] /\ hop'[v] = hop[v]
          /\ visited'[v] = visited[v] /\ todo'[v] = todo[v]
          /\ next'[v] = next[v] /\ rows'[v] = rows[v]
          BY <1>1, <2>2 DEF TypeOK, EndLevel, ScanNode
    <3>2. QED BY <3>1, SoundElsewhere DEF AllSound
  <2>3. query' = query
        BY <1>1 DEF EndLevel, ScanNode
  <2>4. QED BY <2>1, <2>2, <2>3 DEF AllSound
<1>2. ASSUME UNCHANGED <<query, at, hop, visited, todo, next, rows>>
      PROVE  AllSound'
      BY <1>2, SoundElsewhere DEF AllSound
<1>3. QED BY <1>1, <1>2 DEF Next, Merge, vars

\* The merge fails on nothing but an error of the filter: the rows it puts
\* together come with their nodes.
LEMMA MergeSound ==
    ASSUME TypeOK, AllSound, Merge, result'.status = "err"
    PROVE  \E w \in Workers(query) : at[w] = "failed"
<1> DEFINE found == UNION {visited[w] : w \in Workers(query)}
           retained == UNION {rows[w] : w \in Workers(query)}
<1>1. \A r \in retained : {query.edges[r].src, query.edges[r].dst} \subseteq found
      BY DEF AllSound, Sound
<1>2. (\A w \in Workers(query) : at[w] # "failed")
        => result' = [status |-> "ok", nodes |-> found, rows |-> retained]
      BY <1>1 DEF Merge
<1> HIDE DEF found, retained
<1>3. QED BY <1>2

\* What fails in a chunk fails in the frontier, and the other way round.
LEMMA FailsByChunks ==
    ASSUME NEW q \in Queries
    PROVE  FailsWithin(q, Frontier(q), q.hops) <=>
              \E w \in Workers(q) : FailsWithin(q, Chunk(q, w), q.hops)
<1>1. q.hops \in Nat
      BY QueriesAssumption DEF Query
<1>2. CASE q.hops = 0
      BY <1>2 DEF FailsWithin, Scanned
<1>3. CASE q.hops # 0
  <2>1. \A n : n \in Reach(q, Frontier(q), q.hops - 1) <=>
                 \E w \in Workers(q) : n \in Reach(q, Chunk(q, w), q.hops - 1)
        BY <1>1, <1>3, ReachByChunks
  <2>2. QED BY <1>3, <2>1 DEF FailsWithin, Scanned
<1>4. QED BY <1>2, <1>3

LEMMA FilterFailsNext ==
    ASSUME TypeOK, AllSound, OnlyTheFilterFails, [Next]_vars
    PROVE  OnlyTheFilterFails'
<1>1. query' = query
      BY DEF Next, EndLevel, ScanNode, Merge, vars
<1>2. ASSUME Merge, result'.status = "err"
      PROVE  FailsWithin(query, Frontier(query), query.hops)
  <2>1. PICK w \in Workers(query) : at[w] = "failed"
        BY <1>2, MergeSound
  <2>2. query \in Queries
        BY DEF TypeOK
  <2>3. QED BY <2>1, <2>2, FailsByChunks DEF AllSound, Sound
<1>3. CASE Merge
      BY <1>1, <1>2, <1>3 DEF OnlyTheFilterFails
<1>4. CASE result' = result
      BY <1>1, <1>4 DEF OnlyTheFilterFails
<1>5. QED BY <1>3, <1>4 DEF Next, EndLevel, ScanNode, vars

LEMMA SoundInvariant == Spec => []AllSound
<1>1. TypeOK /\ LevelsLeft /\ AllSound /\ [Next]_vars => AllSound'
      BY SoundNext
<1>2. QED BY <1>1, SoundInit, TypesInvariant, PTL DEF Spec

\* Wherever a limit stops a search and however the chunks are merged, the rows
\* that were retained come with both their nodes, so the only error is the
\* filter's, at a node that an edge within the hops leads to.
THEOREM FailuresCorrect == Spec => []OnlyTheFilterFails
<1>1. Init => OnlyTheFilterFails
      BY DEF Init, NoResult, OnlyTheFilterFails
<1>2. TypeOK /\ AllSound /\ OnlyTheFilterFails /\ [Next]_vars => OnlyTheFilterFails'
      BY FilterFailsNext
<1>3. QED BY <1>1, <1>2, SoundInvariant, TypesInvariant, PTL DEF Spec

-----------------------------------------------------------------------------
(* Completeness: without a limit a search misses nothing. *)

\* Every entry of a node has been taken.
Exhausted(w, m) ==
    \A e \in Entries(query, m) :
        /\ e.to \notin query.fails
        /\ e.to \in query.passes => e.to \in visited[w] /\ e.row \in rows[w]

\* While it scans, what it found in earlier levels is what that many hops lead
\* to, and only nodes to scan and nodes just found are not exhausted.
Levelled(w) ==
    /\ Reach(query, Chunk(query, w), hop[w]) \subseteq visited[w]
    /\ visited[w] \ next[w] \subseteq Reach(query, Chunk(query, w), hop[w])
    /\ next[w] \cap Reach(query, Chunk(query, w), hop[w]) = {}
    /\ \A m \in visited[w] \ (todo[w] \cup next[w]) : Exhausted(w, m)

\* When it is done, all is found.
Finished(w) ==
    /\ Reach(query, Chunk(query, w), query.hops) \subseteq visited[w]
    /\ RowsWithin(query, Chunk(query, w), query.hops) \subseteq rows[w]
    /\ ~FailsWithin(query, Chunk(query, w), query.hops)

Complete(w) == (at[w] = "scan" => Levelled(w)) /\ (at[w] = "done" => Finished(w))

AllComplete == query.plan # "limit" => \A w \in Workers(query) : Complete(w)

LEMMA CompleteInit == Init => AllComplete
<1> SUFFICES ASSUME Init, NEW w \in Workers(query) PROVE Complete(w)
    BY DEF AllComplete
<1> DEFINE S == Chunk(query, w)
<1>1. query \in Queries /\ query.hops \in Nat
      BY QueriesAssumption DEF Init, Query
<1>2. Reach(query, S, 0) = S
      BY <1>1, ChunksCover, ReachNothing
<1>3. visited[w] = S /\ todo[w] = S /\ next[w] = {} /\ rows[w] = {} /\ hop[w] = 0
      BY DEF Init
<1>4. at[w] = "done" => query.hops = 0
      BY DEF Init
<1> HIDE DEF S
<1>5. query.hops = 0 => Finished(w)
      BY <1>2, <1>3 DEF Finished, RowsWithin, FailsWithin, Scanned, S
<1>6. Levelled(w)
      BY <1>2, <1>3 DEF Levelled, S
<1>7. QED BY <1>4, <1>5, <1>6 DEF Complete

LEMMA CompleteElsewhere ==
    ASSUME NEW w \in Workers(query), Complete(w), query' = query,
           at'[w] = at[w], hop'[w] = hop[w], visited'[w] = visited[w],
           todo'[w] = todo[w], next'[w] = next[w], rows'[w] = rows[w]
    PROVE  Complete(w)'
BY DEF Complete, Levelled, Finished, Exhausted

LEMMA CompleteScan ==
    ASSUME TypeOK, LevelsLeft, NEW w \in Workers(query), Sound(w), Complete(w),
           NEW n \in Nodes, ScanNode(w, n),
           \A e \in LookedAt(w, n) : Ends(w, n, e) => e.to \in query.fails
    PROVE  Complete(w)'
<1> DEFINE S == Chunk(query, w)
           to == {e.to : e \in Taken(w, n)}
           over == {e.row : e \in Taken(w, n)}
<1>1. query \in Queries
      BY DEF TypeOK
<1>2. /\ query' = query /\ hop'[w] = hop[w]
      /\ visited'[w] = visited[w] \cup to
      /\ next'[w] = next[w] \cup (to \ visited[w])
      /\ rows'[w] = rows[w] \cup over
      /\ todo'[w] = todo[w] \ {n}
      BY DEF TypeOK, ScanNode
<1>3. CASE \E e \in LookedAt(w, n) : e.to \in query.fails
  <2>1. at'[w] = "failed"
        BY <1>3 DEF TypeOK, ScanNode
  <2>2. QED BY <2>1 DEF Complete
<1>4. CASE \A e \in LookedAt(w, n) : e.to \notin query.fails
  <2>1. LookedAt(w, n) = Entries(query, n) /\ \A e \in Entries(query, n) : ~Ends(w, n, e)
        BY <1>1, <1>4, ScanMeetsAll
  <2>2. at'[w] = "scan"
        BY <1>4, <2>1 DEF TypeOK, ScanNode
  <2>3. Exhausted(w, n)'
    <3>1. \A e \in Entries(query, n) : e.to \in query.passes => e.to \in to /\ e.row \in over
          BY <2>1 DEF Taken
    <3> HIDE DEF to, over
    <3>2. QED BY <1>2, <1>4, <2>1, <3>1 DEF Exhausted
  <2> HIDE DEF to, over
  <2>4. Levelled(w)
        BY DEF Complete, ScanNode
  <2>5. ASSUME NEW m \in visited[w] \ (todo[w] \cup next[w]) PROVE Exhausted(w, m)'
        BY <1>2, <2>4 DEF Levelled, Exhausted
  <2>6. \A m \in visited'[w] \ (todo'[w] \cup next'[w]) :
            m = n \/ m \in visited[w] \ (todo[w] \cup next[w])
        BY <1>2
  <2>7. Levelled(w)'
        BY <1>2, <2>3, <2>4, <2>5, <2>6 DEF Levelled
  <2>8. QED BY <2>2, <2>7 DEF Complete
<1>5. QED BY <1>3, <1>4

\* A set whose nodes are all exhausted and that holds everything a hop short of
\* the end holds everything.
LEMMA ExhaustedFinishes ==
    ASSUME TypeOK, NEW w \in Workers(query), query.hops # 0,
           Reach(query, Chunk(query, w), query.hops) \subseteq visited[w],
           \A m \in Reach(query, Chunk(query, w), query.hops - 1) : Exhausted(w, m)
    PROVE  Finished(w)
BY DEF Finished, RowsWithin, FailsWithin, Scanned, Exhausted

LEMMA CompleteEndLevel ==
    ASSUME TypeOK, LevelsLeft, NEW w \in Workers(query),
           Sound(w), Complete(w), EndLevel(w)
    PROVE  Complete(w)'
<1> DEFINE S == Chunk(query, w)
<1>1. /\ query \in Queries /\ query.hops \in Nat /\ hop[w] \in Nat /\ hop[w] < query.hops
      /\ S \subseteq Nodes
  <2>1. query \in Queries /\ query.hops \in Nat /\ hop[w] \in Nat /\ hop[w] < query.hops
        BY QueriesAssumption DEF TypeOK, Query, LevelsLeft, EndLevel
  <2>2. S \subseteq Nodes
        BY <2>1, ChunksCover
  <2>3. QED BY <2>1, <2>2
<1>2. /\ query' = query /\ hop'[w] = hop[w] + 1
      /\ visited'[w] = visited[w] /\ rows'[w] = rows[w]
      /\ todo'[w] = next[w] /\ next'[w] = {} /\ todo[w] = {} /\ at[w] = "scan"
      /\ at'[w] = IF next[w] = {} \/ hop[w] + 1 = query.hops THEN "done" ELSE "scan"
      BY DEF TypeOK, EndLevel
<1>3. Levelled(w) /\ Frontiers(w) /\ S \subseteq visited[w]
      BY <1>2 DEF Complete, Sound
<1>4. \A m \in visited[w] \ next[w] : Exhausted(w, m)
      BY <1>2, <1>3 DEF Levelled
<1>5. \A m \in visited[w] \ next[w], n \in Nodes : Hop(query, m, n) => n \in visited[w]
      BY <1>4 DEF Exhausted, Hop
<1>6. Reach(query, S, hop[w]) \subseteq visited[w] \ next[w]
      BY <1>3 DEF Levelled
<1>7. Reach(query, S, hop[w] + 1) \subseteq visited[w]
  <2>1. SUFFICES ASSUME NEW n \in Reach(query, S, hop[w] + 1) PROVE n \in visited[w]
        OBVIOUS
  <2>2. n \in Nodes
        BY DEF Reach
  <2>3. n \in S \/ \E m \in Reach(query, S, hop[w]) : Hop(query, m, n)
        BY <1>1, <2>1, ReachLast
  <2>4. QED BY <1>3, <1>5, <1>6, <2>2, <2>3
<1>8. visited[w] \subseteq Reach(query, S, hop[w] + 1)
  <2>1. Reach(query, S, hop[w]) \subseteq Reach(query, S, hop[w] + 1)
        BY <1>1, ReachGrows
  <2>2. QED BY <1>3, <2>1 DEF Levelled, Frontiers
<1>9. CASE next[w] # {} /\ hop[w] + 1 # query.hops
  <2>1. \A m \in visited[w] \ next[w] : Exhausted(w, m)'
        BY <1>2, <1>4 DEF Exhausted
  <2>2. Levelled(w)'
        BY <1>2, <1>7, <1>8, <2>1 DEF Levelled
  <2>3. QED BY <1>2, <1>9, <2>2 DEF Complete
<1>10. CASE hop[w] + 1 = query.hops
  <2>1. query.hops - 1 = hop[w] /\ query.hops # 0
        BY <1>1, <1>10
  <2>2. \A m \in Reach(query, S, query.hops - 1) : Exhausted(w, m)
        BY <1>4, <1>6, <2>1
  <2>3. Finished(w)
        BY <1>7, <1>10, <2>1, <2>2, ExhaustedFinishes
  <2>4. QED BY <1>2, <1>10, <2>3 DEF Complete, Finished
<1>11. CASE next[w] = {}
  <2>1. \A k \in Nat : Reach(query, S, k) \subseteq visited[w]
        BY <1>1, <1>3, <1>5, <1>11, ReachClosed
  <2>2. query.hops - 1 \in Nat /\ query.hops # 0
        BY <1>1
  <2>3. \A m \in Reach(query, S, query.hops - 1) : Exhausted(w, m)
        BY <1>4, <1>11, <2>1, <2>2
  <2>4. Finished(w)
        BY <1>1, <2>1, <2>2, <2>3, ExhaustedFinishes
  <2>5. QED BY <1>2, <1>11, <2>4 DEF Complete, Finished
<1>12. QED BY <1>9, <1>10, <1>11

LEMMA CompleteNext ==
    ASSUME TypeOK, LevelsLeft, AllSound, AllComplete, [Next]_vars
    PROVE  AllComplete'
<1>1. query' = query
      BY DEF Next, EndLevel, ScanNode, Merge, vars
<1>2. SUFFICES ASSUME query.plan # "limit" PROVE \A w \in Workers(query) : Complete(w)'
      BY <1>1 DEF AllComplete
<1>3. ASSUME NEW w \in Workers(query),
             EndLevel(w) \/ \E n \in Nodes : ScanNode(w, n)
      PROVE  \A v \in Workers(query) : Complete(v)'
  <2>1. Complete(w)'
    <3>1. CASE EndLevel(w)
          BY <1>2, <3>1, CompleteEndLevel DEF AllComplete, AllSound
    <3>2. ASSUME NEW n \in Nodes, ScanNode(w, n) PROVE Complete(w)'
      <4>1. \A e \in LookedAt(w, n) : Ends(w, n, e) => e.to \in query.fails
            BY <1>2 DEF Ends, Enough
      <4>2. QED BY <1>2, <3>2, <4>1, CompleteScan DEF AllComplete, AllSound
    <3>3. QED BY <1>3, <3>1, <3>2
  <2>2. ASSUME NEW v \in Workers(query), v # w PROVE Complete(v)'
    <3>1. /\ at'[v] = at[v] /\ hop'[v] = hop[v]
          /\ visited'[v] = visited[v] /\ todo'[v] = todo[v]
          /\ next'[v] = next[v] /\ rows'[v] = rows[v]
          BY <1>3, <2>2 DEF TypeOK, EndLevel, ScanNode
    <3>2. QED BY <1>1, <1>2, <3>1, CompleteElsewhere DEF AllComplete
  <2>3. QED BY <2>1, <2>2
<1>4. ASSUME UNCHANGED <<at, hop, visited, todo, next, rows>>
      PROVE  \A w \in Workers(query) : Complete(w)'
      BY <1>1, <1>2, <1>4, CompleteElsewhere DEF AllComplete
<1>5. QED BY <1>3, <1>4 DEF Next, Merge, vars

-----------------------------------------------------------------------------
(* The merge. *)

\* The rows within the hops, chunk by chunk.
LEMMA RowsByChunks ==
    ASSUME NEW q \in Queries
    PROVE  RowsWithin(q, Frontier(q), q.hops)
              = UNION {RowsWithin(q, Chunk(q, w), q.hops) : w \in Workers(q)}
<1>1. q.hops \in Nat
      BY QueriesAssumption DEF Query
<1>2. \A n : n \in Scanned(q, Frontier(q), q.hops) <=>
                \E w \in Workers(q) : n \in Scanned(q, Chunk(q, w), q.hops)
  <2>1. CASE q.hops = 0
        BY <2>1 DEF Scanned
  <2>2. CASE q.hops # 0
        BY <1>1, <2>2, ReachByChunks DEF Scanned
  <2>3. QED BY <2>1, <2>2
<1>3. QED BY <1>2 DEF RowsWithin

LEMMA MergeExpands ==
    ASSUME TypeOK, AllSound, AllComplete, query.plan # "limit", Merge
    PROVE  result' = Expanded(query)
<1> DEFINE found == UNION {visited[w] : w \in Workers(query)}
           retained == UNION {rows[w] : w \in Workers(query)}
<1>1. query \in Queries /\ query.hops \in Nat
      BY QueriesAssumption DEF TypeOK, Query
<1>2. \A w \in Workers(query) : at[w] \in {"done", "failed"}
      BY DEF TypeOK, Merge
<1>3. CASE \E w \in Workers(query) : at[w] = "failed"
  <2>1. result' = Failure
        BY <1>3 DEF Merge
  <2>2. FailsWithin(query, Frontier(query), query.hops)
        BY <1>1, <1>3, FailsByChunks DEF AllSound, Sound
  <2>3. QED BY <2>1, <2>2 DEF Expanded
<1>4. CASE \A w \in Workers(query) : at[w] = "done"
  <2>1. \A w \in Workers(query) : Finished(w) /\ Sound(w)
        BY <1>4 DEF AllComplete, AllSound, Complete
  <2>2. ~FailsWithin(query, Frontier(query), query.hops)
        BY <1>1, <2>1, FailsByChunks DEF Finished
  <2>3. \A w \in Workers(query) :
            /\ visited[w] = Reach(query, Chunk(query, w), query.hops)
            /\ rows[w] = RowsWithin(query, Chunk(query, w), query.hops)
        BY <2>1 DEF Finished, Sound
  <2>4. found = Reach(query, Frontier(query), query.hops)
        BY <1>1, <2>3, ReachByChunks
  <2>5. retained = RowsWithin(query, Frontier(query), query.hops)
        BY <1>1, <2>3, RowsByChunks
  <2>6. \A r \in retained : {query.edges[r].src, query.edges[r].dst} \subseteq found
        BY <2>1 DEF Sound
  <2>7. result' = [status |-> "ok", nodes |-> found, rows |-> retained]
        BY <1>4, <2>6 DEF Merge
  <2> HIDE DEF found, retained
  <2>8. QED BY <2>2, <2>4, <2>5, <2>7 DEF Expanded
<1>5. QED BY <1>2, <1>3, <1>4

LEMMA ExpandsNext ==
    ASSUME TypeOK, AllSound, AllComplete, ExpandsByHops, [Next]_vars
    PROVE  ExpandsByHops'
<1>1. query' = query
      BY DEF Next, EndLevel, ScanNode, Merge, vars
<1>2. CASE Merge
  <2>1. query.plan # "limit" => result' = Expanded(query)
        BY <1>2, MergeExpands
  <2>2. (result' # NoResult /\ query'.plan # "limit" => result' = Expanded(query'))
        BY <1>1, <2>1
  <2>3. Expanded(query') = Expanded(query)'
        BY <1>1
  <2>4. QED BY <2>2, <2>3 DEF ExpandsByHops
<1>3. CASE result' = result
      BY <1>1, <1>3 DEF ExpandsByHops
<1>4. QED BY <1>2, <1>3 DEF Next, EndLevel, ScanNode, vars

\* However the frontier is cut into chunks and whatever order each worker scans
\* in, an expansion without a limit returns the nodes that so many hops lead to
\* and the rows of those hops, or the filter's error if one of them meets it:
\* the parallel plan has the result of the plain one.
THEOREM HopsCorrect == Spec => []ExpandsByHops
<1>1. Init => ExpandsByHops
      BY DEF Init, ExpandsByHops
<1>2. TypeOK /\ LevelsLeft /\ AllSound /\ AllComplete /\ [Next]_vars => AllComplete'
      BY CompleteNext
<1>3. TypeOK /\ AllSound /\ AllComplete /\ ExpandsByHops /\ [Next]_vars => ExpandsByHops'
      BY ExpandsNext
<1>4. QED BY <1>1, <1>2, <1>3, CompleteInit, SoundInvariant, TypesInvariant, PTL DEF Spec

-----------------------------------------------------------------------------
(* The order of the entries of a node. *)

\* A node has an index wherever it ends a row, and no two nodes share one.
LEMMA IndicesApart ==
    ASSUME NEW q \in Queries
    PROVE  /\ \A m : Appears(q, m) \subseteq Nat
           /\ \A n : \A e \in Entries(q, n) : Appears(q, e.to) # {}
           /\ \A m, n : Appears(q, m) \cap Appears(q, n) # {} => m = n
<1>1. \A r \in DOMAIN q.edges : r \in Nat /\ 2 * r \in Nat /\ 2 * r - 1 \in Nat
  <2>1. q.edges \in Seq(Row)
        BY QueriesAssumption DEF Query
  <2>2. DOMAIN q.edges = 1..Len(q.edges) /\ Len(q.edges) \in Nat
        BY <2>1
  <2>3. QED BY <2>2
<1>2. \A m : Appears(q, m) \subseteq Nat
      BY <1>1 DEF Appears
<1>3. ASSUME NEW n, NEW e \in Entries(q, n) PROVE Appears(q, e.to) # {}
  <2>1. e.row \in DOMAIN q.edges /\ e.to \in {q.edges[e.row].src, q.edges[e.row].dst}
        BY DEF Entries
  <2>2. 2 * e.row - 1 \in Appears(q, e.to) \/ 2 * e.row \in Appears(q, e.to)
        BY <2>1 DEF Appears
  <2>3. QED BY <2>2
<1>4. ASSUME NEW m, NEW n, NEW i \in Appears(q, m) \cap Appears(q, n) PROVE m = n
  <2>1. \A r, s \in DOMAIN q.edges :
            /\ 2 * r - 1 # 2 * s
            /\ 2 * r = 2 * s => r = s
            /\ 2 * r - 1 = 2 * s - 1 => r = s
        BY <1>1
  <2>2. CASE \E r \in DOMAIN q.edges : i = 2 * r - 1 /\ q.edges[r].src = m
        BY <2>1, <2>2 DEF Appears
  <2>3. CASE \E r \in DOMAIN q.edges : i = 2 * r /\ q.edges[r].dst = m
        BY <2>1, <2>3 DEF Appears
  <2>4. QED BY <2>2, <2>3 DEF Appears
<1>5. QED BY <1>2, <1>3, <1>4

\* Of two nodes that end rows, one has an index before all of the other's.
LEMMA IndexTotal ==
    ASSUME NEW q \in Queries, NEW m, NEW n, Appears(q, m) # {}, Appears(q, n) # {}
    PROVE  m = n \/ IndexBefore(q, m, n) \/ IndexBefore(q, n, m)
<1>1. Appears(q, m) \subseteq Nat /\ Appears(q, n) \subseteq Nat
      BY IndicesApart
<1>2. PICK i \in Appears(q, m) : \A k \in Appears(q, m) : i <= k
      BY <1>1, LeastNat
<1>3. PICK j \in Appears(q, n) : \A k \in Appears(q, n) : j <= k
      BY <1>1, LeastNat
<1>4. i = j => m = n
      BY <1>2, <1>3, IndicesApart
<1>5. i < j => IndexBefore(q, m, n)
      BY <1>1, <1>2, <1>3 DEF IndexBefore
<1>6. j < i => IndexBefore(q, n, m)
      BY <1>1, <1>2, <1>3 DEF IndexBefore
<1>7. QED BY <1>1, <1>4, <1>5, <1>6

LEMMA IndexTransitive ==
    ASSUME NEW q \in Queries, NEW k, NEW m, NEW n,
           IndexBefore(q, k, m), IndexBefore(q, m, n)
    PROVE  IndexBefore(q, k, n)
<1>1. \A l : Appears(q, l) \subseteq Nat
      BY IndicesApart
<1>2. PICK i \in Appears(q, k) : \A j \in Appears(q, m) : i < j
      BY DEF IndexBefore
<1>3. PICK l \in Appears(q, m) : \A j \in Appears(q, n) : l < j
      BY DEF IndexBefore
<1>4. \A j \in Appears(q, n) : i < j
      BY <1>1, <1>2, <1>3
<1>5. QED BY <1>4 DEF IndexBefore

\* A CSR lists a node's entries one after the other.
LEMMA BeforeOrders ==
    ASSUME NEW q \in Queries, NEW n
    PROVE  /\ \A e \in Entries(q, n) : ~Before(q, e, e)
           /\ \A e, f \in Entries(q, n) : e = f \/ Before(q, e, f) \/ Before(q, f, e)
           /\ \A e, f, g \in Entries(q, n) :
                  Before(q, e, f) /\ Before(q, f, g) => Before(q, e, g)
<1>1. \A e \in Entries(q, n) : e.side \in {"out", "in"} /\ e.row \in Nat
  <2>1. q.edges \in Seq(Row)
        BY QueriesAssumption DEF Query
  <2>2. DOMAIN q.edges = 1..Len(q.edges) /\ Len(q.edges) \in Nat
        BY <2>1
  <2>3. QED BY <2>2 DEF Entries
<1>2. \A m : ~IndexBefore(q, m, m)
      BY IndicesApart DEF IndexBefore
<1>3. \A e \in Entries(q, n) : ~Before(q, e, e)
      BY <1>1, <1>2 DEF Before
<1>4. ASSUME NEW e \in Entries(q, n), NEW f \in Entries(q, n)
      PROVE  e = f \/ Before(q, e, f) \/ Before(q, f, e)
  <2>1. e.to = f.to \/ IndexBefore(q, e.to, f.to) \/ IndexBefore(q, f.to, e.to)
    <3>1. Appears(q, e.to) # {} /\ Appears(q, f.to) # {}
          BY IndicesApart
    <3>2. QED BY <3>1, IndexTotal
  <2>2. e.side = f.side /\ e.row = f.row => e = f
        BY DEF Entries
  <2>3. e.row = f.row \/ e.row < f.row \/ f.row < e.row
        BY <1>1
  <2>4. QED BY <1>1, <2>1, <2>2, <2>3 DEF Before
<1>5. ASSUME NEW e \in Entries(q, n), NEW f \in Entries(q, n), NEW g \in Entries(q, n),
             Before(q, e, f), Before(q, f, g)
      PROVE  Before(q, e, g)
  <2>1. CASE e.side = "out" /\ g.side = "in"
        BY <2>1 DEF Before
  <2>2. CASE e.side = f.side /\ f.side = g.side
    <3>1. e.to = f.to /\ f.to = g.to => e.row < g.row
          BY <1>1, <1>2, <1>5, <2>2 DEF Before
    <3>2. e.to = f.to \/ IndexBefore(q, e.to, f.to)
          BY <1>1, <1>5, <2>2 DEF Before
    <3>3. f.to = g.to \/ IndexBefore(q, f.to, g.to)
          BY <1>1, <1>5, <2>2 DEF Before
    <3>4. (e.to = f.to /\ f.to = g.to) \/ IndexBefore(q, e.to, g.to)
          BY <3>2, <3>3, IndexTransitive
    <3>5. QED BY <2>2, <3>1, <3>4 DEF Before
  <2>3. QED BY <1>1, <1>5, <2>1, <2>2 DEF Before
<1>6. QED BY <1>3, <1>4, <1>5

LEMMA EntriesFinite ==
    ASSUME NEW q \in Queries, NEW n
    PROVE  IsFiniteSet(Entries(q, n))
<1> DEFINE T == {"out", "in"} \X (1..Len(q.edges))
           f == [e \in Entries(q, n) |-> <<e.side, e.row>>]
<1>1. q.edges \in Seq(Row)
      BY QueriesAssumption DEF Query
<1>2. DOMAIN q.edges = 1..Len(q.edges) /\ Len(q.edges) \in Nat
      BY <1>1
<1>3. IsFiniteSet({"out", "in"})
  <2>1. IsFiniteSet({"out"}) /\ {"out", "in"} = {"out"} \cup {"in"}
        BY FS_Singleton
  <2>2. QED BY <2>1, FS_AddElement
<1>4. IsFiniteSet(T)
  <2>1. IsFiniteSet(1..Len(q.edges))
        BY <1>2, FS_Interval
  <2>2. QED BY <1>3, <2>1, FS_Product
<1>5. f \in [Entries(q, n) -> T]
      BY <1>2 DEF Entries
<1>6. \A e, g \in Entries(q, n) : f[e] = f[g] => e = g
      BY DEF Entries
<1> HIDE DEF f, T
<1>7. f \in Injection(Entries(q, n), T)
      BY <1>5, <1>6 DEF Injection, IsInjective
<1>8. QED BY <1>4, <1>7, FS_Injection

\* Of some entries of a node, one comes after all others: the one that most come
\* before.
LEMMA LastEntry ==
    ASSUME NEW q \in Queries, NEW n, NEW B \in SUBSET Entries(q, n), B # {}
    PROVE  \E e \in B : \A f \in B : ~Before(q, e, f)
<1> DEFINE Ahead(e) == {f \in B : Before(q, f, e)}
           T == {Cardinality(B) - Cardinality(Ahead(e)) : e \in B}
<1>1. IsFiniteSet(B) /\ Cardinality(B) \in Nat
      BY EntriesFinite, FS_Subset, FS_CardinalityType
<1>2. ASSUME NEW e \in B
      PROVE  /\ IsFiniteSet(Ahead(e)) /\ Cardinality(Ahead(e)) \in Nat
             /\ Cardinality(Ahead(e)) <= Cardinality(B)
  <2>1. Ahead(e) \subseteq B
        OBVIOUS
  <2> HIDE DEF Ahead
  <2>2. QED BY <1>1, <2>1, FS_Subset, FS_CardinalityType
<1>3. T \subseteq Nat /\ T # {}
  <2> HIDE DEF Ahead
  <2>1. QED BY <1>1, <1>2
<1>4. PICK m \in T : \A k \in T : m <= k
  <2> HIDE DEF T
  <2>1. QED BY <1>3, LeastNat
<1>5. PICK e \in B : m = Cardinality(B) - Cardinality(Ahead(e))
  <2> HIDE DEF Ahead
  <2>1. QED BY <1>4
<1>6. ASSUME NEW f \in B, Before(q, e, f) PROVE FALSE
  <2>1. Ahead(e) \subseteq Ahead(f)
        BY <1>6, BeforeOrders
  <2>2. e \in Ahead(f) /\ e \notin Ahead(e)
        BY <1>6, BeforeOrders
  <2> HIDE DEF Ahead
  <2>3. Cardinality(Ahead(e)) <= Cardinality(Ahead(f))
        /\ Cardinality(Ahead(e)) # Cardinality(Ahead(f))
        BY <1>2, <2>1, <2>2, FS_Subset
  <2>4. m <= Cardinality(B) - Cardinality(Ahead(f))
        BY <1>4
  <2>5. QED BY <1>1, <1>2, <1>5, <2>3, <2>4
<1>7. QED BY <1>6

-----------------------------------------------------------------------------
(* A limit: a search that stops has what the limit asks for, and no more. *)

\* What a search has found once it has taken entry e of node n.
UpTo(w, n, e) ==
    visited[w] \cup {f.to : f \in {f \in Entries(query, n) :
        f.to \in query.passes /\ (f = e \/ Before(query, f, e))}}

LEMMA EnoughIs ==
    ASSUME NEW w, NEW n, NEW e
    PROVE  Enough(w, n, e) <=> query.plan = "limit" /\ Cardinality(UpTo(w, n, e)) >= query.stop
BY DEF Enough, UpTo

LEMMA NodesFinite ==
    ASSUME NEW S \in SUBSET Nodes
    PROVE  IsFiniteSet(S) /\ Cardinality(S) \in Nat
<1>1. IsFiniteSet(Nodes)
      BY SizesAssumption, FS_Interval DEF Nodes
<1>2. QED BY <1>1, FS_Subset, FS_CardinalityType

LEMMA UpToNodes ==
    ASSUME query \in Queries, NEW w, visited[w] \subseteq Nodes, NEW n, NEW e
    PROVE  UpTo(w, n, e) \in SUBSET Nodes
BY NodesAndRows DEF UpTo

\* Entries that were taken without filling the limit leave it unfilled.
LEMMA TakenFillNothing ==
    ASSUME query \in Queries, query.plan = "limit", NEW w, visited[w] \subseteq Nodes, NEW n,
           NEW B \in SUBSET Taken(w, n), B # {}, \A e \in B : ~Ends(w, n, e)
    PROVE  /\ visited[w] \cup {e.to : e \in B} \subseteq Nodes
           /\ Cardinality(visited[w] \cup {e.to : e \in B}) < query.stop
<1> DEFINE V == visited[w] \cup {e.to : e \in B}
<1>1. \A e \in B : e \in Entries(query, n) /\ e.to \in query.passes
      BY TakenAreHops
<1>2. PICK g \in B : \A f \in B : ~Before(query, g, f)
      BY <1>1, LastEntry
<1>3. \A f \in B : f = g \/ Before(query, f, g)
      BY <1>1, <1>2, BeforeOrders
<1>4. V \subseteq UpTo(w, n, g)
      BY <1>1, <1>3 DEF UpTo
<1>5. ~Enough(w, n, g)
      BY <1>1 DEF Ends
<1>6. query.stop \in Nat
      BY QueriesAssumption DEF Query
<1>7. UpTo(w, n, g) \in SUBSET Nodes
      BY UpToNodes
<1>8. Cardinality(UpTo(w, n, g)) \in Nat /\ Cardinality(UpTo(w, n, g)) < query.stop
  <2>1. Cardinality(UpTo(w, n, g)) \in Nat
        BY <1>7, NodesFinite
  <2>2. ~(Cardinality(UpTo(w, n, g)) >= query.stop)
        BY <1>5, EnoughIs
  <2>3. QED BY <1>6, <2>1, <2>2
<1> HIDE DEF V
<1>9. V \subseteq Nodes /\ Cardinality(V) \in Nat
      BY <1>4, <1>7, NodesFinite
<1>10. Cardinality(V) <= Cardinality(UpTo(w, n, g))
       BY <1>4, <1>7, NodesFinite, FS_Subset
<1>11. Cardinality(V) < query.stop
       BY <1>6, <1>8, <1>9, <1>10
<1>12. QED BY <1>9, <1>11 DEF V

\* What a scan takes before the entry that ends it, and that entry.
LEMMA ScanUpTo ==
    ASSUME query \in Queries, NEW w, NEW n,
           \A e \in LookedAt(w, n) : e.to \notin query.fails,
           \E e \in LookedAt(w, n) : Ends(w, n, e)
    PROVE  \E e \in Taken(w, n) :
               /\ Enough(w, n, e)
               /\ \A f \in Taken(w, n) \ {e} : ~Ends(w, n, f)
               /\ visited[w] \cup {f.to : f \in Taken(w, n)} = UpTo(w, n, e)
<1> DEFINE B == {e \in Entries(query, n) : Ends(w, n, e)}
<1>1. B # {} /\ B \subseteq Entries(query, n)
      BY DEF LookedAt
<1> HIDE DEF B
<1>2. PICK e \in B : \A f \in B : ~Before(query, f, e)
      BY <1>1, FirstEntry
<1>3. e \in LookedAt(w, n)
      BY <1>1, <1>2 DEF LookedAt, B
<1>4. e \in Taken(w, n) /\ Enough(w, n, e)
      BY <1>2, <1>3 DEF Taken, Ends, B
<1>5. ASSUME NEW f \in LookedAt(w, n) PROVE f = e \/ Before(query, f, e)
  <2>1. e \in Entries(query, n) /\ Ends(w, n, e) /\ f \in Entries(query, n)
        BY <1>1, <1>2 DEF LookedAt, B
  <2>2. ~Before(query, e, f)
        BY <2>1 DEF LookedAt
  <2>3. QED BY <2>1, <2>2, BeforeOrders
<1>6. ASSUME NEW f \in Entries(query, n), Before(query, f, e) PROVE f \in LookedAt(w, n)
  <2>1. ASSUME NEW g \in Entries(query, n), Before(query, g, f), Ends(w, n, g) PROVE FALSE
    <3>1. Before(query, g, e)
          BY <1>1, <1>2, <1>6, <2>1, BeforeOrders
    <3>2. QED BY <1>2, <2>1, <3>1 DEF B
  <2>2. QED BY <2>1 DEF LookedAt
<1>7. \A f \in Taken(w, n) \ {e} : ~Ends(w, n, f)
  <2>1. \A f \in Taken(w, n) : f \in LookedAt(w, n) /\ f \in Entries(query, n)
        BY DEF Taken, LookedAt
  <2>2. QED BY <1>2, <1>5, <2>1 DEF B
<1>8. Taken(w, n) = {f \in Entries(query, n) :
                        f.to \in query.passes /\ (f = e \/ Before(query, f, e))}
  <2>1. \A f \in LookedAt(w, n) : f \in Entries(query, n)
        BY DEF LookedAt
  <2>2. QED BY <1>3, <1>5, <1>6, <2>1 DEF Taken
<1>9. visited[w] \cup {f.to : f \in Taken(w, n)} = UpTo(w, n, e)
      BY <1>8 DEF UpTo
<1>10. QED BY <1>4, <1>7, <1>9

\* A search that goes on has taken nothing yet, or has less than the limit.
Short(w) == visited[w] = Chunk(query, w) \/ Cardinality(visited[w]) < query.stop

\* A search that the limit ended.
Filled(w) ==
    IF Len(query.frontier) < query.stop
    THEN Cardinality(visited[w]) = query.stop
    ELSE Cardinality(visited[w]) <= Len(query.frontier) + 1

\* The limit ended the search, or the search did not notice it.
Kept(w) ==
    /\ at[w] = "scan" => Levelled(w) /\ Short(w)
    /\ at[w] = "done" => (Finished(w) /\ Short(w)) \/ Filled(w)

AllKept == query.plan = "limit" => \A w \in Workers(query) : Kept(w)

\* Each node of the frontier counts once.
LEMMA ChunkSizes ==
    ASSUME NEW q \in Queries, NEW w \in Workers(q)
    PROVE  /\ Chunk(q, w) \in SUBSET Nodes
           /\ Cardinality(Chunk(q, w)) <= Len(q.frontier)
<1> DEFINE I == {i \in DOMAIN q.frontier : WorkerOf(q, i) = w}
           f == [n \in Chunk(q, w) |-> CHOOSE i \in I : q.frontier[i] = n]
<1>1. q.frontier \in Seq(Nodes)
      BY QueriesAssumption DEF Query
<1>2. DOMAIN q.frontier = 1..Len(q.frontier) /\ Len(q.frontier) \in Nat
      BY <1>1
<1>3. IsFiniteSet(1..Len(q.frontier)) /\ Cardinality(1..Len(q.frontier)) = Len(q.frontier)
  <2>1. \A k \in Nat : IsFiniteSet(1..k) /\ Cardinality(1..k) = k
    <3>1. SUFFICES ASSUME NEW k \in Nat PROVE IsFiniteSet(1..k) /\ Cardinality(1..k) = k
          OBVIOUS
    <3>2. QED BY FS_Interval
  <2>2. QED BY <1>2, <2>1
<1>4. \A n \in Chunk(q, w) : f[n] \in I /\ q.frontier[f[n]] = n
      BY DEF Chunk
<1> HIDE DEF f
<1>5. f \in [Chunk(q, w) -> 1..Len(q.frontier)]
      BY <1>2, <1>4 DEF f
<1>6. f \in Injection(Chunk(q, w), 1..Len(q.frontier))
      BY <1>4, <1>5 DEF Injection, IsInjective
<1>7. Cardinality(Chunk(q, w)) <= Len(q.frontier)
      BY <1>3, <1>6, FS_Injection
<1>8. QED BY <1>7, ChunksCover

LEMMA KeptInit == Init => AllKept
<1> SUFFICES ASSUME Init, query.plan = "limit", NEW w \in Workers(query) PROVE Kept(w)
    BY DEF AllKept
<1> DEFINE S == Chunk(query, w)
<1>1. query \in Queries /\ query.hops \in Nat
      BY QueriesAssumption DEF Init, Query
<1>2. Reach(query, S, 0) = S
      BY <1>1, ChunksCover, ReachNothing
<1>3. visited[w] = S /\ todo[w] = S /\ next[w] = {} /\ rows[w] = {} /\ hop[w] = 0
      BY DEF Init
<1>4. at[w] = "done" => query.hops = 0
      BY DEF Init
<1> HIDE DEF S
<1>5. query.hops = 0 => Finished(w)
      BY <1>2, <1>3 DEF Finished, RowsWithin, FailsWithin, Scanned, S
<1>6. Levelled(w) /\ Short(w)
      BY <1>2, <1>3 DEF Levelled, Short, S
<1>7. QED BY <1>4, <1>5, <1>6 DEF Kept

LEMMA KeptElsewhere ==
    ASSUME NEW w \in Workers(query), Kept(w), query' = query,
           at'[w] = at[w], hop'[w] = hop[w], visited'[w] = visited[w],
           todo'[w] = todo[w], next'[w] = next[w], rows'[w] = rows[w]
    PROVE  Kept(w)'
BY DEF Kept, Levelled, Finished, Exhausted, Short, Filled

LEMMA KeptScan ==
    ASSUME TypeOK, LevelsLeft, query.plan = "limit", NEW w \in Workers(query),
           Sound(w), Kept(w), NEW n \in Nodes, ScanNode(w, n)
    PROVE  Kept(w)'
<1> DEFINE to == {e.to : e \in Taken(w, n)}
<1>1. query \in Queries /\ query.stop \in Nat /\ Len(query.frontier) \in Nat
      BY QueriesAssumption DEF TypeOK, Query
<1>2. query' = query /\ visited'[w] = visited[w] \cup to /\ at[w] = "scan"
      BY DEF TypeOK, ScanNode
<1>3. visited[w] \subseteq Nodes
      BY DEF TypeOK
<1>4. Levelled(w) /\ Short(w)
      BY <1>2 DEF Kept
<1>5. CASE \E e \in LookedAt(w, n) : e.to \in query.fails
  <2>1. at'[w] = "failed"
        BY <1>5 DEF TypeOK, ScanNode
  <2>2. QED BY <2>1 DEF Kept
<1>6. CASE \A e \in LookedAt(w, n) : ~Ends(w, n, e)
  <2>1. Complete(w)'
        BY <1>2, <1>4, <1>6, CompleteScan DEF Complete
  <2>2. \A e \in LookedAt(w, n) : e.to \notin query.fails
        BY <1>6 DEF Ends
  <2>3. at'[w] = "scan"
        BY <1>6, <2>2 DEF TypeOK, ScanNode
  <2>4. Short(w)'
    <3>1. CASE Taken(w, n) = {}
      <4>1. visited'[w] = visited[w]
            BY <1>2, <3>1
      <4>2. QED BY <1>2, <1>4, <4>1 DEF Short
    <3>2. CASE Taken(w, n) # {}
      <4>1. Cardinality(visited[w] \cup to) < query.stop
            BY <1>1, <1>3, <1>6, <3>2, TakenFillNothing DEF Taken
      <4>2. QED BY <1>2, <4>1 DEF Short
    <3>3. QED BY <3>1, <3>2
  <2>5. QED BY <2>1, <2>3, <2>4 DEF Complete, Kept
<1>7. CASE /\ \A e \in LookedAt(w, n) : e.to \notin query.fails
           /\ \E e \in LookedAt(w, n) : Ends(w, n, e)
  <2>1. at'[w] = "done"
        BY <1>7 DEF TypeOK, ScanNode
  <2>2. PICK e \in Taken(w, n) : /\ Enough(w, n, e)
                                 /\ \A f \in Taken(w, n) \ {e} : ~Ends(w, n, f)
                                 /\ visited[w] \cup to = UpTo(w, n, e)
        BY <1>1, <1>7, ScanUpTo
  <2> DEFINE B == Taken(w, n) \ {e}
             V == visited[w] \cup {f.to : f \in B}
  <2>3. visited[w] \cup to = V \cup {e.to}
        OBVIOUS
  <2>4. V \subseteq Nodes /\ (Cardinality(V) < query.stop \/ V = Chunk(query, w))
    <3>1. CASE B = {}
      <4>1. V = visited[w]
            BY <3>1
      <4>2. QED BY <1>3, <1>4, <4>1 DEF Short
    <3>2. CASE B # {}
      <4> HIDE DEF B
      <4>1. B \in SUBSET Taken(w, n) /\ \A f \in B : ~Ends(w, n, f)
            BY <2>2 DEF B
      <4>2. QED BY <1>1, <1>3, <3>2, <4>1, TakenFillNothing
    <3>3. QED BY <3>1, <3>2
  <2> HIDE DEF V, to
  <2>5. Cardinality(V) \in Nat /\ Cardinality(V \cup {e.to}) \in Nat
        /\ Cardinality(V \cup {e.to}) <= Cardinality(V) + 1
    <3>1. IsFiniteSet(V) /\ Cardinality(V) \in Nat
          BY <2>4, NodesFinite
    <3>2. Cardinality(V \cup {e.to}) = IF e.to \in V THEN Cardinality(V) ELSE Cardinality(V) + 1
          BY <3>1, FS_AddElement
    <3>3. QED BY <3>1, <3>2
  <2>6. Cardinality(V \cup {e.to}) >= query.stop
        BY <2>2, <2>3, EnoughIs
  <2>7. Cardinality(Chunk(query, w)) <= Len(query.frontier)
        BY <1>1, ChunkSizes
  <2>8. IF Len(query.frontier) < query.stop
        THEN Cardinality(V \cup {e.to}) = query.stop
        ELSE Cardinality(V \cup {e.to}) <= Len(query.frontier) + 1
        BY <1>1, <2>4, <2>5, <2>6, <2>7
  <2>9. Filled(w)'
        BY <1>2, <2>3, <2>8 DEF Filled
  <2>10. QED BY <2>1, <2>9 DEF Kept
<1>8. QED BY <1>5, <1>6, <1>7

LEMMA KeptEndLevel ==
    ASSUME TypeOK, LevelsLeft, NEW w \in Workers(query), Sound(w), Kept(w), EndLevel(w)
    PROVE  Kept(w)'
<1>1. query' = query /\ visited'[w] = visited[w] /\ at[w] = "scan"
      BY DEF TypeOK, EndLevel
<1>2. Complete(w) /\ Short(w)
      BY <1>1 DEF Kept, Complete
<1>3. Complete(w)'
      BY <1>2, CompleteEndLevel
<1>4. Short(w)'
      BY <1>1, <1>2 DEF Short
<1>5. QED BY <1>3, <1>4 DEF Complete, Kept

LEMMA KeptNext ==
    ASSUME TypeOK, LevelsLeft, AllSound, AllKept, [Next]_vars
    PROVE  AllKept'
<1>1. query' = query
      BY DEF Next, EndLevel, ScanNode, Merge, vars
<1>2. SUFFICES ASSUME query.plan = "limit" PROVE \A w \in Workers(query) : Kept(w)'
      BY <1>1 DEF AllKept
<1>3. ASSUME NEW w \in Workers(query),
             EndLevel(w) \/ \E n \in Nodes : ScanNode(w, n)
      PROVE  \A v \in Workers(query) : Kept(v)'
  <2>1. Kept(w)'
        BY <1>2, <1>3, KeptScan, KeptEndLevel DEF AllKept, AllSound
  <2>2. ASSUME NEW v \in Workers(query), v # w PROVE Kept(v)'
    <3>1. /\ at'[v] = at[v] /\ hop'[v] = hop[v]
          /\ visited'[v] = visited[v] /\ todo'[v] = todo[v]
          /\ next'[v] = next[v] /\ rows'[v] = rows[v]
          BY <1>3, <2>2 DEF TypeOK, EndLevel, ScanNode
    <3>2. QED BY <1>1, <1>2, <3>1, KeptElsewhere DEF AllKept
  <2>3. QED BY <2>1, <2>2
<1>4. ASSUME UNCHANGED <<at, hop, visited, todo, next, rows>>
      PROVE  \A w \in Workers(query) : Kept(w)'
      BY <1>1, <1>2, <1>4, KeptElsewhere DEF AllKept
<1>5. QED BY <1>3, <1>4 DEF Next, Merge, vars

\* A plan with a limit is one search, from the whole frontier.
LEMMA OneSearch ==
    ASSUME NEW q \in Queries, q.plan = "limit"
    PROVE  Workers(q) = {1} /\ Chunk(q, 1) = Frontier(q)
<1>1. q.frontier \in Seq(Nodes)
      BY QueriesAssumption DEF Query
<1>2. DOMAIN q.frontier = 1..Len(q.frontier) /\ Len(q.frontier) \in Nat
      BY <1>1
<1>3. \A a, b \in Nat : a < b => a \div b = 0
      OBVIOUS
<1>4. ASSUME NEW i \in DOMAIN q.frontier PROVE WorkerOf(q, i) = 1
  <2>1. ChunkSize(q) = Len(q.frontier)
        BY DEF ChunkSize
  <2>2. i - 1 \in Nat /\ i - 1 < Len(q.frontier)
        BY <1>2
  <2>3. (i - 1) \div Len(q.frontier) = 0
        BY <1>2, <1>3, <2>2
  <2>4. QED BY <2>1, <2>3 DEF WorkerOf
<1>5. QED BY <1>4 DEF Workers, Chunk, Frontier

\* What an expansion is when the filter cannot fail.
LEMMA WithoutFailures ==
    ASSUME NEW q \in Queries
    PROVE  Expanded([q EXCEPT !.fails = {}])
              = [status |-> "ok", nodes |-> Reach(q, Frontier(q), q.hops),
                 rows |-> RowsWithin(q, Frontier(q), q.hops)]
<1> DEFINE u == [q EXCEPT !.fails = {}]
<1>1. q \in Query
      BY QueriesAssumption
<1>2. /\ u.edges = q.edges /\ u.types = q.types /\ u.dir = q.dir /\ u.passes = q.passes
      /\ u.frontier = q.frontier /\ u.hops = q.hops /\ u.fails = {}
      BY <1>1 DEF Query
<1> HIDE DEF u
<1>3. \A n : Entries(u, n) = Entries(q, n)
      BY <1>2 DEF Entries, Fits
<1>4. \A m, n : Hop(u, m, n) <=> Hop(q, m, n)
      BY <1>2, <1>3 DEF Hop
<1>5. \A S, k : Reach(u, S, k) = Reach(q, S, k)
      BY <1>4 DEF Reach
<1>6. Frontier(u) = Frontier(q)
      BY <1>2 DEF Frontier
<1>7. RowsWithin(u, Frontier(u), u.hops) = RowsWithin(q, Frontier(q), q.hops)
      BY <1>2, <1>3, <1>5, <1>6 DEF RowsWithin, Scanned
<1>8. ~FailsWithin(u, Frontier(u), u.hops)
      BY <1>2 DEF FailsWithin
<1>9. Expanded(u) = [status |-> "ok", nodes |-> Reach(q, Frontier(q), q.hops),
                     rows |-> RowsWithin(q, Frontier(q), q.hops)]
      BY <1>2, <1>5, <1>6, <1>7, <1>8 DEF Expanded
<1>10. QED BY <1>9 DEF u

LEMMA MergeFindsEnough ==
    ASSUME TypeOK, AllSound, AllKept, Merge
    PROVE  LimitFindsEnough'
<1> SUFFICES ASSUME result'.status = "ok", query.plan = "limit"
             PROVE  LET full == Expanded([query EXCEPT !.fails = {}])
                    IN /\ Frontier(query) \subseteq result'.nodes
                       /\ result'.nodes \subseteq full.nodes /\ result'.rows \subseteq full.rows
                       /\ IF Len(query.frontier) < query.stop
                          THEN \/ result' = full
                               \/ Cardinality(result'.nodes) = query.stop
                          ELSE Cardinality(result'.nodes) <= Len(query.frontier) + 1
  <2>1. query' = query
        BY DEF Merge
  <2>2. QED BY <2>1 DEF LimitFindsEnough
<1> DEFINE S == Frontier(query)
           full == [status |-> "ok", nodes |-> Reach(query, S, query.hops),
                    rows |-> RowsWithin(query, S, query.hops)]
<1>1. query \in Queries /\ query.stop \in Nat /\ Len(query.frontier) \in Nat
      BY QueriesAssumption DEF TypeOK, Query
<1>2. Expanded([query EXCEPT !.fails = {}]) = full
      BY <1>1, WithoutFailures
<1>3. Workers(query) = {1} /\ Chunk(query, 1) = S
      BY <1>1, OneSearch
<1>4. result' = [status |-> "ok", nodes |-> visited[1], rows |-> rows[1]] /\ at[1] # "failed"
  <2>1. UNION {visited[w] : w \in Workers(query)} = visited[1]
        BY <1>3
  <2>2. UNION {rows[w] : w \in Workers(query)} = rows[1]
        BY <1>3
  <2>3. result' # Failure
        BY DEF Failure
  <2>4. QED BY <1>3, <2>1, <2>2, <2>3 DEF Merge
<1>5. at[1] = "done"
      BY <1>3, <1>4 DEF TypeOK, Merge
<1>6. Sound(1) /\ Kept(1)
      BY <1>3 DEF AllSound, AllKept
<1>7. S \subseteq visited[1] /\ visited[1] \subseteq full.nodes /\ rows[1] \subseteq full.rows
      BY <1>3, <1>6 DEF Sound
<1>8. CASE Finished(1) /\ Short(1)
  <2>1. result' = full
        BY <1>3, <1>4, <1>7, <1>8 DEF Finished
  <2>2. ASSUME query.stop <= Len(query.frontier)
        PROVE  Cardinality(visited[1]) <= Len(query.frontier) + 1
    <3>1. Cardinality(visited[1]) \in Nat
          BY <1>3, NodesFinite DEF TypeOK
    <3>2. Cardinality(visited[1]) <= Len(query.frontier) \/ Cardinality(visited[1]) < query.stop
          BY <1>1, <1>3, <1>8, ChunkSizes DEF Short
    <3>3. QED BY <1>1, <2>2, <3>1, <3>2
  <2> HIDE DEF full
  <2>3. IF Len(query.frontier) < query.stop
        THEN result' = full \/ Cardinality(visited[1]) = query.stop
        ELSE Cardinality(visited[1]) <= Len(query.frontier) + 1
        BY <1>1, <2>1, <2>2
  <2>4. QED BY <1>2, <1>4, <1>7, <2>3
<1>9. CASE Filled(1)
  <2> HIDE DEF full
  <2>1. QED BY <1>2, <1>4, <1>7, <1>9 DEF Filled
<1>10. QED BY <1>5, <1>6, <1>8, <1>9 DEF Kept

LEMMA EnoughNext ==
    ASSUME TypeOK, AllSound, AllKept, LimitFindsEnough, [Next]_vars
    PROVE  LimitFindsEnough'
<1>1. CASE Merge
      BY <1>1, MergeFindsEnough
<1>2. CASE result' = result /\ query' = query
      BY <1>2 DEF LimitFindsEnough
<1>3. QED BY <1>1, <1>2 DEF Next, EndLevel, ScanNode, vars

\* A limit loses no node that it has room for: whatever order a level's nodes are
\* scanned in, the search that stops early has exactly as many nodes as were asked
\* for, or, when the frontier already is as many, at most the one that an edge
\* had to be taken for; a search that the limit does not stop has the whole
\* expansion.
THEOREM LimitCorrect == Spec => []LimitFindsEnough
<1>1. Init => LimitFindsEnough
      BY DEF Init, NoResult, LimitFindsEnough
<1>2. TypeOK /\ LevelsLeft /\ AllSound /\ AllKept /\ [Next]_vars => AllKept'
      BY KeptNext
<1>3. TypeOK /\ AllSound /\ AllKept /\ LimitFindsEnough /\ [Next]_vars => LimitFindsEnough'
      BY EnoughNext
<1>4. QED BY <1>1, <1>2, <1>3, KeptInit, SoundInvariant, TypesInvariant, PTL DEF Spec
=============================================================================
