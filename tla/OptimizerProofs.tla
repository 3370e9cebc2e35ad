-------------------------- MODULE OptimizerProofs --------------------------
(***************************************************************************)
(* Proofs about Optimizer, for any graph, any operators that the builder   *)
(* may be called with, any set of passes and plans of any length.          *)
(***************************************************************************)
EXTENDS Optimizer, FiniteSetTheorems, SequenceTheorems, WellFoundedInduction, TLAPS

-----------------------------------------------------------------------------
(* Natural numbers. *)

\* A set of natural numbers that is not empty has a least element.
LEMMA LeastNat ==
    ASSUME NEW T \in SUBSET Nat, T # {}
    PROVE  \E m \in T : \A n \in T : m <= n
<1> DEFINE R == OpToRel(<, Nat)
<1>1. IsWellFoundedOn(R, Nat)
      BY NatLessThanWellFounded
<1>2. \A m, n \in T : n < m => <<n, m>> \in R
      BY DEF OpToRel
<1> HIDE DEF R
<1>3. PICK m \in T : \A n \in T : <<n, m>> \notin R
      BY <1>1, WFMin
<1>4. \A n \in T : ~(n < m)
      BY <1>2, <1>3
<1>5. QED BY <1>3, <1>4

\* Induction over the natural numbers, for a set.
LEMMA NatSetInduction ==
    ASSUME NEW S, 0 \in S, \A n \in Nat : n \in S => n + 1 \in S
    PROVE  Nat \subseteq S
<1>1. SUFFICES ASSUME Nat \ S # {} PROVE FALSE
      OBVIOUS
<1>2. PICK m \in Nat \ S : \A n \in Nat \ S : m <= n
      BY <1>1, LeastNat
<1>3. m # 0
      BY <1>2
<1>4. m - 1 \in Nat /\ m - 1 \notin Nat \ S
      BY <1>2, <1>3
<1>5. (m - 1) + 1 \in S
      BY <1>4
<1>6. QED BY <1>2, <1>5

\* Induction over lists, for a set of them.
LEMMA ListInduction ==
    ASSUME NEW U, NEW T, <<>> \in T,
           \A p \in Seq(U) : p \in T => \A o \in U : Append(p, o) \in T
    PROVE  Seq(U) \subseteq T
<1> DEFINE N == {n \in Nat : \A p \in Seq(U) : Len(p) = n => p \in T}
<1>1. 0 \in N
      BY EmptySeq
<1>2. ASSUME NEW n \in Nat, n \in N PROVE n + 1 \in N
  <2>1. SUFFICES ASSUME NEW p \in Seq(U), Len(p) = n + 1 PROVE p \in T
        OBVIOUS
  <2>2. p # <<>>
        BY <2>1, EmptySeq
  <2>3. PICK s \in Seq(U), o \in U : p = Append(s, o)
        BY <2>2, SequenceEmptyOrAppend
  <2>4. Len(p) = Len(s) + 1 /\ Len(s) \in Nat
        BY <2>3, AppendProperties, LenProperties
  <2>5. s \in T
        BY <1>2, <2>1, <2>4
  <2>6. QED BY <2>3, <2>5
<1>3. Nat \subseteq N
  <2> HIDE DEF N
  <2>1. QED BY <1>1, <1>2, NatSetInduction
<1>4. ASSUME NEW p \in Seq(U) PROVE p \in T
  <2>1. Len(p) \in N
        BY <1>3, LenProperties
  <2>2. QED BY <2>1
<1>5. QED BY <1>4

-----------------------------------------------------------------------------
(* What a query means: its plan executed without errors of predicates and   *)
(* of missing columns.  Beside the value (`v`) this keeps what the passes   *)
(* depend on.                                                               *)

Hints == [op : {"hint"}, kind : {"TopK", "LimitAware", "Parallel"}, n : Nat]
Ops   == Operators \cup Hints

FilterMeans(v, o) ==
    IF HasFrame(v, o.of) THEN [Frame(v, o.of) EXCEPT !.items = Kept(o.pred, @)] ELSE Error
ProjectMeans(v, o) ==
    IF HasFrame(v, o.of) THEN [Frame(v, o.of) EXCEPT !.cols = @ \cap o.cols] ELSE Error
MatchMeans(v, o) ==
    IF HasFrame(v, "nodes")
    THEN [NotYet EXCEPT !.domain = "pattern",
                        !.rows = {r \in Steps(ToSet(Frame(v, "nodes").items)) :
                                     \A c \in o.where : Bound(c, r) \in c.atom.holds}]
    ELSE Error
Meaning(v, o) ==
    IF ~Ok(v) THEN v
    ELSE CASE o.op = "filter"  -> FilterMeans(v, o)
           [] o.op = "project" -> ProjectMeans(v, o)
           [] o.op = "match"   -> MatchMeans(v, o)
           [] o.op = "hint"    -> IF o.kind = "TopK" THEN Cut(v, o) ELSE v
           [] OTHER            -> Run(v, o)

\* A node filter would meet an expansion here (`open`), has met one (`met`); the
\* last operator was a sort or a limit (`last`); so far all were careful.
OnNodes(o) == IsOn(o, "filter", "nodes") \/ IsOn(o, "project", "nodes")
CarefulOn(s, o) ==
    /\ \A a \in AtomsOf(o) : a.fails = {}
    /\ o.op \in {"filter", "project", "match"} /\ HasFrame(s.v, SideOf(o)) =>
          Named(o) \subseteq Frame(s.v, SideOf(o)).cols
    /\ o.op = "match" => Named(o) \subseteq Columns["nodes"]
    /\ o.op = "limit" /\ s.last # "other" => o.n > 0
    /\ o.op = "hint" /\ (o.kind = "TopK" \/ s.last # "other") => o.n > 0
Begin == [v |-> Source, open |-> FALSE, met |-> FALSE, last |-> "other", careful |-> TRUE]
Go(s, o) ==
    [v       |-> Meaning(s.v, o),
     open    |-> o.op = "expand" \/ (OnNodes(o) /\ s.open),
     met     |-> s.met \/ (IsOn(o, "filter", "nodes") /\ s.open),
     last    |-> IF o.op \in {"sort", "limit"} THEN o.op ELSE "other",
     careful |-> s.careful /\ CarefulOn(s, o)]

-----------------------------------------------------------------------------
(* Folds: of a predicate over items; of the executor, of the meaning and of *)
(* each pass over a plan.                                                   *)

Of(name)    == [fold |-> name, pred |-> {}]
Keeps(pred) == [fold |-> "kept", pred |-> pred]

First(kind) ==
    CASE kind.fold = "outcome" -> Source
      [] kind.fold = "meaning" -> Begin
      [] OTHER                 -> <<>>
Step(kind, s, o) ==
    CASE kind.fold = "kept"    -> IF Holds(kind.pred, o) THEN Append(s, o) ELSE s
      [] kind.fold = "outcome" -> Apply(s, o)
      [] kind.fold = "meaning" -> Go(s, o)
      [] kind.fold = "predicate_pushdown"  -> IF o.op = "filter" THEN Pushed(s, o) ELSE Append(s, o)
      [] kind.fold = "projection_pushdown" -> Collapsed(s, o)
      [] kind.fold = "traversal_pruning"   -> Pruned(s, o)
      [] kind.fold = "early_termination"   -> IF o.op = "limit" THEN Shortened(s, o) ELSE Append(s, o)
      [] kind.fold = "partition_parallel"  -> IF o.op \in {"expand", "match"}
                                              THEN s \o <<o, Hint("Parallel", 0)>> ELSE Append(s, o)
      [] kind.fold = "pattern_expansion"   -> IF o.op = "match" THEN Rooted(s, o) ELSE Append(s, o)

\* f is what there is after each of the first m of the list.
Upto(kind, p, m, f) == f = [i \in 0..m |-> IF i = 0 THEN First(kind) ELSE Step(kind, f[i - 1], p[i])]
Fold(kind, p)       == (CHOOSE f : Upto(kind, p, Len(p), f))[Len(p)]

\* A fold has a value after each of the first m of any list.
LEMMA UptoExists ==
    ASSUME NEW kind, NEW p
    PROVE  \A m \in Nat : \E f : Upto(kind, p, m, f)
<1> DEFINE T    == {m \in Nat : \E f : Upto(kind, p, m, f)}
           a    == First(kind)
           N(t, o) == Step(kind, t, o)
<1> HIDE DEF a, N
<1>0. \A m : \A f : Upto(kind, p, m, f) <=> f = [k \in 0..m |-> IF k = 0 THEN a ELSE N(f[k - 1], p[k])]
      BY DEF Upto, a, N
<1>1. 0 \in T
  <2> DEFINE f == [k \in 0..0 |-> a]
  <2>1. f = [k \in 0..0 |-> IF k = 0 THEN a ELSE N(f[k - 1], p[k])]
        OBVIOUS
  <2> HIDE DEF f
  <2>2. QED BY <1>0, <2>1
<1>2. ASSUME NEW m \in Nat, m \in T PROVE m + 1 \in T
  <2>1. PICK f : Upto(kind, p, m, f)
        BY <1>2
  <2>2. \A k \in 0..m : f[k] = IF k = 0 THEN a ELSE N(f[k - 1], p[k])
    <3>1. f = [k \in 0..m |-> IF k = 0 THEN a ELSE N(f[k - 1], p[k])]
          BY <1>0, <2>1
    <3>2. QED BY <3>1
  <2> DEFINE h == [k \in 0..(m + 1) |-> IF k <= m THEN f[k] ELSE N(f[m], p[k])]
  <2>3. \A k \in 0..(m + 1) : h[k] = IF k = 0 THEN a ELSE N(h[k - 1], p[k])
    <3> TAKE k \in 0..(m + 1)
    <3>1. CASE k <= m
          BY <3>1, <2>2
    <3>2. CASE k = m + 1
          BY <3>2
    <3>3. QED BY <3>1, <3>2
  <2>4. h = [k \in 0..(m + 1) |-> h[k]]
        OBVIOUS
  <2> HIDE DEF h
  <2>5. h = [k \in 0..(m + 1) |-> IF k = 0 THEN a ELSE N(h[k - 1], p[k])]
        BY <2>3, <2>4
  <2>6. Upto(kind, p, m + 1, h)
        BY <1>0, <2>5
  <2>7. QED BY <2>6
<1>3. Nat \subseteq T
  <2> HIDE DEF T
  <2>1. QED BY <1>1, <1>2, NatSetInduction
<1>4. QED BY <1>3

\* What there is after some of a list depends on these alone.
LEMMA UptoUnique ==
    ASSUME NEW kind, NEW p, NEW q, NEW m \in Nat, NEW n \in Nat, NEW f, NEW g,
           Upto(kind, p, m, f), Upto(kind, q, n, g), m <= n, \A i \in 1..m : p[i] = q[i]
    PROVE  \A i \in 0..m : f[i] = g[i]
<1> DEFINE a       == First(kind)
           N(t, o) == Step(kind, t, o)
           T       == {i \in Nat : i <= m => f[i] = g[i]}
<1>1. /\ f = [k \in 0..m |-> IF k = 0 THEN a ELSE N(f[k - 1], p[k])]
      /\ g = [k \in 0..n |-> IF k = 0 THEN a ELSE N(g[k - 1], q[k])]
      BY DEF Upto
<1> HIDE DEF a, N
<1>2. /\ \A k \in 0..m : f[k] = IF k = 0 THEN a ELSE N(f[k - 1], p[k])
      /\ \A k \in 0..n : g[k] = IF k = 0 THEN a ELSE N(g[k - 1], q[k])
      BY <1>1
<1>3. 0 \in T
      BY <1>2
<1>4. ASSUME NEW i \in Nat, i \in T PROVE i + 1 \in T
  <2>1. SUFFICES ASSUME i + 1 <= m PROVE f[i + 1] = g[i + 1]
        OBVIOUS
  <2>2. i + 1 \in 0..m /\ i + 1 \in 0..n /\ i + 1 \in 1..m /\ i <= m /\ i + 1 # 0 /\ (i + 1) - 1 = i
        BY <2>1
  <2>3. f[i + 1] = N(f[i], p[i + 1]) /\ g[i + 1] = N(g[i], q[i + 1])
        BY <1>2, <2>2
  <2>4. QED BY <1>4, <2>2, <2>3
<1>5. Nat \subseteq T
  <2> HIDE DEF T
  <2>1. QED BY <1>3, <1>4, NatSetInduction
<1>6. QED BY <1>5

\* A fold is what there is after the last of the list.
LEMMA FoldIs ==
    ASSUME NEW kind, NEW p, Len(p) \in Nat
    PROVE  /\ \E f : Upto(kind, p, Len(p), f)
           /\ \A f : Upto(kind, p, Len(p), f) => Fold(kind, p) = f[Len(p)]
<1>1. \E f : Upto(kind, p, Len(p), f)
      BY UptoExists
<1> DEFINE chosen == CHOOSE f : Upto(kind, p, Len(p), f)
<1>2. Upto(kind, p, Len(p), chosen)
      BY <1>1
<1>3. Fold(kind, p) = chosen[Len(p)]
      BY DEF Fold
<1> HIDE DEF chosen
<1>4. ASSUME NEW f, Upto(kind, p, Len(p), f) PROVE Fold(kind, p) = f[Len(p)]
  <2>1. \A i \in 0..Len(p) : chosen[i] = f[i]
    <3> DEFINE m == Len(p)
    <3>1. m \in Nat /\ m <= m /\ Upto(kind, p, m, chosen) /\ Upto(kind, p, m, f) /\ \A i \in 1..m : p[i] = p[i]
          BY <1>2, <1>4
    <3> HIDE DEF m
    <3>2. \A i \in 0..m : chosen[i] = f[i]
          BY <3>1, UptoUnique
    <3>3. QED BY <3>2 DEF m
  <2>2. QED BY <1>3, <2>1
<1>5. QED BY <1>1, <1>4

\* One more of the list is one more step.
LEMMA FoldAppend ==
    ASSUME NEW kind, NEW U, NEW p \in Seq(U), NEW o \in U
    PROVE  Fold(kind, Append(p, o)) = Step(kind, Fold(kind, p), o)
<1> DEFINE q == Append(p, o)
           m == Len(p)
<1>1. /\ q \in Seq(U) /\ Len(q) = m + 1 /\ q[m + 1] = o /\ m \in Nat
      /\ \A i \in 1..m : p[i] = q[i]
      BY AppendProperties, LenProperties
<1> HIDE DEF q
<1>2. PICK f : Upto(kind, p, m, f) /\ Fold(kind, p) = f[m]
      BY <1>1, FoldIs
<1> HIDE DEF m
<1>3. Len(q) \in Nat
      BY <1>1
<1>4. PICK g : Upto(kind, q, m + 1, g) /\ Fold(kind, q) = g[m + 1]
      BY <1>1, <1>3, FoldIs
<1>5. f[m] = g[m]
  <2>1. m + 1 \in Nat /\ m <= m + 1
        BY <1>1
  <2> DEFINE n == m + 1
  <2>2. n \in Nat /\ m <= n /\ Upto(kind, q, n, g)
        BY <1>4, <2>1
  <2> HIDE DEF n
  <2>3. \A i \in 0..m : f[i] = g[i]
        BY <1>1, <1>2, <2>2, UptoUnique
  <2>4. QED BY <1>1, <2>3
<1>6. g[m + 1] = Step(kind, g[m], q[m + 1])
  <2> DEFINE a       == First(kind)
             N(t, x) == Step(kind, t, x)
  <2>1. g = [k \in 0..(m + 1) |-> IF k = 0 THEN a ELSE N(g[k - 1], q[k])]
        BY <1>4 DEF Upto
  <2> HIDE DEF a, N
  <2>2. m + 1 \in 0..(m + 1) /\ m + 1 # 0 /\ (m + 1) - 1 = m
        BY <1>1
  <2>3. g[m + 1] = N(g[m], q[m + 1])
        BY <2>1, <2>2
  <2>4. QED BY <2>3 DEF N
<1>7. QED BY <1>1, <1>2, <1>4, <1>5, <1>6 DEF q

\* A fold of nothing is what it begins with.
LEMMA FoldEmpty ==
    ASSUME NEW kind
    PROVE  Fold(kind, <<>>) = First(kind)
<1> DEFINE e == <<>>
<1>1. Len(e) = 0
      BY EmptySeq
<1> HIDE DEF e
<1>2. PICK f : Upto(kind, e, 0, f) /\ Fold(kind, e) = f[0]
      BY <1>1, FoldIs
<1> DEFINE a       == First(kind)
           N(t, x) == Step(kind, t, x)
<1>3. f = [k \in 0..0 |-> IF k = 0 THEN a ELSE N(f[k - 1], e[k])]
      BY <1>2 DEF Upto
<1> HIDE DEF a, N
<1>4. f[0] = a
      BY <1>3
<1>5. QED BY <1>2, <1>4 DEF e, a

\* What each fold begins with and does.
LEMMA StepIs ==
    /\ \A pred : First(Keeps(pred)) = <<>>
                 /\ \A s, o : Step(Keeps(pred), s, o) = IF Holds(pred, o) THEN Append(s, o) ELSE s
    /\ First(Of("outcome")) = Source /\ \A s, o : Step(Of("outcome"), s, o) = Apply(s, o)
    /\ First(Of("meaning")) = Begin /\ \A s, o : Step(Of("meaning"), s, o) = Go(s, o)
    /\ \A pass \in Passes : First(Of(pass)) = <<>>
    /\ \A s, o : /\ Step(Of("predicate_pushdown"), s, o) = IF o.op = "filter" THEN Pushed(s, o) ELSE Append(s, o)
                 /\ Step(Of("projection_pushdown"), s, o) = Collapsed(s, o)
                 /\ Step(Of("traversal_pruning"), s, o) = Pruned(s, o)
                 /\ Step(Of("early_termination"), s, o) = IF o.op = "limit" THEN Shortened(s, o) ELSE Append(s, o)
                 /\ Step(Of("partition_parallel"), s, o) = IF o.op \in {"expand", "match"}
                                                           THEN s \o <<o, Hint("Parallel", 0)>> ELSE Append(s, o)
                 /\ Step(Of("pattern_expansion"), s, o) = IF o.op = "match" THEN Rooted(s, o) ELSE Append(s, o)
<1>1. \A name : Of(name).fold = name
      BY DEF Of
<1>2. \A pred : Keeps(pred).fold = "kept" /\ Keeps(pred).pred = pred
      BY DEF Keeps
<1>3. \A pass \in Passes : First(Of(pass)) = <<>>
      BY <1>1 DEF First, Passes
<1>4. \A pred : First(Keeps(pred)) = <<>>
                 /\ \A s, o : Step(Keeps(pred), s, o) = IF Holds(pred, o) THEN Append(s, o) ELSE s
      BY <1>2 DEF First, Step
<1>5. First(Of("outcome")) = Source /\ First(Of("meaning")) = Begin
      BY <1>1 DEF First
<1>6. \A s, o : Step(Of("outcome"), s, o) = Apply(s, o)
      BY <1>1 DEF Step
<1>7. \A s, o : Step(Of("meaning"), s, o) = Go(s, o)
      BY <1>1 DEF Step
<1>8. \A s, o : /\ Step(Of("predicate_pushdown"), s, o) = IF o.op = "filter" THEN Pushed(s, o) ELSE Append(s, o)
                /\ Step(Of("projection_pushdown"), s, o) = Collapsed(s, o)
                /\ Step(Of("traversal_pruning"), s, o) = Pruned(s, o)
      BY <1>1 DEF Step
<1>9. \A s, o : /\ Step(Of("early_termination"), s, o) = IF o.op = "limit" THEN Shortened(s, o) ELSE Append(s, o)
                /\ Step(Of("partition_parallel"), s, o) = IF o.op \in {"expand", "match"}
                                                           THEN s \o <<o, Hint("Parallel", 0)>> ELSE Append(s, o)
                /\ Step(Of("pattern_expansion"), s, o) = IF o.op = "match" THEN Rooted(s, o) ELSE Append(s, o)
      BY <1>1 DEF Step
<1>10. QED BY <1>3, <1>4, <1>5, <1>6, <1>7, <1>8, <1>9

\* The executor folds the plan.
LEMMA OutcomeIsFold ==
    ASSUME NEW p, Len(p) \in Nat
    PROVE  Outcome(p) = Fold(Of("outcome"), p)
<1> DEFINE a       == Source
           N(t, o) == Apply(t, o)
           W       == CHOOSE f : f = [i \in 0..Len(p) |-> IF i = 0 THEN a ELSE N(f[i - 1], p[i])]
<1>1. Outcome(p) = W[Len(p)]
      BY DEF Outcome
<1>2. First(Of("outcome")) = a /\ \A s, o : Step(Of("outcome"), s, o) = N(s, o)
      BY StepIs DEF Passes
<1> HIDE DEF a, N
<1>3. ASSUME NEW f PROVE Upto(Of("outcome"), p, Len(p), f)
                         <=> f = [i \in 0..Len(p) |-> IF i = 0 THEN a ELSE N(f[i - 1], p[i])]
  <2>1. [i \in 0..Len(p) |-> IF i = 0 THEN First(Of("outcome")) ELSE Step(Of("outcome"), f[i - 1], p[i])]
        = [i \in 0..Len(p) |-> IF i = 0 THEN a ELSE N(f[i - 1], p[i])]
        BY <1>2
  <2>2. QED BY <2>1 DEF Upto
<1>4. Upto(Of("outcome"), p, Len(p), W)
      BY <1>3, UptoExists
<1> HIDE DEF W
<1>5. QED BY <1>1, <1>4, FoldIs

\* A filter folds the items.
LEMMA KeptIsFold ==
    ASSUME NEW pred, NEW s, Len(s) \in Nat
    PROVE  Kept(pred, s) = Fold(Keeps(pred), s)
<1> DEFINE a       == <<>>
           N(t, o) == IF Holds(pred, o) THEN Append(t, o) ELSE t
           W       == CHOOSE f : f = [i \in 0..Len(s) |-> IF i = 0 THEN a ELSE N(f[i - 1], s[i])]
<1>1. Kept(pred, s) = W[Len(s)]
      BY DEF Kept
<1>2. First(Keeps(pred)) = a /\ \A t, o : Step(Keeps(pred), t, o) = N(t, o)
      BY StepIs DEF Passes
<1> HIDE DEF a, N
<1>3. ASSUME NEW f PROVE Upto(Keeps(pred), s, Len(s), f)
                         <=> f = [i \in 0..Len(s) |-> IF i = 0 THEN a ELSE N(f[i - 1], s[i])]
  <2>1. [i \in 0..Len(s) |-> IF i = 0 THEN First(Keeps(pred)) ELSE Step(Keeps(pred), f[i - 1], s[i])]
        = [i \in 0..Len(s) |-> IF i = 0 THEN a ELSE N(f[i - 1], s[i])]
        BY <1>2
  <2>2. QED BY <2>1 DEF Upto
<1>4. Upto(Keeps(pred), s, Len(s), W)
      BY <1>3, UptoExists
<1> HIDE DEF W
<1>5. QED BY <1>1, <1>4, FoldIs

\* The pass predicate_pushdown folds the plan.
LEMMA PredicatePushdownIsFold ==
    ASSUME NEW p, Len(p) \in Nat
    PROVE  PredicatePushdown(p) = Fold(Of("predicate_pushdown"), p)
<1> DEFINE a       == <<>>
           N(t, o) == IF o.op = "filter" THEN Pushed(t, o) ELSE Append(t, o)
           W       == CHOOSE f : f = [i \in 0..Len(p) |-> IF i = 0 THEN a ELSE N(f[i - 1], p[i])]
<1>1. PredicatePushdown(p) = W[Len(p)]
      BY DEF PredicatePushdown, Rewritten
<1>2. First(Of("predicate_pushdown")) = a /\ \A s, o : Step(Of("predicate_pushdown"), s, o) = N(s, o)
      BY StepIs DEF Passes
<1> HIDE DEF a, N
<1>3. ASSUME NEW f PROVE Upto(Of("predicate_pushdown"), p, Len(p), f)
                         <=> f = [i \in 0..Len(p) |-> IF i = 0 THEN a ELSE N(f[i - 1], p[i])]
  <2>1. [i \in 0..Len(p) |-> IF i = 0 THEN First(Of("predicate_pushdown")) ELSE Step(Of("predicate_pushdown"), f[i - 1], p[i])]
        = [i \in 0..Len(p) |-> IF i = 0 THEN a ELSE N(f[i - 1], p[i])]
        BY <1>2
  <2>2. QED BY <2>1 DEF Upto
<1>4. Upto(Of("predicate_pushdown"), p, Len(p), W)
      BY <1>3, UptoExists
<1> HIDE DEF W
<1>5. QED BY <1>1, <1>4, FoldIs

\* The pass projection_pushdown folds the plan.
LEMMA ProjectionPushdownIsFold ==
    ASSUME NEW p, Len(p) \in Nat
    PROVE  ProjectionPushdown(p) = Fold(Of("projection_pushdown"), p)
<1> DEFINE a       == <<>>
           N(t, o) == Collapsed(t, o)
           W       == CHOOSE f : f = [i \in 0..Len(p) |-> IF i = 0 THEN a ELSE N(f[i - 1], p[i])]
<1>1. ProjectionPushdown(p) = W[Len(p)]
      BY DEF ProjectionPushdown, Rewritten
<1>2. First(Of("projection_pushdown")) = a /\ \A s, o : Step(Of("projection_pushdown"), s, o) = N(s, o)
      BY StepIs DEF Passes
<1> HIDE DEF a, N
<1>3. ASSUME NEW f PROVE Upto(Of("projection_pushdown"), p, Len(p), f)
                         <=> f = [i \in 0..Len(p) |-> IF i = 0 THEN a ELSE N(f[i - 1], p[i])]
  <2>1. [i \in 0..Len(p) |-> IF i = 0 THEN First(Of("projection_pushdown")) ELSE Step(Of("projection_pushdown"), f[i - 1], p[i])]
        = [i \in 0..Len(p) |-> IF i = 0 THEN a ELSE N(f[i - 1], p[i])]
        BY <1>2
  <2>2. QED BY <2>1 DEF Upto
<1>4. Upto(Of("projection_pushdown"), p, Len(p), W)
      BY <1>3, UptoExists
<1> HIDE DEF W
<1>5. QED BY <1>1, <1>4, FoldIs

\* The pass traversal_pruning folds the plan.
LEMMA TraversalPruningIsFold ==
    ASSUME NEW p, Len(p) \in Nat
    PROVE  TraversalPruning(p) = Fold(Of("traversal_pruning"), p)
<1> DEFINE a       == <<>>
           N(t, o) == Pruned(t, o)
           W       == CHOOSE f : f = [i \in 0..Len(p) |-> IF i = 0 THEN a ELSE N(f[i - 1], p[i])]
<1>1. TraversalPruning(p) = W[Len(p)]
      BY DEF TraversalPruning, Rewritten
<1>2. First(Of("traversal_pruning")) = a /\ \A s, o : Step(Of("traversal_pruning"), s, o) = N(s, o)
      BY StepIs DEF Passes
<1> HIDE DEF a, N
<1>3. ASSUME NEW f PROVE Upto(Of("traversal_pruning"), p, Len(p), f)
                         <=> f = [i \in 0..Len(p) |-> IF i = 0 THEN a ELSE N(f[i - 1], p[i])]
  <2>1. [i \in 0..Len(p) |-> IF i = 0 THEN First(Of("traversal_pruning")) ELSE Step(Of("traversal_pruning"), f[i - 1], p[i])]
        = [i \in 0..Len(p) |-> IF i = 0 THEN a ELSE N(f[i - 1], p[i])]
        BY <1>2
  <2>2. QED BY <2>1 DEF Upto
<1>4. Upto(Of("traversal_pruning"), p, Len(p), W)
      BY <1>3, UptoExists
<1> HIDE DEF W
<1>5. QED BY <1>1, <1>4, FoldIs

\* The pass early_termination folds the plan.
LEMMA EarlyTerminationIsFold ==
    ASSUME NEW p, Len(p) \in Nat
    PROVE  EarlyTermination(p) = Fold(Of("early_termination"), p)
<1> DEFINE a       == <<>>
           N(t, o) == IF o.op = "limit" THEN Shortened(t, o) ELSE Append(t, o)
           W       == CHOOSE f : f = [i \in 0..Len(p) |-> IF i = 0 THEN a ELSE N(f[i - 1], p[i])]
<1>1. EarlyTermination(p) = W[Len(p)]
      BY DEF EarlyTermination, Rewritten
<1>2. First(Of("early_termination")) = a /\ \A s, o : Step(Of("early_termination"), s, o) = N(s, o)
      BY StepIs DEF Passes
<1> HIDE DEF a, N
<1>3. ASSUME NEW f PROVE Upto(Of("early_termination"), p, Len(p), f)
                         <=> f = [i \in 0..Len(p) |-> IF i = 0 THEN a ELSE N(f[i - 1], p[i])]
  <2>1. [i \in 0..Len(p) |-> IF i = 0 THEN First(Of("early_termination")) ELSE Step(Of("early_termination"), f[i - 1], p[i])]
        = [i \in 0..Len(p) |-> IF i = 0 THEN a ELSE N(f[i - 1], p[i])]
        BY <1>2
  <2>2. QED BY <2>1 DEF Upto
<1>4. Upto(Of("early_termination"), p, Len(p), W)
      BY <1>3, UptoExists
<1> HIDE DEF W
<1>5. QED BY <1>1, <1>4, FoldIs

\* The pass partition_parallel folds the plan.
LEMMA PartitionParallelIsFold ==
    ASSUME NEW p, Len(p) \in Nat
    PROVE  PartitionParallel(p) = Fold(Of("partition_parallel"), p)
<1> DEFINE a       == <<>>
           N(t, o) == IF o.op \in {"expand", "match"}
                      THEN t \o <<o, Hint("Parallel", 0)>> ELSE Append(t, o)
           W       == CHOOSE f : f = [i \in 0..Len(p) |-> IF i = 0 THEN a ELSE N(f[i - 1], p[i])]
<1>1. PartitionParallel(p) = W[Len(p)]
      BY DEF PartitionParallel, Rewritten
<1>2. First(Of("partition_parallel")) = a /\ \A s, o : Step(Of("partition_parallel"), s, o) = N(s, o)
      BY StepIs DEF Passes
<1> HIDE DEF a, N
<1>3. ASSUME NEW f PROVE Upto(Of("partition_parallel"), p, Len(p), f)
                         <=> f = [i \in 0..Len(p) |-> IF i = 0 THEN a ELSE N(f[i - 1], p[i])]
  <2>1. [i \in 0..Len(p) |-> IF i = 0 THEN First(Of("partition_parallel")) ELSE Step(Of("partition_parallel"), f[i - 1], p[i])]
        = [i \in 0..Len(p) |-> IF i = 0 THEN a ELSE N(f[i - 1], p[i])]
        BY <1>2
  <2>2. QED BY <2>1 DEF Upto
<1>4. Upto(Of("partition_parallel"), p, Len(p), W)
      BY <1>3, UptoExists
<1> HIDE DEF W
<1>5. QED BY <1>1, <1>4, FoldIs

\* The pass pattern_expansion folds the plan.
LEMMA PatternExpansionIsFold ==
    ASSUME NEW p, Len(p) \in Nat
    PROVE  PatternExpansion(p) = Fold(Of("pattern_expansion"), p)
<1> DEFINE a       == <<>>
           N(t, o) == IF o.op = "match" THEN Rooted(t, o) ELSE Append(t, o)
           W       == CHOOSE f : f = [i \in 0..Len(p) |-> IF i = 0 THEN a ELSE N(f[i - 1], p[i])]
<1>1. PatternExpansion(p) = W[Len(p)]
      BY DEF PatternExpansion, Rewritten
<1>2. First(Of("pattern_expansion")) = a /\ \A s, o : Step(Of("pattern_expansion"), s, o) = N(s, o)
      BY StepIs DEF Passes
<1> HIDE DEF a, N
<1>3. ASSUME NEW f PROVE Upto(Of("pattern_expansion"), p, Len(p), f)
                         <=> f = [i \in 0..Len(p) |-> IF i = 0 THEN a ELSE N(f[i - 1], p[i])]
  <2>1. [i \in 0..Len(p) |-> IF i = 0 THEN First(Of("pattern_expansion")) ELSE Step(Of("pattern_expansion"), f[i - 1], p[i])]
        = [i \in 0..Len(p) |-> IF i = 0 THEN a ELSE N(f[i - 1], p[i])]
        BY <1>2
  <2>2. QED BY <2>1 DEF Upto
<1>4. Upto(Of("pattern_expansion"), p, Len(p), W)
      BY <1>3, UptoExists
<1> HIDE DEF W
<1>5. QED BY <1>1, <1>4, FoldIs

-----------------------------------------------------------------------------
(* Lists of items. *)

\* What a list with one more contains.
LEMMA ToSetAppend ==
    ASSUME NEW U, NEW s \in Seq(U), NEW x \in U
    PROVE  ToSet(Append(s, x)) = ToSet(s) \cup {x}
<1> DEFINE t == Append(s, x)
<1>1. /\ DOMAIN s = 1..Len(s) /\ DOMAIN t = 1..(Len(s) + 1) /\ Len(s) \in Nat
      /\ \A i \in 1..Len(s) : t[i] = s[i]
      /\ t[Len(s) + 1] = x
      BY AppendProperties, LenProperties
<1> HIDE DEF t
<1>2. ASSUME NEW y \in ToSet(t) PROVE y \in ToSet(s) \cup {x}
  <2>1. PICK i \in DOMAIN t : y = t[i]
        BY DEF ToSet
  <2>2. i \in 1..Len(s) \/ i = Len(s) + 1
        BY <1>1, <2>1
  <2>3. QED BY <1>1, <2>1, <2>2 DEF ToSet
<1>3. ASSUME NEW y \in ToSet(s) \cup {x} PROVE y \in ToSet(t)
  <2>1. CASE y = x
    <3>1. Len(s) + 1 \in DOMAIN t
          BY <1>1
    <3>2. QED BY <1>1, <2>1, <3>1 DEF ToSet
  <2>2. CASE y \in ToSet(s)
    <3>1. PICK i \in DOMAIN s : y = s[i]
          BY <2>2 DEF ToSet
    <3>2. i \in DOMAIN t /\ t[i] = y
          BY <1>1, <3>1
    <3>3. QED BY <3>2 DEF ToSet
  <2>3. QED BY <1>3, <2>1, <2>2
<1>4. QED BY <1>2, <1>3 DEF t

\* A list contains what it is a list of.
LEMMA ToSetIn ==
    ASSUME NEW U, NEW s \in Seq(U)
    PROVE  ToSet(s) \subseteq U
<1>1. \A i \in DOMAIN s : s[i] \in U
      BY LenProperties, ElementOfSeq
<1>2. QED BY <1>1 DEF ToSet

\* What a filter does with one more item.
LEMMA KeptAppend ==
    ASSUME NEW pred, NEW U, NEW s \in Seq(U), NEW x \in U
    PROVE  Kept(pred, Append(s, x)) =
               IF Holds(pred, x) THEN Append(Kept(pred, s), x) ELSE Kept(pred, s)
<1>1. Append(s, x) \in Seq(U)
      BY AppendProperties
<1>2. Len(s) \in Nat /\ Len(Append(s, x)) \in Nat
      BY <1>1, LenProperties
<1>3. Kept(pred, s) = Fold(Keeps(pred), s) /\ Kept(pred, Append(s, x)) = Fold(Keeps(pred), Append(s, x))
      BY <1>2, KeptIsFold
<1>4. Fold(Keeps(pred), Append(s, x)) = Step(Keeps(pred), Fold(Keeps(pred), s), x)
      BY FoldAppend
<1>5. QED BY <1>3, <1>4, StepIs

\* A predicate keeps nothing of nothing.
LEMMA KeptEmpty ==
    ASSUME NEW pred
    PROVE  Kept(pred, <<>>) = <<>>
<1>1. Len(<<>>) \in Nat
      BY EmptySeq
<1>2. Kept(pred, <<>>) = Fold(Keeps(pred), <<>>)
      BY <1>1, KeptIsFold
<1>3. QED BY <1>2, FoldEmpty, StepIs

\* A filter keeps the items for which it holds.
LEMMA KeptLists ==
    ASSUME NEW pred, NEW U, NEW s \in Seq(U)
    PROVE  Kept(pred, s) \in Seq(U) /\ ToSet(Kept(pred, s)) = {x \in ToSet(s) : Holds(pred, x)}
<1> DEFINE T == {t \in Seq(U) : Kept(pred, t) \in Seq(U)
                                /\ ToSet(Kept(pred, t)) = {x \in ToSet(t) : Holds(pred, x)}}
<1>1. <<>> \in T
  <2>1. <<>> \in Seq(U) /\ ToSet(<<>>) = {}
        BY EmptySeq DEF ToSet
  <2>2. QED BY <2>1, KeptEmpty
<1>2. ASSUME NEW t \in Seq(U), t \in T, NEW x \in U PROVE Append(t, x) \in T
  <2>1. Append(t, x) \in Seq(U) /\ ToSet(Append(t, x)) = ToSet(t) \cup {x}
        BY AppendProperties, ToSetAppend
  <2>2. Kept(pred, Append(t, x)) = IF Holds(pred, x) THEN Append(Kept(pred, t), x) ELSE Kept(pred, t)
        BY KeptAppend
  <2> DEFINE k == Kept(pred, t)
  <2>3. k \in Seq(U) /\ ToSet(k) = {y \in ToSet(t) : Holds(pred, y)}
        BY <1>2
  <2> HIDE DEF k
  <2>4. Append(k, x) \in Seq(U) /\ ToSet(Append(k, x)) = ToSet(k) \cup {x}
        BY <2>3, AppendProperties, ToSetAppend
  <2>5. CASE Holds(pred, x)
    <3>1. Kept(pred, Append(t, x)) = Append(k, x)
          BY <2>2, <2>5 DEF k
    <3>2. {y \in ToSet(t) \cup {x} : Holds(pred, y)} = {y \in ToSet(t) : Holds(pred, y)} \cup {x}
          BY <2>5
    <3>3. QED BY <2>1, <2>3, <2>4, <3>1, <3>2
  <2>6. CASE ~Holds(pred, x)
    <3>1. Kept(pred, Append(t, x)) = k
          BY <2>2, <2>6 DEF k
    <3>2. {y \in ToSet(t) \cup {x} : Holds(pred, y)} = {y \in ToSet(t) : Holds(pred, y)}
          BY <2>6
    <3>3. QED BY <2>1, <2>3, <3>1, <3>2
  <2>7. QED BY <2>5, <2>6
<1>3. Seq(U) \subseteq T
  <2> HIDE DEF T
  <2>1. QED BY <1>1, <1>2, ListInduction
<1>4. QED BY <1>3

\* Two filters are one filter with the atoms of both.
LEMMA KeptTwice ==
    ASSUME NEW p, NEW q, NEW U, NEW s \in Seq(U)
    PROVE  Kept(q, Kept(p, s)) = Kept(p \cup q, s)
<1> DEFINE T == {t \in Seq(U) : Kept(q, Kept(p, t)) = Kept(p \cup q, t)}
<1>0. \A x : Holds(p \cup q, x) <=> Holds(p, x) /\ Holds(q, x)
      BY DEF Holds
<1>1. <<>> \in T
  <2>1. <<>> \in Seq(U)
        BY EmptySeq
  <2>2. QED BY <2>1, KeptEmpty
<1>2. ASSUME NEW t \in Seq(U), t \in T, NEW x \in U PROVE Append(t, x) \in T
  <2>1. Append(t, x) \in Seq(U)
        BY AppendProperties
  <2> DEFINE k == Kept(p, t)
  <2>2. /\ Kept(p, Append(t, x)) = IF Holds(p, x) THEN Append(k, x) ELSE k
        /\ Kept(p \cup q, Append(t, x)) =
             IF Holds(p \cup q, x) THEN Append(Kept(p \cup q, t), x) ELSE Kept(p \cup q, t)
        BY KeptAppend
  <2>3. k \in Seq(U) /\ Kept(q, k) = Kept(p \cup q, t)
        BY <1>2, KeptLists
  <2> HIDE DEF k
  <2>4. Kept(q, Append(k, x)) = IF Holds(q, x) THEN Append(Kept(q, k), x) ELSE Kept(q, k)
        BY <2>3, KeptAppend
  <2>5. Kept(q, Kept(p, Append(t, x))) = Kept(p \cup q, Append(t, x))
    <3>1. CASE Holds(p, x)
          BY <3>1, <1>0, <2>2, <2>3, <2>4
    <3>2. CASE ~Holds(p, x)
          BY <3>2, <1>0, <2>2, <2>3
    <3>3. QED BY <3>1, <3>2
  <2>6. QED BY <2>1, <2>5
<1>3. Seq(U) \subseteq T
  <2> HIDE DEF T
  <2>1. QED BY <1>1, <1>2, ListInduction
<1>4. QED BY <1>3

\* A strict order of a finite set reaches every rank.
Orders(S, A) ==
    /\ \A x \in S : A[x] \in SUBSET S /\ x \notin A[x]
    /\ \A x, y \in S : x # y => x \in A[y] \/ y \in A[x]
    /\ \A x, y, z \in S : x \in A[y] /\ y \in A[z] => x \in A[z]

\* In an order of a finite set every place is taken: for each number below its size
\* there is an element with that many before it.
LEMMA RanksAreReached ==
    ASSUME NEW S, IsFiniteSet(S), NEW A, Orders(S, A)
    PROVE  /\ Cardinality(S) \in Nat
           /\ \A k \in 1..Cardinality(S) : \E x \in S : Cardinality(A[x]) = k - 1
<1> DEFINE I == 1..Cardinality(S)
           f == [x \in S |-> Cardinality(A[x]) + 1]
<1>1. Cardinality(S) \in Nat
      BY FS_CardinalityType
<1>2. ASSUME NEW x \in S PROVE Cardinality(A[x]) \in Nat /\ Cardinality(A[x]) < Cardinality(S)
  <2> DEFINE T == A[x]
  <2>1. T \in SUBSET S /\ x \notin T
        BY DEF Orders
  <2> HIDE DEF T
  <2>2. IsFiniteSet(T) /\ Cardinality(T) <= Cardinality(S) /\ Cardinality(S) # Cardinality(T)
        BY <2>1, FS_Subset
  <2>3. Cardinality(T) \in Nat
        BY <2>2, FS_CardinalityType
  <2>4. QED BY <1>1, <2>2, <2>3 DEF T
<1>3. ASSUME NEW x \in S, NEW y \in S, x \in A[y] PROVE Cardinality(A[x]) < Cardinality(A[y])
  <2> DEFINE T == A[x]
             R == A[y]
  <2>1. T \in SUBSET R /\ x \in R /\ x \notin T /\ R \in SUBSET S
        BY <1>3 DEF Orders
  <2> HIDE DEF T, R
  <2>2. IsFiniteSet(R)
        BY <2>1, FS_Subset
  <2>3. Cardinality(T) <= Cardinality(R) /\ Cardinality(R) # Cardinality(T)
        BY <2>1, <2>2, FS_Subset
  <2>4. Cardinality(T) \in Nat /\ Cardinality(R) \in Nat
        BY <1>2 DEF T, R
  <2>5. QED BY <2>3, <2>4 DEF T, R
<1>4. \A x \in S : f[x] \in I /\ f[x] = Cardinality(A[x]) + 1
      BY <1>1, <1>2
<1>5. f \in [S -> I]
  <2>1. f = [x \in S |-> f[x]]
        OBVIOUS
  <2> HIDE DEF f, I
  <2>2. QED BY <1>4, <2>1
<1> HIDE DEF f
<1>6. \A x, y \in S : f[x] = f[y] => x = y
  <2>1. ASSUME NEW x \in S, NEW y \in S, x # y PROVE f[x] # f[y]
    <3>1. x \in A[y] \/ y \in A[x]
          BY <2>1 DEF Orders
    <3>2. Cardinality(A[x]) < Cardinality(A[y]) \/ Cardinality(A[y]) < Cardinality(A[x])
          BY <1>3, <3>1
    <3>3. QED BY <1>2, <1>4, <3>2
  <2>2. QED BY <2>1
<1>7. f \in Injection(S, I)
      BY <1>5, <1>6 DEF Injection, IsInjective
<1>8. IsFiniteSet(I) /\ Cardinality(I) = Cardinality(S)
  <2>1. ASSUME NEW k \in Nat PROVE IsFiniteSet(1..k) /\ Cardinality(1..k) = k
        BY FS_Interval
  <2>2. QED BY <1>1, <2>1
<1> HIDE DEF I
<1>9. f \in Surjection(S, I)
      BY <1>7, <1>8, FS_Injection
<1>10. \A k \in I : \E x \in S : f[x] = k
       BY <1>9 DEF Surjection
<1>11. ASSUME NEW k \in I PROVE \E x \in S : Cardinality(A[x]) = k - 1
  <2>1. PICK x \in S : f[x] = k
        BY <1>10
  <2>2. QED BY <1>2, <1>4, <2>1
<1>12. QED BY <1>1, <1>11 DEF I

\* The items of a set in their order are a list of them.
LEMMA InOrderLists ==
    ASSUME NEW S \in SUBSET Nat, IsFiniteSet(S)
    PROVE  InOrder(S) \in Seq(S)
<1> DEFINE A == [n \in S |-> {m \in S : m < n}]
<1>1. Orders(S, A)
  <2>1. \A x, y, z \in S : x \in Nat /\ y \in Nat /\ z \in Nat
        OBVIOUS
  <2>2. \A x, y \in S : x \in A[y] <=> x < y
        OBVIOUS
  <2>3. \A x \in S : A[x] \in SUBSET S
        OBVIOUS
  <2> HIDE DEF A
  <2>4. QED BY <2>1, <2>2, <2>3 DEF Orders
<1>2. \A n \in S : A[n] = {m \in S : m < n}
      OBVIOUS
<1> HIDE DEF A
<1>3. /\ Cardinality(S) \in Nat
      /\ \A k \in 1..Cardinality(S) : \E n \in S : Cardinality(A[n]) = k - 1
      BY <1>1, RanksAreReached
<1>4. \A i \in 1..Cardinality(S) : (CHOOSE n \in S : Cardinality({m \in S : m < n}) = i - 1) \in S
  <2> TAKE i \in 1..Cardinality(S)
  <2>1. \E n \in S : Cardinality({m \in S : m < n}) = i - 1
        BY <1>2, <1>3
  <2>2. QED BY <2>1
<1> DEFINE c(i) == CHOOSE n \in S : Cardinality({m \in S : m < n}) = i - 1
<1>5. InOrder(S) = [i \in 1..Cardinality(S) |-> c(i)]
      BY DEF InOrder
<1>6. \A i \in 1..Cardinality(S) : c(i) \in S
      BY <1>4
<1> HIDE DEF c
<1>7. QED BY <1>3, <1>5, <1>6

-----------------------------------------------------------------------------
(* Values, and what an operator makes of them. *)

ItemsOf(side) == IF side = "nodes" THEN Nodes ELSE DOMAIN Edges
ColsOf(side)  == IF side = "nodes" THEN Columns["nodes"] \cup {"count"} ELSE Columns["edges"]

Graphs       == [domain : {"graph"}, items : Seq(Nodes), rows : SUBSET DOMAIN Edges, cols : {{}}]
Tables(side) == [domain : {side}, items : Seq(ItemsOf(side)), rows : {{}}, cols : SUBSET ColsOf(side)]
Patterns     == [domain : {"pattern"}, items : {<<>>}, rows : SUBSET DOMAIN Edges, cols : {{}}]
Values       == Graphs \cup Tables("nodes") \cup Tables("edges") \cup Patterns \cup {Error, Panic}

\* A value with one field exchanged.
LEMMA ValueExcept ==
    ASSUME NEW D, NEW I, NEW R, NEW C, NEW v \in [domain : D, items : I, rows : R, cols : C], NEW x
    PROVE  /\ v = [domain |-> v.domain, items |-> v.items, rows |-> v.rows, cols |-> v.cols]
           /\ [v EXCEPT !.domain = x] = [domain |-> x, items |-> v.items, rows |-> v.rows, cols |-> v.cols]
           /\ [v EXCEPT !.items = x] = [domain |-> v.domain, items |-> x, rows |-> v.rows, cols |-> v.cols]
           /\ [v EXCEPT !.rows = x] = [domain |-> v.domain, items |-> v.items, rows |-> x, cols |-> v.cols]
           /\ [v EXCEPT !.cols = x] = [domain |-> v.domain, items |-> v.items, rows |-> v.rows, cols |-> x]
OBVIOUS

\* The fields of each kind of value.
LEMMA ValueKinds ==
    /\ \A v \in Graphs : v.domain = "graph" /\ v.items \in Seq(Nodes) /\ v.rows \in SUBSET DOMAIN Edges /\ v.cols = {}
    /\ \A side : \A v \in Tables(side) :
          v.domain = side /\ v.items \in Seq(ItemsOf(side)) /\ v.rows = {} /\ v.cols \in SUBSET ColsOf(side)
    /\ \A v \in Patterns : v.domain = "pattern" /\ v.items = <<>> /\ v.rows \in SUBSET DOMAIN Edges /\ v.cols = {}
    /\ Error.domain = "error" /\ Error.items = <<>> /\ Error.rows = {} /\ Error.cols = {}
    /\ Panic.domain = "panic" /\ Panic.items = <<>> /\ Panic.rows = {} /\ Panic.cols = {}
    /\ ~Ok(Error) /\ ~Ok(Panic)
    /\ NotYet \in [domain : {"none"}, items : {<<>>}, rows : {{}}, cols : {{}}]
<1>0. NotYet \in [domain : {"none"}, items : {<<>>}, rows : {{}}, cols : {{}}]
      BY DEF NotYet
<1> DEFINE n == NotYet
<1>1. Error = [domain |-> "error", items |-> <<>>, rows |-> {}, cols |-> {}]
  <2>1. Error = [domain |-> "error", items |-> n.items, rows |-> n.rows, cols |-> n.cols]
        BY <1>0, ValueExcept DEF Error
  <2>2. QED BY <1>0, <2>1
<1>2. Panic = [domain |-> "panic", items |-> <<>>, rows |-> {}, cols |-> {}]
  <2>1. Panic = [domain |-> "panic", items |-> n.items, rows |-> n.rows, cols |-> n.cols]
        BY <1>0, ValueExcept DEF Panic
  <2>2. QED BY <1>0, <2>1
<1>3. \A v \in Graphs : v.domain = "graph" /\ v.items \in Seq(Nodes) /\ v.rows \in SUBSET DOMAIN Edges /\ v.cols = {}
      BY DEF Graphs
<1>4. \A side : \A v \in Tables(side) :
          v.domain = side /\ v.items \in Seq(ItemsOf(side)) /\ v.rows = {} /\ v.cols \in SUBSET ColsOf(side)
      BY DEF Tables
<1>5. \A v \in Patterns : v.domain = "pattern" /\ v.items = <<>> /\ v.rows \in SUBSET DOMAIN Edges /\ v.cols = {}
      BY DEF Patterns
<1>6. QED BY <1>0, <1>1, <1>2, <1>3, <1>4, <1>5 DEF Ok, Wants

\* The domain of a value says of which kind it is.
LEMMA ValueOf ==
    ASSUME NEW v \in Values
    PROVE  /\ v.domain = "graph" => v \in Graphs
           /\ \A side \in Sides : v.domain = side => v \in Tables(side)
           /\ v.domain = "pattern" => v \in Patterns
           /\ ~Ok(v) => v \in {Error, Panic}
           /\ Ok(v) => v.domain \in {"graph", "nodes", "edges", "pattern"}
<1>1. v \in Graphs \/ v \in Tables("nodes") \/ v \in Tables("edges") \/ v \in Patterns \/ v \in {Error, Panic}
      BY DEF Values
<1>2. QED BY <1>1, ValueKinds DEF Sides, Ok, Wants

\* The Scan makes a graph,
LEMMA SourceIsGraph ==
    Source \in Graphs
<1>1. NodeCount \in Nat /\ Edges \in Seq(Row)
      BY SourceAssumption
<1>2. IsFiniteSet(Nodes) /\ Nodes \in SUBSET Nat
  <2>1. ASSUME NEW k \in Nat PROVE IsFiniteSet(1..k) /\ Cardinality(1..k) = k
        BY FS_Interval
  <2>2. QED BY <1>1, <2>1 DEF Nodes
<1>3. InOrder(Nodes) \in Seq(Nodes)
      BY <1>2, InOrderLists
<1>4. QED BY <1>3 DEF Source, Graph, Graphs

\* and the edge frame of a graph lists its rows.
LEMMA RowsInOrder ==
    ASSUME NEW R \in SUBSET DOMAIN Edges
    PROVE  InOrder(R) \in Seq(DOMAIN Edges)
<1>1. Edges \in Seq(Row)
      BY SourceAssumption
<1>2. DOMAIN Edges = 1..Len(Edges) /\ Len(Edges) \in Nat
      BY <1>1, LenProperties
<1>3. IsFiniteSet(DOMAIN Edges) /\ DOMAIN Edges \in SUBSET Nat
  <2>1. ASSUME NEW k \in Nat PROVE IsFiniteSet(1..k) /\ Cardinality(1..k) = k
        BY FS_Interval
  <2>2. QED BY <1>2, <2>1
<1>4. IsFiniteSet(R) /\ R \in SUBSET Nat
      BY <1>3, FS_Subset
<1>5. InOrder(R) \in Seq(R)
      BY <1>4, InOrderLists
<1>6. QED BY <1>5, SeqMonotonic

\* The frame of a value that has one.
LEMMA FrameIs ==
    ASSUME NEW v \in Values, NEW side \in Sides, HasFrame(v, side)
    PROVE  /\ Ok(v)
           /\ Frame(v, side) \in Tables(side)
           /\ v.domain = side => Frame(v, side) = v
<1>1. v.domain = "graph" \/ v.domain = side
      BY DEF HasFrame
<1>2. "nodes" # "graph" /\ "edges" # "graph"
      OBVIOUS
<1>3. CASE v.domain = "graph"
  <2>1. v.items \in Seq(Nodes) /\ v.rows \in SUBSET DOMAIN Edges
        BY <1>3, ValueOf, ValueKinds
  <2>2. InOrder(v.rows) \in Seq(DOMAIN Edges)
        BY <2>1, RowsInOrder
  <2>3. Frame(v, side) = Table(side, IF side = "nodes" THEN v.items ELSE InOrder(v.rows), Columns[side])
        BY <1>3 DEF Frame
  <2>4. (IF side = "nodes" THEN v.items ELSE InOrder(v.rows)) \in Seq(ItemsOf(side))
        BY <2>1, <2>2 DEF ItemsOf
  <2>5. Columns[side] \in SUBSET ColsOf(side)
        BY DEF ColsOf, Sides
  <2>6. Frame(v, side) \in Tables(side)
        BY <2>3, <2>4, <2>5 DEF Table, Tables
  <2>7. QED BY <1>2, <1>3, <2>6 DEF Ok, Wants, Sides
<1>4. CASE v.domain = side
  <2>1. v \in Tables(side)
        BY <1>4, ValueOf
  <2>2. Frame(v, side) = v
        BY <1>2, <1>4 DEF Frame, Sides
  <2>3. QED BY <1>4, <2>1, <2>2 DEF Ok, Wants, Sides
<1>5. QED BY <1>1, <1>3, <1>4

\* A table is the frame of its side, and of no other.
LEMMA TableIsValue ==
    ASSUME NEW side \in Sides, NEW f \in Tables(side)
    PROVE  /\ f \in Values /\ Ok(f) /\ f.domain = side /\ HasFrame(f, side) /\ Frame(f, side) = f
           /\ \A other \in Sides : HasFrame(f, other) => other = side
<1>1. f.domain = side
      BY ValueKinds
<1>2. f \in Values
      BY DEF Values, Sides
<1>3. QED BY <1>1, <1>2 DEF Ok, Wants, Sides, HasFrame, Frame

\* A table keeps its kind when it loses items or columns.
LEMMA TableItems ==
    ASSUME NEW side, NEW f \in Tables(side), NEW s \in Seq(ItemsOf(side))
    PROVE  /\ [f EXCEPT !.items = s] \in Tables(side)
           /\ [f EXCEPT !.items = s] = [domain |-> side, items |-> s, rows |-> {}, cols |-> f.cols]
<1>1. f \in [domain : {side}, items : Seq(ItemsOf(side)), rows : {{}}, cols : SUBSET ColsOf(side)]
      BY DEF Tables
<1>2. f.domain = side /\ f.items \in Seq(ItemsOf(side)) /\ f.rows = {} /\ f.cols \in SUBSET ColsOf(side)
      BY ValueKinds
<1>3. [f EXCEPT !.items = s] = [domain |-> f.domain, items |-> s, rows |-> f.rows, cols |-> f.cols]
      BY <1>1, ValueExcept
<1>4. QED BY <1>2, <1>3 DEF Tables

\* A table with other columns is a table.
LEMMA TableCols ==
    ASSUME NEW side, NEW f \in Tables(side), NEW C \in SUBSET ColsOf(side)
    PROVE  /\ [f EXCEPT !.cols = C] \in Tables(side)
           /\ [f EXCEPT !.cols = C] = [domain |-> side, items |-> f.items, rows |-> {}, cols |-> C]
<1>1. f \in [domain : {side}, items : Seq(ItemsOf(side)), rows : {{}}, cols : SUBSET ColsOf(side)]
      BY DEF Tables
<1>2. f.domain = side /\ f.items \in Seq(ItemsOf(side)) /\ f.rows = {} /\ f.cols \in SUBSET ColsOf(side)
      BY ValueKinds
<1>3. [f EXCEPT !.cols = C] = [domain |-> f.domain, items |-> f.items, rows |-> f.rows, cols |-> C]
      BY <1>1, ValueExcept
<1>4. QED BY <1>2, <1>3 DEF Tables

\* A table is what its fields say.
LEMMA TableIs ==
    ASSUME NEW side, NEW f \in Tables(side)
    PROVE  f = [domain |-> side, items |-> f.items, rows |-> {}, cols |-> f.cols]
<1>1. f \in [domain : {side}, items : Seq(ItemsOf(side)), rows : {{}}, cols : SUBSET ColsOf(side)]
      BY DEF Tables
<1>2. f.domain = side /\ f.rows = {}
      BY ValueKinds
<1>3. QED BY <1>1, <1>2, ValueExcept

\* The operators by their kinds.
Filters    == [op : {"filter"}, of : Sides, pred : SUBSET Atoms]
Projects   == [op : {"project"}, of : Sides, cols : SUBSET STRING]
Expansions == [op : {"expand"}, types : SUBSET Types, hops : Nat, dir : Directions, pre : SUBSET Atoms]
Matches    == [op : {"match"}, where : SUBSET [alias : {"a", "b"}, atom : Atoms]]
Limits     == [op : {"limit"}, n : Nat]

\* The fields of each kind of operator.
LEMMA OpKinds ==
    ASSUME NEW o \in Ops
    PROVE  /\ o.op \in {"filter", "project", "expand", "match", "aggregate", "sort", "limit", "hint"}
           /\ o.op = "filter" => o \in Filters
           /\ o.op = "project" => o \in Projects
           /\ o.op = "expand" => o \in Expansions
           /\ o.op = "match" => o \in Matches
           /\ o.op = "limit" => o \in Limits
           /\ o.op = "hint" => o \in Hints
           /\ o.op # "hint" => o \in Operators
<1>1. \/ o \in Filters \/ o \in Projects \/ o \in Expansions \/ o \in Matches
      \/ o \in [op : {"aggregate"}] \/ o \in [op : {"sort"}, by : STRING] \/ o \in Limits \/ o \in Hints
      BY DEF Ops, Operators, Filters, Projects, Expansions, Matches, Limits
<1>2. /\ o \in Filters => o.op = "filter"
      /\ o \in Projects => o.op = "project"
      /\ o \in Expansions => o.op = "expand"
      /\ o \in Matches => o.op = "match"
      /\ o \in [op : {"aggregate"}] => o.op = "aggregate"
      /\ o \in [op : {"sort"}, by : STRING] => o.op = "sort"
      /\ o \in Limits => o.op = "limit"
      /\ o \in Hints => o.op = "hint"
      BY DEF Filters, Projects, Expansions, Matches, Limits, Hints
<1>3. o.op # "hint" => o \in Operators
      BY <1>1, <1>2 DEF Ops
<1>4. QED BY <1>1, <1>2, <1>3

\* What each operator means, for a value that is no failure.
LEMMA MeaningIs ==
    ASSUME NEW v, Ok(v), NEW o
    PROVE  /\ o.op = "filter" => Meaning(v, o) = FilterMeans(v, o)
           /\ o.op = "project" => Meaning(v, o) = ProjectMeans(v, o)
           /\ o.op = "match" => Meaning(v, o) = MatchMeans(v, o)
           /\ o.op = "expand" => Meaning(v, o) = ExpandedBy(v, o)
           /\ o.op = "aggregate" => Meaning(v, o) = Aggregated(v, o)
           /\ o.op = "sort" => Meaning(v, o) = Sorted(v, o)
           /\ o.op = "limit" => Meaning(v, o) = Cut(v, o)
           /\ o.op = "hint" => Meaning(v, o) = IF o.kind = "TopK" THEN Cut(v, o) ELSE v
<1>1. /\ o.op = "expand" => Run(v, o) = ExpandedBy(v, o)
      /\ o.op = "aggregate" => Run(v, o) = Aggregated(v, o)
      /\ o.op = "sort" => Run(v, o) = Sorted(v, o)
      /\ o.op = "limit" => Run(v, o) = Cut(v, o)
      BY DEF Run
<1>2. QED BY <1>1 DEF Meaning

\* What Run chooses, operator by operator.
LEMMA ApplyIs ==
    ASSUME NEW v, Ok(v), NEW o
    PROVE  /\ o.op = "filter" => Apply(v, o) = Filtered(v, o)
           /\ o.op = "project" => Apply(v, o) = Projected(v, o)
           /\ o.op = "match" => Apply(v, o) = Matched(v, o)
           /\ o.op = "hint" => Apply(v, o) = Hinted(v, o)
           /\ o.op \in {"expand", "aggregate", "sort", "limit"} => Apply(v, o) = Meaning(v, o)
<1>1. o.op = "filter" => Apply(v, o) = Filtered(v, o)
      BY DEF Apply, Run
<1>2. o.op = "project" => Apply(v, o) = Projected(v, o)
      BY DEF Apply, Run
<1>3. o.op = "match" => Apply(v, o) = Matched(v, o)
      BY DEF Apply, Run
<1>4. o.op = "hint" => Apply(v, o) = Hinted(v, o)
      BY DEF Apply, Run
<1>5. o.op \in {"expand", "aggregate", "sort", "limit"} => Apply(v, o) = Meaning(v, o)
      BY DEF Apply, Meaning
<1>6. QED BY <1>1, <1>2, <1>3, <1>4, <1>5

\* A failure goes up through the plan as it is.
LEMMA FailureStays ==
    ASSUME NEW v, ~Ok(v), NEW o
    PROVE  Meaning(v, o) = v /\ Apply(v, o) = v
<1>1. Meaning(v, o) = v
      BY DEF Meaning
<1>2. Apply(v, o) = v
      BY DEF Apply, Run
<1>3. QED BY <1>1, <1>2

\* A frame without some of its items or columns.
LEMMA FilterMeansIs ==
    ASSUME NEW v \in Values, NEW o \in Filters, HasFrame(v, o.of)
    PROVE  /\ o.of \in Sides
           /\ Frame(v, o.of) \in Tables(o.of)
           /\ FilterMeans(v, o) \in Tables(o.of)
           /\ FilterMeans(v, o) = [domain |-> o.of, items |-> Kept(o.pred, Frame(v, o.of).items),
                                   rows |-> {}, cols |-> Frame(v, o.of).cols]
<1> DEFINE side == o.of
           f    == Frame(v, side)
<1>1. side \in Sides
      BY DEF Filters
<1>2. f \in Tables(side)
      BY <1>1, FrameIs
<1>3. FilterMeans(v, o) = [f EXCEPT !.items = Kept(o.pred, @)]
      BY DEF FilterMeans
<1> HIDE DEF f, side
<1>4. f.items \in Seq(ItemsOf(side)) /\ f.cols \in SUBSET ColsOf(side)
      BY <1>2, ValueKinds
<1>5. Kept(o.pred, f.items) \in Seq(ItemsOf(side))
      BY <1>4, KeptLists
<1>6. FilterMeans(v, o) \in Tables(side)
      /\ FilterMeans(v, o) = [domain |-> side, items |-> Kept(o.pred, f.items), rows |-> {}, cols |-> f.cols]
      BY <1>2, <1>3, <1>5, TableItems
<1>7. QED BY <1>1, <1>2, <1>6 DEF f, side

\* What a projection means to a value that has its frame.
LEMMA ProjectMeansIs ==
    ASSUME NEW v \in Values, NEW o \in Projects, HasFrame(v, o.of)
    PROVE  /\ o.of \in Sides
           /\ Frame(v, o.of) \in Tables(o.of)
           /\ ProjectMeans(v, o) \in Tables(o.of)
           /\ ProjectMeans(v, o) = [domain |-> o.of, items |-> Frame(v, o.of).items,
                                    rows |-> {}, cols |-> Frame(v, o.of).cols \cap o.cols]
<1> DEFINE side == o.of
           f    == Frame(v, side)
<1>1. side \in Sides
      BY DEF Projects
<1>2. f \in Tables(side)
      BY <1>1, FrameIs
<1>3. ProjectMeans(v, o) = [f EXCEPT !.cols = @ \cap o.cols]
      BY DEF ProjectMeans
<1> HIDE DEF f, side
<1>4. f.items \in Seq(ItemsOf(side)) /\ f.cols \in SUBSET ColsOf(side)
      BY <1>2, ValueKinds
<1> DEFINE C == f.cols \cap o.cols
<1>5. C \in SUBSET ColsOf(side) /\ ProjectMeans(v, o) = [f EXCEPT !.cols = C]
      BY <1>3, <1>4
<1> HIDE DEF C
<1>6. ProjectMeans(v, o) \in Tables(side)
      /\ ProjectMeans(v, o) = [domain |-> side, items |-> f.items, rows |-> {}, cols |-> C]
      BY <1>2, <1>5, TableCols
<1>7. QED BY <1>1, <1>2, <1>6 DEF f, side, C

\* The rows over which a pattern's step leads from the nodes of a value.
RowsFrom(v, o) == {r \in Steps(ToSet(Frame(v, "nodes").items)) : \A c \in o.where : Bound(c, r) \in c.atom.holds}

\* What a match means to a value that has nodes.
LEMMA MatchMeansIs ==
    ASSUME NEW v, NEW o, HasFrame(v, "nodes")
    PROVE  /\ MatchMeans(v, o) \in Patterns
           /\ MatchMeans(v, o) = [domain |-> "pattern", items |-> <<>>, rows |-> RowsFrom(v, o), cols |-> {}]
<1> DEFINE R == RowsFrom(v, o)
           n == NotYet
<1>1. R \in SUBSET DOMAIN Edges
      BY DEF RowsFrom, Steps
<1>2. MatchMeans(v, o) = [n EXCEPT !.domain = "pattern", !.rows = R]
      BY DEF MatchMeans, RowsFrom
<1> HIDE DEF R
<1>3. n \in [domain : {"none"}, items : {<<>>}, rows : {{}}, cols : {{}}]
      BY ValueKinds
<1>4. n.items = <<>> /\ n.cols = {}
      BY <1>3
<1> HIDE DEF n
<1> DEFINE w == [n EXCEPT !.domain = "pattern", !.rows = R]
<1>5. /\ DOMAIN w = {"domain", "items", "rows", "cols"} /\ w = [i \in DOMAIN w |-> w[i]]
      /\ w.domain = "pattern" /\ w.items = <<>> /\ w.rows = R /\ w.cols = {}
  <2>1. DOMAIN n = {"domain", "items", "rows", "cols"}
        BY <1>3
  <2>2. DOMAIN w = DOMAIN n /\ w = [i \in DOMAIN w |-> w[i]]
        OBVIOUS
  <2>3. w.domain = "pattern" /\ w.items = n.items /\ w.rows = R /\ w.cols = n.cols
        BY <2>1
  <2>4. QED BY <1>4, <2>1, <2>2, <2>3
<1>6. MatchMeans(v, o) = [domain |-> "pattern", items |-> <<>>, rows |-> R, cols |-> {}]
  <2>1. MatchMeans(v, o) = w
        BY <1>2
  <2> HIDE DEF w
  <2>2. QED BY <1>5, <2>1
<1>7. QED BY <1>1, <1>6 DEF R, Patterns

\* An expansion makes a graph of nodes and rows of the source, or fails.
LEMMA ExpandedTyped ==
    ASSUME NEW v \in Values, NEW o
    PROVE  ExpandedBy(v, o) \in Graphs \cup {Error}
<1> DEFINE q == Expansion(v, o)
           g == Expanded(q)
<1>1. CASE ~(HasFrame(v, "nodes") /\ g.status = "ok")
      BY <1>1 DEF ExpandedBy
<1>2. CASE HasFrame(v, "nodes") /\ g.status = "ok"
  <2>1. ExpandedBy(v, o) = Graph(InOrder(g.nodes), g.rows)
        BY <1>2 DEF ExpandedBy
  <2>2. q.edges = Edges
        BY DEF Expansion
  <2> HIDE DEF q
  <2>3. g = [status |-> "ok", nodes |-> Reach(q, Frontier(q), q.hops), rows |-> RowsWithin(q, Frontier(q), q.hops)]
    <3>1. Failure.status = "err"
          BY DEF Failure
    <3>2. g = Failure \/ g = [status |-> "ok", nodes |-> Reach(q, Frontier(q), q.hops),
                              rows |-> RowsWithin(q, Frontier(q), q.hops)]
          BY DEF Expanded
    <3>3. QED BY <1>2, <3>1, <3>2
  <2>4. g.nodes \in SUBSET Nodes
        BY <2>3 DEF Reach
  <2>5. g.rows \in SUBSET DOMAIN Edges
    <3>1. \A n : \A e \in Entries(q, n) : e.row \in DOMAIN Edges
          BY <2>2 DEF Entries
    <3>2. RowsWithin(q, Frontier(q), q.hops) \in SUBSET DOMAIN Edges
          BY <3>1 DEF RowsWithin
    <3>3. QED BY <2>3, <3>2
  <2> HIDE DEF g
  <2>6. InOrder(g.nodes) \in Seq(Nodes)
    <3>1. IsFiniteSet(Nodes) /\ Nodes \in SUBSET Nat
      <4>1. ASSUME NEW k \in Nat PROVE IsFiniteSet(1..k) /\ Cardinality(1..k) = k
            BY FS_Interval
      <4>2. QED BY <4>1, SourceAssumption DEF Nodes
    <3> DEFINE N == g.nodes
    <3>2. N \in SUBSET Nodes /\ N \in SUBSET Nat
          BY <2>4, <3>1
    <3> HIDE DEF N
    <3>3. IsFiniteSet(N)
          BY <3>1, <3>2, FS_Subset
    <3>4. InOrder(N) \in Seq(N)
          BY <3>2, <3>3, InOrderLists
    <3>5. InOrder(N) \in Seq(Nodes)
          BY <3>2, <3>4, SeqMonotonic
    <3>6. QED BY <3>5 DEF N
  <2>7. QED BY <2>1, <2>5, <2>6 DEF Graph, Graphs
<1>3. QED BY <1>1, <1>2

\* An aggregate makes a table of nodes, or fails.
LEMMA AggregatedTyped ==
    ASSUME NEW v \in Values, NEW o
    PROVE  Aggregated(v, o) \in Tables("nodes") \cup {Error}
<1>1. CASE ~HasFrame(v, "nodes")
      BY <1>1 DEF Aggregated
<1>2. CASE HasFrame(v, "nodes")
  <2> DEFINE f == Frame(v, "nodes")
  <2>1. f \in Tables("nodes") /\ "nodes" \in Sides
        BY <1>2, FrameIs DEF Sides
  <2>2. Aggregated(v, o) = [f EXCEPT !.cols = @ \cup {"count"}]
        BY <1>2 DEF Aggregated
  <2> HIDE DEF f
  <2> DEFINE C == f.cols \cup {"count"}
  <2>3. C \in SUBSET ColsOf("nodes") /\ Aggregated(v, o) = [f EXCEPT !.cols = C]
        BY <2>1, <2>2, ValueKinds DEF ColsOf
  <2> HIDE DEF C
  <2> DEFINE side == "nodes"
  <2>4. f \in Tables(side) /\ C \in SUBSET ColsOf(side)
        BY <2>1, <2>3
  <2> HIDE DEF side
  <2>5. [f EXCEPT !.cols = C] \in Tables(side)
        BY <2>4, TableCols
  <2>6. QED BY <2>3, <2>5 DEF side
<1>3. QED BY <1>1, <1>2

\* Every column of a table ranks its items.
LEMMA RanksAreInt ==
    ASSUME NEW side \in Sides, NEW c \in ColsOf(side), NEW x \in ItemsOf(side)
    PROVE  Rank[c][x] \in Int
BY RankAssumption DEF Sides, ColsOf, ItemsOf

\* A sort makes of a table one with the same rows, if it knows the column.
LEMMA SortedTyped ==
    ASSUME NEW v \in Values, NEW o, Sorted(v, o) # Error
    PROVE  /\ v.domain \in Sides /\ o.by \in v.cols
           /\ Sorted(v, o) \in Tables(v.domain)
<1> DEFINE s == v.items
           side == v.domain
           D == DOMAIN s
           ahead(i) == {j \in D : \/ Rank[o.by][s[j]] < Rank[o.by][s[i]]
                                  \/ Rank[o.by][s[j]] = Rank[o.by][s[i]] /\ j < i}
           place(k) == CHOOSE i \in D : Cardinality(ahead(i)) = k - 1
<1>1. /\ side \in Sides /\ o.by \in v.cols
      /\ Sorted(v, o) = [v EXCEPT !.items = [k \in D |-> s[place(k)]]]
      BY DEF Sorted
<1>2. v \in Tables(side)
      BY <1>1, ValueOf
<1>3. s \in Seq(ItemsOf(side)) /\ v.cols \in SUBSET ColsOf(side)
      BY <1>2, ValueKinds
<1>4. D = 1..Len(s) /\ Len(s) \in Nat /\ \A i \in D : s[i] \in ItemsOf(side)
      BY <1>3, LenProperties, ElementOfSeq
<1>5. \A i \in D : Rank[o.by][s[i]] \in Int /\ i \in Nat
  <2>1. o.by \in ColsOf(side)
        BY <1>1, <1>3
  <2> HIDE DEF D, s, side
  <2>2. side \in Sides
        BY <1>1
  <2>3. ASSUME NEW i \in D PROVE i \in Nat
    <3>1. i \in 1..Len(s) /\ Len(s) \in Nat
          BY <1>4
    <3>2. QED BY <3>1
  <2>4. ASSUME NEW i \in D PROVE Rank[o.by][s[i]] \in Int
    <3>1. s[i] \in ItemsOf(side)
          BY <1>4
    <3>2. QED BY <2>1, <2>2, <3>1, RanksAreInt
  <2>5. QED BY <2>3, <2>4
<1> DEFINE A == [i \in D |-> ahead(i)]
<1>6. Orders(D, A)
  <2> DEFINE r == [i \in D |-> Rank[o.by][s[i]]]
  <2>1. \A i \in D : r[i] \in Int /\ i \in Nat
        BY <1>5
  <2>2. \A i, j \in D : j \in A[i] <=> r[j] < r[i] \/ (r[j] = r[i] /\ j < i)
        OBVIOUS
  <2>3. \A i \in D : A[i] \in SUBSET D
        OBVIOUS
  <2> HIDE DEF A, r, D
  <2>4. \A i \in D : i \notin A[i]
        BY <2>1, <2>2
  <2>5. \A i, j \in D : i # j => i \in A[j] \/ j \in A[i]
        BY <2>1, <2>2
  <2>6. \A i, j, k \in D : i \in A[j] /\ j \in A[k] => i \in A[k]
        BY <2>1, <2>2
  <2>7. QED BY <2>3, <2>4, <2>5, <2>6 DEF Orders
<1>7. \A i \in D : A[i] = ahead(i)
      OBVIOUS
<1>8. IsFiniteSet(D) /\ Cardinality(D) = Len(s)
  <2>1. ASSUME NEW k \in Nat PROVE IsFiniteSet(1..k) /\ Cardinality(1..k) = k
        BY FS_Interval
  <2>2. QED BY <1>4, <2>1
<1>9. \A k \in D : place(k) \in D
  <2> HIDE DEF A, ahead
  <2>1. \A k \in 1..Cardinality(D) : \E i \in D : Cardinality(A[i]) = k - 1
        BY <1>6, <1>8, RanksAreReached
  <2>2. \A k \in D : \E i \in D : Cardinality(ahead(i)) = k - 1
        BY <1>4, <1>7, <1>8, <2>1
  <2>3. QED BY <2>2
<1> DEFINE t == [k \in D |-> s[place(k)]]
<1>10. t \in Seq(ItemsOf(side))
  <2> HIDE DEF place, D
  <2>1. \A k \in D : s[place(k)] \in ItemsOf(side)
        BY <1>4, <1>9
  <2> DEFINE n == Len(s)
             U == ItemsOf(side)
             e(k) == s[place(k)]
  <2>2. \A k \in 1..n : e(k) \in U
        BY <1>4, <2>1
  <2>3. n \in Nat /\ t = [k \in 1..n |-> e(k)]
        BY <1>4
  <2> HIDE DEF n, U, e, t
  <2>4. t \in Seq(U)
        BY <2>2, <2>3
  <2>5. QED BY <2>4 DEF U
<1>11. Sorted(v, o) = [v EXCEPT !.items = t]
       BY <1>1
<1> HIDE DEF t, place, D, A, ahead
<1>12. [v EXCEPT !.items = t] \in Tables(side)
       BY <1>2, <1>10, TableItems
<1>13. QED BY <1>1, <1>11, <1>12

\* The first n items.
Firsts(n, s) == SubSeq(s, 1, IF n < Len(s) THEN n ELSE Len(s))
Within(R, s) == {r \in R : {Edges[r].src, Edges[r].dst} \subseteq ToSet(s)}
Lesser(m, n) == IF m < n THEN m ELSE n

\* The first n of a list.
LEMMA FirstsAre ==
    ASSUME NEW U, NEW s \in Seq(U), NEW n \in Nat
    PROVE  /\ Firsts(n, s) \in Seq(U)
           /\ Len(Firsts(n, s)) = Lesser(n, Len(s))
           /\ \A i \in 1..Lesser(n, Len(s)) : Firsts(n, s)[i] = s[i]
           /\ ToSet(Firsts(n, s)) \subseteq ToSet(s)
<1> DEFINE m == IF n < Len(s) THEN n ELSE Len(s)
           t == Firsts(n, s)
<1>1. Len(s) \in Nat /\ DOMAIN s = 1..Len(s)
      BY LenProperties
<1>2. m \in 0..Len(s) /\ m = Lesser(n, Len(s))
      BY <1>1 DEF Lesser
<1>3. t = SubSeq(s, 1, m)
      BY DEF Firsts
<1> HIDE DEF m, t
<1>4. t \in Seq(U) /\ Len(t) = m /\ \A i \in 1..m : t[i] = s[i]
      BY <1>1, <1>2, <1>3
<1>5. DOMAIN t = 1..m
      BY <1>4, LenProperties
<1>6. ToSet(t) \subseteq ToSet(s)
  <2>1. \A i \in 1..m : i \in DOMAIN s
        BY <1>1, <1>2
  <2>2. QED BY <1>4, <1>5, <2>1 DEF ToSet
<1>7. QED BY <1>2, <1>4, <1>6 DEF t

\* The first of the first.
LEMMA FirstsTwice ==
    ASSUME NEW U, NEW s \in Seq(U), NEW m \in Nat, NEW n \in Nat
    PROVE  Firsts(n, Firsts(m, s)) = Firsts(Lesser(m, n), s)
<1> DEFINE t == Firsts(m, s)
           k == Lesser(m, n)
           w == Firsts(k, s)
           x == Firsts(n, t)
<1>1. k \in Nat /\ Len(s) \in Nat
      BY LenProperties DEF Lesser
<1> HIDE DEF k
<1>2. t \in Seq(U) /\ Len(t) = Lesser(m, Len(s)) /\ \A i \in 1..Lesser(m, Len(s)) : t[i] = s[i]
      BY FirstsAre
<1>3. w \in Seq(U) /\ Len(w) = Lesser(k, Len(s)) /\ \A i \in 1..Lesser(k, Len(s)) : w[i] = s[i]
      BY <1>1, FirstsAre
<1> HIDE DEF t, w
<1>4. x \in Seq(U) /\ Len(x) = Lesser(n, Len(t)) /\ \A i \in 1..Lesser(n, Len(t)) : x[i] = t[i]
      BY <1>2, FirstsAre
<1> HIDE DEF x
<1>5. Len(x) = Len(w)
      BY <1>1, <1>2, <1>3, <1>4 DEF Lesser, k
<1>6. \A i \in 1..Len(x) : x[i] = w[i]
  <2>1. \A i \in 1..Len(x) : i \in 1..Lesser(n, Len(t)) /\ i \in 1..Lesser(m, Len(s)) /\ i \in 1..Lesser(k, Len(s))
        BY <1>1, <1>2, <1>3, <1>4, <1>5 DEF Lesser
  <2>2. QED BY <1>2, <1>3, <1>4, <2>1
<1>7. x = w
      BY <1>3, <1>4, <1>5, <1>6, SeqEqual
<1>8. QED BY <1>7 DEF x, w, t, k

\* A value that is cut.
LEMMA CutIs ==
    ASSUME NEW v \in Values, Ok(v), v.domain # "pattern", NEW o, o.n \in Nat
    PROVE  /\ Cut(v, o) = [domain |-> v.domain, items |-> Firsts(o.n, v.items),
                           rows |-> Within(v.rows, Firsts(o.n, v.items)), cols |-> v.cols]
           /\ v.domain = "graph" => Cut(v, o) \in Graphs
           /\ \A side \in Sides : v.domain = side => Cut(v, o) \in Tables(side)
           /\ Cut(v, o) \in Values
<1> DEFINE s == Firsts(o.n, v.items)
           R == Within(v.rows, s)
           w == [v EXCEPT !.items = s, !.rows = R]
<1>1. Cut(v, o) = w
      BY DEF Cut, Firsts, Within
<1>2. v.domain \in {"graph", "nodes", "edges"}
      BY ValueOf
<1>3. \E U : v \in [domain : {v.domain}, items : Seq(U), rows : SUBSET DOMAIN Edges, cols : SUBSET (Columns["nodes"] \cup {"count"} \cup Columns["edges"])]
  <2>1. CASE v.domain = "graph"
    <3>1. v \in Graphs
          BY <2>1, ValueOf
    <3>2. QED BY <3>1 DEF Graphs
  <2>2. CASE v.domain \in Sides
    <3>1. v \in Tables(v.domain)
          BY <2>2, ValueOf
    <3>2. QED BY <3>1 DEF Tables, ColsOf
  <2>3. QED BY <1>2, <2>1, <2>2 DEF Sides
<1> HIDE DEF s, R
<1>4. w = [domain |-> v.domain, items |-> s, rows |-> R, cols |-> v.cols]
  <2>1. PICK U : v \in [domain : {v.domain}, items : Seq(U), rows : SUBSET DOMAIN Edges, cols : SUBSET (Columns["nodes"] \cup {"count"} \cup Columns["edges"])]
        BY <1>3
  <2>2. DOMAIN v = {"domain", "items", "rows", "cols"}
        BY <2>1
  <2>3. DOMAIN w = DOMAIN v /\ w = [i \in DOMAIN w |-> w[i]]
        OBVIOUS
  <2>4. w.domain = v.domain /\ w.items = s /\ w.rows = R /\ w.cols = v.cols
        BY <2>2
  <2> HIDE DEF w
  <2>5. QED BY <2>2, <2>3, <2>4
<1> HIDE DEF w
<1>5. ASSUME v.domain = "graph" PROVE Cut(v, o) \in Graphs
  <2>1. v.items \in Seq(Nodes) /\ v.rows \in SUBSET DOMAIN Edges /\ v.cols = {}
        BY <1>5, ValueOf, ValueKinds
  <2>2. s \in Seq(Nodes)
        BY <2>1, FirstsAre DEF s
  <2>3. R \in SUBSET DOMAIN Edges
        BY <2>1 DEF R, Within
  <2>4. QED BY <1>1, <1>4, <1>5, <2>1, <2>2, <2>3 DEF Graphs
<1>6. ASSUME NEW side \in Sides, v.domain = side PROVE Cut(v, o) \in Tables(side)
  <2>1. v.items \in Seq(ItemsOf(side)) /\ v.rows = {} /\ v.cols \in SUBSET ColsOf(side)
        BY <1>6, ValueOf, ValueKinds
  <2> DEFINE U == ItemsOf(side)
  <2>2. s \in Seq(ItemsOf(side))
    <3>1. v.items \in Seq(U)
          BY <2>1
    <3> HIDE DEF U
    <3>2. s \in Seq(U)
          BY <3>1, FirstsAre DEF s
    <3>3. QED BY <3>2 DEF U
  <2>3. R = {}
        BY <2>1 DEF R, Within
  <2>4. QED BY <1>1, <1>4, <1>6, <2>1, <2>2, <2>3 DEF Tables
<1>7. Cut(v, o) \in Values
      BY <1>2, <1>5, <1>6 DEF Values, Sides
<1>8. QED BY <1>1, <1>4, <1>5, <1>6, <1>7 DEF s, R

\* A pattern cannot be cut.
LEMMA CutPattern ==
    ASSUME NEW v, v.domain = "pattern", NEW o
    PROVE  Cut(v, o) = Error
BY DEF Cut

\* Cutting twice is cutting to the lesser.
LEMMA CutTwice ==
    ASSUME NEW v \in Values, Ok(v), v.domain # "pattern",
           NEW a, NEW b, NEW c, a.n \in Nat, b.n \in Nat, c.n = Lesser(a.n, b.n)
    PROVE  Cut(Cut(v, a), b) = Cut(v, c)
<1> DEFINE x == Cut(v, a)
           m == a.n
           n == b.n
           k == Lesser(m, n)
           s == v.items
<1>1. k \in Nat /\ c.n = k /\ c.n \in Nat
      BY DEF Lesser
<1>2. \E U : s \in Seq(U)
  <2>1. CASE v.domain = "graph"
        BY <2>1, ValueOf, ValueKinds
  <2>2. CASE v.domain \in Sides
        BY <2>2, ValueOf, ValueKinds
  <2>3. QED BY <2>1, <2>2, ValueOf DEF Sides
<1>3. x = [domain |-> v.domain, items |-> Firsts(m, s), rows |-> Within(v.rows, Firsts(m, s)), cols |-> v.cols]
      /\ x \in Values
      BY CutIs
<1>4. Cut(v, c) = [domain |-> v.domain, items |-> Firsts(k, s), rows |-> Within(v.rows, Firsts(k, s)), cols |-> v.cols]
      BY <1>1, CutIs
<1> HIDE DEF x
<1>5. x.domain = v.domain /\ x.items = Firsts(m, s) /\ x.rows = Within(v.rows, Firsts(m, s)) /\ x.cols = v.cols
      BY <1>3
<1>6. Ok(x) /\ x.domain # "pattern"
      BY <1>5 DEF Ok
<1>7. Cut(x, b) = [domain |-> v.domain, items |-> Firsts(n, Firsts(m, s)),
                   rows |-> Within(Within(v.rows, Firsts(m, s)), Firsts(n, Firsts(m, s))), cols |-> v.cols]
      BY <1>3, <1>5, <1>6, CutIs
<1> HIDE DEF s, k
<1>8. Firsts(n, Firsts(m, s)) = Firsts(k, s) /\ ToSet(Firsts(n, Firsts(m, s))) \subseteq ToSet(Firsts(m, s))
  <2>1. PICK U : s \in Seq(U)
        BY <1>2
  <2>2. Firsts(n, Firsts(m, s)) = Firsts(k, s)
        BY <2>1, FirstsTwice DEF k
  <2> DEFINE t == Firsts(m, s)
  <2>3. t \in Seq(U)
        BY <2>1, FirstsAre
  <2> HIDE DEF t
  <2>4. ToSet(Firsts(n, t)) \subseteq ToSet(t)
        BY <2>3, FirstsAre
  <2>5. QED BY <2>2, <2>4 DEF t
<1>9. Within(Within(v.rows, Firsts(m, s)), Firsts(k, s)) = Within(v.rows, Firsts(k, s))
      BY <1>8 DEF Within
<1>10. QED BY <1>4, <1>7, <1>8, <1>9 DEF x

\* What an operator makes of a value is a value.
LEMMA MeaningTyped ==
    ASSUME NEW v \in Values, NEW o \in Ops
    PROVE  Meaning(v, o) \in Values
<1>1. CASE ~Ok(v)
      BY <1>1, FailureStays
<1>2. CASE Ok(v)
  <2>1. CASE o.op = "filter"
    <3>1. Meaning(v, o) = FilterMeans(v, o) /\ o \in Filters
          BY <1>2, <2>1, MeaningIs, OpKinds
    <3>2. CASE HasFrame(v, o.of)
          BY <3>1, <3>2, FilterMeansIs DEF Values, Sides
    <3>3. CASE ~HasFrame(v, o.of)
          BY <3>1, <3>3 DEF FilterMeans, Values
    <3>4. QED BY <3>2, <3>3
  <2>2. CASE o.op = "project"
    <3>1. Meaning(v, o) = ProjectMeans(v, o) /\ o \in Projects
          BY <1>2, <2>2, MeaningIs, OpKinds
    <3>2. CASE HasFrame(v, o.of)
          BY <3>1, <3>2, ProjectMeansIs DEF Values, Sides
    <3>3. CASE ~HasFrame(v, o.of)
          BY <3>1, <3>3 DEF ProjectMeans, Values
    <3>4. QED BY <3>2, <3>3
  <2>3. CASE o.op = "match"
    <3>1. Meaning(v, o) = MatchMeans(v, o)
          BY <1>2, <2>3, MeaningIs
    <3>2. CASE HasFrame(v, "nodes")
          BY <3>1, <3>2, MatchMeansIs DEF Values
    <3>3. CASE ~HasFrame(v, "nodes")
          BY <3>1, <3>3 DEF MatchMeans, Values
    <3>4. QED BY <3>2, <3>3
  <2>4. CASE o.op = "expand"
        BY <1>2, <2>4, MeaningIs, ExpandedTyped DEF Values
  <2>5. CASE o.op = "aggregate"
        BY <1>2, <2>5, MeaningIs, AggregatedTyped DEF Values
  <2>6. CASE o.op = "sort"
    <3>1. Meaning(v, o) = Sorted(v, o)
          BY <1>2, <2>6, MeaningIs
    <3>2. CASE Sorted(v, o) = Error
          BY <3>1, <3>2 DEF Values
    <3>3. CASE Sorted(v, o) # Error
          BY <3>1, <3>3, SortedTyped DEF Values, Sides
    <3>4. QED BY <3>2, <3>3
  <2>7. ASSUME o.n \in Nat PROVE Cut(v, o) \in Values
    <3>1. CASE v.domain = "pattern"
          BY <3>1, CutPattern DEF Values
    <3>2. CASE v.domain # "pattern"
          BY <1>2, <2>7, <3>2, CutIs
    <3>3. QED BY <3>1, <3>2
  <2>8. CASE o.op = "limit"
    <3>1. o.n \in Nat
          BY <2>8, OpKinds DEF Limits
    <3>2. QED BY <1>2, <2>7, <2>8, <3>1, MeaningIs
  <2>9. CASE o.op = "hint"
    <3>1. o.n \in Nat
          BY <2>9, OpKinds DEF Hints
    <3>2. QED BY <1>2, <2>7, <2>9, <3>1, MeaningIs
  <2>10. QED BY <2>1, <2>2, <2>3, <2>4, <2>5, <2>6, <2>8, <2>9, OpKinds
<1>3. QED BY <1>1, <1>2

\* The executor makes of a value what the operator means, or fails.
LEMMA ApplyMeansOrFails ==
    ASSUME NEW v, Ok(v), NEW o \in Ops
    PROVE  Apply(v, o) \in {Meaning(v, o), Error, Panic}
<1>1. CASE o.op = "filter"
      BY <1>1, ApplyIs, MeaningIs DEF Filtered, FilterMeans
<1>2. CASE o.op = "project"
  <2>1. CASE HasFrame(v, o.of) /\ o.cols \subseteq Frame(v, o.of).cols
    <3>1. Frame(v, o.of).cols \cap o.cols = o.cols
          BY <2>1
    <3>2. QED BY <1>2, <2>1, <3>1, ApplyIs, MeaningIs DEF Projected, ProjectMeans
  <2>2. CASE ~(HasFrame(v, o.of) /\ o.cols \subseteq Frame(v, o.of).cols)
        BY <1>2, <2>2, ApplyIs DEF Projected
  <2>3. QED BY <2>1, <2>2
<1>3. CASE o.op = "match"
  <2> DEFINE found == Steps(ToSet(Frame(v, "nodes").items))
             R     == {r \in found : \A c \in o.where : Bound(c, r) \in c.atom.holds}
             w     == [NotYet EXCEPT !.domain = "pattern", !.rows = R]
             fails == ~HasFrame(v, "nodes") \/ \E r \in found, c \in o.where : Errs({c.atom}, Bound(c, r), Columns["nodes"])
  <2>1. Matched(v, o) = IF fails THEN Error ELSE w
        BY DEF Matched
  <2>2. MatchMeans(v, o) = IF HasFrame(v, "nodes") THEN w ELSE Error
        BY DEF MatchMeans
  <2>3. ~fails => HasFrame(v, "nodes")
        OBVIOUS
  <2> HIDE DEF w, fails
  <2>4. Matched(v, o) \in {MatchMeans(v, o), Error}
        BY <2>1, <2>2, <2>3
  <2>5. QED BY <1>3, <2>4, ApplyIs, MeaningIs
<1>4. CASE o.op = "hint"
      BY <1>4, ApplyIs, MeaningIs DEF Hinted
<1>5. CASE o.op \in {"expand", "aggregate", "sort", "limit"}
      BY <1>5, ApplyIs
<1>6. QED BY <1>1, <1>2, <1>3, <1>4, <1>5, OpKinds

\* What the executor makes of a value is a value.
LEMMA ApplyTyped ==
    ASSUME NEW v \in Values, NEW o \in Ops
    PROVE  Apply(v, o) \in Values
<1>1. CASE Ok(v)
      BY <1>1, ApplyMeansOrFails, MeaningTyped DEF Values
<1>2. CASE ~Ok(v)
      BY <1>2, FailureStays
<1>3. QED BY <1>1, <1>2

\* What a plan returns is a value.
LEMMA OutcomeTyped ==
    ASSUME NEW p \in Seq(Ops)
    PROVE  Fold(Of("outcome"), p) \in Values
<1> DEFINE T == {q \in Seq(Ops) : Fold(Of("outcome"), q) \in Values}
<1>1. <<>> \in T
      BY FoldEmpty, StepIs, SourceIsGraph, EmptySeq DEF Values
<1>2. ASSUME NEW q \in Seq(Ops), q \in T, NEW o \in Ops PROVE Append(q, o) \in T
  <2>1. Fold(Of("outcome"), Append(q, o)) = Apply(Fold(Of("outcome"), q), o)
        BY FoldAppend, StepIs
  <2>2. Append(q, o) \in Seq(Ops)
        BY AppendProperties
  <2>3. QED BY <1>2, <2>1, <2>2, ApplyTyped
<1>3. Seq(Ops) \subseteq T
  <2> HIDE DEF T
  <2>1. QED BY <1>1, <1>2, ListInduction
<1>4. QED BY <1>3

-----------------------------------------------------------------------------
(* Plans, and what the passes do at the end of one. *)

\* The last operator of a plan, and what is below it.
LEMMA EndOf ==
    ASSUME NEW U, NEW s \in Seq(U), NEW x \in U
    PROVE  /\ Append(s, x) \in Seq(U) /\ Append(s, x) # <<>>
           /\ Last(Append(s, x)) = x /\ Front(Append(s, x)) = s
           /\ \A op : Over(Append(s, x), op) <=> x.op = op
<1> DEFINE t == Append(s, x)
<1>1. /\ t \in Seq(U) /\ t # <<>> /\ Len(t) = Len(s) + 1 /\ t[Len(s) + 1] = x /\ Len(s) \in Nat
      /\ \A i \in 1..Len(s) : t[i] = s[i]
      BY AppendProperties, LenProperties
<1> HIDE DEF t
<1>2. Last(t) = x
      BY <1>1 DEF Last
<1>3. Front(t) = s
  <2> DEFINE w == SubSeq(t, 1, Len(s))
  <2>1. w \in Seq(U) /\ Len(w) = Len(s) /\ \A i \in 1..Len(s) : w[i] = t[i]
        BY <1>1
  <2> HIDE DEF w
  <2>2. w = s
        BY <1>1, <2>1, SeqEqual
  <2>3. Len(t) - 1 = Len(s)
        BY <1>1
  <2>4. QED BY <2>2, <2>3 DEF Front, w
<1>4. QED BY <1>1, <1>2, <1>3 DEF Over, t

\* The last operator of a plan is exchanged for another.
LEMMA ReplaceEnd ==
    ASSUME NEW U, NEW s \in Seq(U), NEW x \in U, NEW y \in U
    PROVE  [Append(s, x) EXCEPT ![Len(Append(s, x))] = y] = Append(s, y)
<1> DEFINE t == Append(s, x)
           n == Len(s) + 1
           w == [t EXCEPT ![n] = y]
           z == Append(s, y)
<1>1. /\ t \in Seq(U) /\ Len(t) = n /\ Len(s) \in Nat /\ \A i \in 1..Len(s) : t[i] = s[i]
      /\ z \in Seq(U) /\ Len(z) = n /\ z[n] = y /\ \A i \in 1..Len(s) : z[i] = s[i]
      BY AppendProperties, LenProperties
<1> HIDE DEF t, z
<1>2. w \in Seq(U) /\ Len(w) = n /\ \A i \in 1..n : w[i] = IF i = n THEN y ELSE t[i]
  <2>1. n \in 1..Len(t) /\ DOMAIN t = 1..n
        BY <1>1, LenProperties
  <2>2. w \in Seq(U) /\ Len(w) = Len(t)
        BY <1>1, <2>1, ExceptSeq
  <2>3. QED BY <1>1, <2>1, <2>2
<1> HIDE DEF w
<1>3. \A i \in 1..n : w[i] = z[i]
      BY <1>1, <1>2
<1>4. w = z
      BY <1>1, <1>2, <1>3, SeqEqual
<1>5. QED BY <1>1, <1>4 DEF t, w, z

\* The greatest of some places.
LEMMA GreatestPlace ==
    ASSUME NEW n \in Nat, NEW S \in SUBSET (1..n), S # {}
    PROVE  Max(S) \in S /\ \A y \in S : Max(S) >= y
<1> DEFINE T == {j \in Nat : \E x \in S : j = n - x}
<1>1. T \in SUBSET Nat /\ T # {}
  <2>1. PICK x \in S : TRUE
        OBVIOUS
  <2>2. x \in 1..n
        OBVIOUS
  <2>3. n - x \in T
        BY <2>2
  <2>4. QED BY <2>3
<1>2. \A x \in S : x \in Nat /\ x <= n /\ n - x \in T
      OBVIOUS
<1>3. \A j \in T : \E x \in S : j = n - x
      OBVIOUS
<1> HIDE DEF T
<1>4. PICK j \in T : \A i \in T : j <= i
      BY <1>1, LeastNat
<1>5. PICK x \in S : j = n - x
      BY <1>3
<1>6. \A y \in S : x >= y
  <2> TAKE y \in S
  <2>1. j <= n - y
        BY <1>2, <1>4
  <2>2. QED BY <1>2, <1>5, <2>1
<1>7. QED BY <1>6 DEF Max

Stops(done, f)  == {i \in DOMAIN done : ~Covers(done[i], f)}
StopAt(done, f) == IF Stops(done, f) = {} THEN 0 ELSE Max(Stops(done, f))
Joined(o, f)    == [o EXCEPT !.pred = @ \cup f.pred]

\* Where a filter stops on its way down: at the last operator that does not cover it.
LEMMA StopIs ==
    ASSUME NEW U, NEW d \in Seq(U), NEW f
    PROVE  /\ StopAt(d, f) \in 0..Len(d)
           /\ \A o \in U : StopAt(Append(d, o), f) = IF Covers(o, f) THEN StopAt(d, f) ELSE Len(d) + 1
           /\ StopAt(<<>>, f) = 0
<1>1. DOMAIN d = 1..Len(d) /\ Len(d) \in Nat
      BY LenProperties
<1>2. StopAt(d, f) \in 0..Len(d)
  <2>1. CASE Stops(d, f) = {}
        BY <1>1, <2>1 DEF StopAt
  <2>2. CASE Stops(d, f) # {}
    <3> DEFINE S == Stops(d, f)
               n == Len(d)
    <3>1. S \in SUBSET (1..n) /\ n \in Nat /\ S # {}
          BY <1>1, <2>2 DEF Stops
    <3>2. StopAt(d, f) = Max(S)
          BY <2>2 DEF StopAt
    <3> HIDE DEF S, n
    <3>3. Max(S) \in 1..n
          BY <3>1, GreatestPlace
    <3>4. QED BY <3>1, <3>2, <3>3 DEF n
  <2>3. QED BY <2>1, <2>2
<1>3. ASSUME NEW o \in U
      PROVE  StopAt(Append(d, o), f) = IF Covers(o, f) THEN StopAt(d, f) ELSE Len(d) + 1
  <2> DEFINE t == Append(d, o)
             n == Len(d) + 1
             S == Stops(t, f)
  <2>1. t \in Seq(U) /\ Len(t) = n /\ t[n] = o /\ \A i \in 1..Len(d) : t[i] = d[i]
        BY AppendProperties
  <2>2. DOMAIN t = 1..n
        BY <2>1, LenProperties
  <2> HIDE DEF t
  <2>3. CASE Covers(o, f)
    <3>1. S = Stops(d, f)
      <4>1. \A i \in 1..n : i = n \/ i \in 1..Len(d)
            BY <1>1
      <4>2. \A i \in 1..Len(d) : i \in 1..n
            BY <1>1
      <4>3. QED BY <1>1, <2>1, <2>2, <2>3, <4>1, <4>2 DEF Stops
    <3>2. QED BY <2>3, <3>1 DEF StopAt, t
  <2>4. CASE ~Covers(o, f)
    <3>1. n \in S /\ S \in SUBSET (1..n) /\ n \in Nat
          BY <1>1, <2>1, <2>2, <2>4 DEF Stops
    <3>2. StopAt(t, f) = Max(S)
          BY <3>1 DEF StopAt
    <3> HIDE DEF S, n
    <3>3. Max(S) \in 1..n /\ Max(S) >= n
          BY <3>1, GreatestPlace
    <3>4. Max(S) = n
          BY <3>1, <3>3
    <3>5. QED BY <2>4, <3>2, <3>4 DEF n, t
  <2>5. QED BY <2>3, <2>4
<1>4. StopAt(<<>>, f) = 0
      BY DEF StopAt, Stops
<1>5. QED BY <1>2, <1>3, <1>4

\* Pushed in these words.
LEMMA PushedIs ==
    ASSUME NEW d, NEW f
    PROVE  Pushed(d, f) = IF StopAt(d, f) > 0 /\ IsOn(d[StopAt(d, f)], "filter", f.of)
                          THEN [d EXCEPT ![StopAt(d, f)] = Joined(@, f)]
                          ELSE InsertAt(d, StopAt(d, f) + 1, f)
<1>1. Pushed(d, f) = IF StopAt(d, f) > 0 /\ IsOn(d[StopAt(d, f)], "filter", f.of)
                     THEN [d EXCEPT ![StopAt(d, f)].pred = @ \cup f.pred]
                     ELSE InsertAt(d, StopAt(d, f) + 1, f)
      BY DEF Pushed, StopAt, Stops
<1>2. [d EXCEPT ![StopAt(d, f)].pred = @ \cup f.pred] = [d EXCEPT ![StopAt(d, f)] = Joined(@, f)]
      BY DEF Joined
<1>3. QED BY <1>1, <1>2

\* A filter on its way down: at the bottom, past a projection, at a filter, and
\* above what it neither passes nor joins.
LEMMA PushedEmpty ==
    ASSUME NEW f
    PROVE  Pushed(<<>>, f) = <<f>>
<1>1. StopAt(<<>>, f) = 0
      BY DEF StopAt, Stops
<1>2. Pushed(<<>>, f) = InsertAt(<<>>, 1, f)
      BY <1>1, PushedIs
<1>3. InsertAt(<<>>, 1, f) = <<f>>
  <2> DEFINE e == <<>>
             t == <<f>>
  <2>1. Len(e) = 0 /\ t \in Seq({f})
        BY EmptySeq
  <2> HIDE DEF e
  <2>2. InsertAt(e, 1, f) = SubSeq(e, 1, 0) \o t \o SubSeq(e, 1, 0)
        BY <2>1 DEF InsertAt
  <2>3. SubSeq(e, 1, 0) = <<>>
        BY SubSeqEmpty
  <2> HIDE DEF t
  <2>4. t \o <<>> = t /\ <<>> \o t = t
        BY <2>1, ConcatEmptySeq
  <2>5. QED BY <2>2, <2>3, <2>4 DEF e, t
<1>4. QED BY <1>2, <1>3

\* A filter stays on top of what does not cover it, and joins a filter of its frame;
LEMMA PushedStops ==
    ASSUME NEW U, NEW d \in Seq(U), NEW o \in U, NEW f \in U, ~Covers(o, f)
    PROVE  /\ IsOn(o, "filter", f.of) /\ Joined(o, f) \in U => Pushed(Append(d, o), f) = Append(d, Joined(o, f))
           /\ ~IsOn(o, "filter", f.of) => Pushed(Append(d, o), f) = Append(Append(d, o), f)
<1> DEFINE t == Append(d, o)
           n == Len(d) + 1
<1>1. t \in Seq(U) /\ Len(t) = n /\ t[n] = o /\ n \in Nat /\ n > 0
      BY AppendProperties, LenProperties
<1>2. StopAt(t, f) = n
      BY StopIs
<1>3. Pushed(t, f) = IF IsOn(o, "filter", f.of) THEN [t EXCEPT ![n] = Joined(@, f)] ELSE InsertAt(t, n + 1, f)
  <2> HIDE DEF t, n
  <2>1. QED BY <1>1, <1>2, PushedIs
<1>4. ASSUME IsOn(o, "filter", f.of), Joined(o, f) \in U PROVE Pushed(t, f) = Append(d, Joined(o, f))
  <2>1. [t EXCEPT ![n] = Joined(@, f)] = [t EXCEPT ![Len(t)] = Joined(o, f)]
        BY <1>1
  <2>2. [t EXCEPT ![Len(t)] = Joined(o, f)] = Append(d, Joined(o, f))
    <3> DEFINE y == Joined(o, f)
    <3>1. y \in U
          BY <1>4
    <3> HIDE DEF y
    <3>2. [t EXCEPT ![Len(t)] = y] = Append(d, y)
          BY <3>1, ReplaceEnd
    <3>3. QED BY <3>2 DEF y
  <2>3. QED BY <1>3, <1>4, <2>1, <2>2
<1>5. ASSUME ~IsOn(o, "filter", f.of) PROVE Pushed(t, f) = Append(t, f)
  <2> HIDE DEF t, n
  <2>1. InsertAt(t, n + 1, f) = SubSeq(t, 1, n) \o <<f>> \o SubSeq(t, n + 1, n)
        BY <1>1 DEF InsertAt
  <2>2. SubSeq(t, 1, n) = t
        BY <1>1, SubSeqFull
  <2>3. SubSeq(t, n + 1, n) = <<>>
        BY <1>1, SubSeqEmpty
  <2>4. Append(t, f) = t \o <<f>> /\ Append(t, f) \in Seq(U)
        BY <1>1, AppendIsConcat, AppendProperties
  <2> DEFINE z == Append(t, f)
  <2>5. z \in Seq(U)
        BY <2>4
  <2> HIDE DEF z
  <2>6. z \o <<>> = z
        BY <2>5, ConcatEmptySeq
  <2>7. QED BY <1>3, <1>5, <2>1, <2>2, <2>3, <2>4, <2>6 DEF z
<1>6. QED BY <1>4, <1>5

Joins(W) == \A s, t, u \in W : (s \o t) \o u = s \o (t \o u)

\* Lists can be joined from either end.
LEMMA ConcatThree == \A S : Joins(Seq(S))
BY ConcatAssociative, Zenon DEF Joins

Appends(W, U) == \A s, t \in W : \A f, o \in U : Append(s \o <<f>> \o t, o) = s \o <<f>> \o Append(t, o)

\* An item can be put on a list before or after the list is joined to others.
LEMMA AppendToJoined == \A U : Appends(Seq(U), U)
<1>1. SUFFICES ASSUME NEW U, NEW a \in Seq(U), NEW b \in Seq(U), NEW f \in U, NEW o \in U
               PROVE  Append(a \o <<f>> \o b, o) = a \o <<f>> \o Append(b, o)
      BY DEF Appends
<1> DEFINE m == a \o <<f>>
           e == <<o>>
           W == Seq(U)
<1>2. m \in W /\ e \in W /\ b \in W
      BY ConcatProperties
<1>3. Joins(W)
      BY ConcatThree
<1> HIDE DEF m, e
<1>4. m \o b \in W
      BY <1>2, ConcatProperties
<1>5. Append(m \o b, o) = (m \o b) \o e
      BY <1>4, AppendIsConcat DEF e
<1>6. b \o e = Append(b, o)
      BY AppendIsConcat DEF e
<1> HIDE DEF W
<1>7. (m \o b) \o e = m \o (b \o e)
      BY <1>2, <1>3 DEF Joins
<1>8. QED BY <1>5, <1>6, <1>7 DEF m

FiltersJoinIn(U, f) == \A x \in U : IsOn(x, "filter", f.of) => Joined(x, f) \in U

\* and goes below what covers it.
LEMMA PushedPast ==
    ASSUME NEW U, NEW d \in Seq(U), NEW o \in U, NEW f \in U, Covers(o, f),
           FiltersJoinIn(U, f)
    PROVE  Pushed(Append(d, o), f) = Append(Pushed(d, f), o)
<1> DEFINE t == Append(d, o)
           n == Len(d)
           k == StopAt(d, f)
<1>1. t \in Seq(U) /\ Len(t) = n + 1 /\ t[n + 1] = o /\ n \in Nat /\ \A i \in 1..n : t[i] = d[i]
      BY AppendProperties, LenProperties
<1>2. StopAt(t, f) = k /\ k \in 0..n /\ k \in Nat
      BY StopIs
<1> HIDE DEF t, k
<1>3. CASE k > 0 /\ IsOn(d[k], "filter", f.of)
  <2> DEFINE y == Joined(d[k], f)
             p == [d EXCEPT ![k] = y]
             q == [t EXCEPT ![k] = y]
             z == Append(p, o)
  <2>1. k \in 1..n /\ t[k] = d[k] /\ d[k] \in U /\ k \in 1..Len(t)
        BY <1>1, <1>2, <1>3, ElementOfSeq
  <2>2. Pushed(d, f) = p /\ Pushed(t, f) = q
        BY <1>2, <1>3, <2>1, PushedIs DEF k
  <2>3. y \in U
        BY <1>3, <2>1 DEF FiltersJoinIn
  <2> HIDE DEF y
  <2>4. p \in Seq(U) /\ Len(p) = n /\ \A i \in 1..n : p[i] = IF i = k THEN y ELSE d[i]
    <3>1. DOMAIN d = 1..n
          BY LenProperties
    <3>2. p \in Seq(U) /\ Len(p) = n
          BY <2>1, <2>3, ExceptSeq
    <3>3. QED BY <3>1, <3>2
  <2>5. q \in Seq(U) /\ Len(q) = n + 1 /\ \A i \in 1..(n + 1) : q[i] = IF i = k THEN y ELSE t[i]
    <3>1. DOMAIN t = 1..(n + 1)
          BY <1>1, LenProperties
    <3>2. q \in Seq(U) /\ Len(q) = n + 1
          BY <1>1, <2>1, <2>3, ExceptSeq
    <3>3. QED BY <3>1, <3>2
  <2> HIDE DEF p, q, n
  <2>6. z \in Seq(U) /\ Len(z) = n + 1 /\ z[n + 1] = o /\ \A i \in 1..n : z[i] = p[i]
        BY <2>4, AppendProperties
  <2> HIDE DEF z
  <2>7. \A i \in 1..(n + 1) : q[i] = z[i]
    <3> TAKE i \in 1..(n + 1)
    <3>1. CASE i = n + 1
          BY <1>1, <2>1, <2>5, <2>6, <3>1
    <3>2. CASE i \in 1..n
          BY <1>1, <2>4, <2>5, <2>6, <3>2
    <3>3. QED BY <1>1, <3>1, <3>2
  <2>8. q = z
        BY <2>5, <2>6, <2>7, SeqEqual
  <2>9. QED BY <2>2, <2>8 DEF z, t
<1>4. CASE ~(k > 0 /\ IsOn(d[k], "filter", f.of))
  <2> DEFINE a == SubSeq(d, 1, k)
             b == SubSeq(d, k + 1, n)
             c == SubSeq(t, k + 1, n + 1)
  <2>1. k > 0 => t[k] = d[k]
        BY <1>1, <1>2
  <2>2. Pushed(d, f) = InsertAt(d, k + 1, f) /\ Pushed(t, f) = InsertAt(t, k + 1, f)
    <3>1. Pushed(d, f) = InsertAt(d, k + 1, f)
          BY <1>4, PushedIs DEF k
    <3>2. Pushed(t, f) = InsertAt(t, k + 1, f)
          BY <1>2, <1>4, <2>1, PushedIs
    <3>3. QED BY <3>1, <3>2
  <2>3. InsertAt(d, k + 1, f) = a \o <<f>> \o b
    <3>1. (k + 1) - 1 = k
          BY <1>2
    <3> HIDE DEF n
    <3>2. InsertAt(d, k + 1, f) = SubSeq(d, 1, k) \o <<f>> \o SubSeq(d, k + 1, Len(d))
          BY <3>1 DEF InsertAt
    <3>3. QED BY <3>2 DEF n
  <2>4. InsertAt(t, k + 1, f) = SubSeq(t, 1, k) \o <<f>> \o c
        BY <1>1, <1>2 DEF InsertAt
  <2>5. a \in Seq(U) /\ Len(a) = k /\ (\A i \in 1..k : a[i] = d[i])
        BY <1>1, <1>2
  <2>6. b \in Seq(U) /\ Len(b) = n - k /\ (\A i \in 1..(n - k) : b[i] = d[k + i])
        BY <1>1, <1>2
  <2>7. c \in Seq(U) /\ Len(c) = n + 1 - k /\ (\A i \in 1..(n + 1 - k) : c[i] = t[k + i])
        BY <1>1, <1>2
  <2>8. SubSeq(t, 1, k) = a
    <3> DEFINE w == SubSeq(t, 1, k)
    <3>1. w \in Seq(U) /\ Len(w) = k /\ (\A i \in 1..k : w[i] = t[i])
          BY <1>1, <1>2
    <3> HIDE DEF w, a
    <3>2. \A i \in 1..k : w[i] = a[i]
          BY <1>1, <1>2, <2>5, <3>1
    <3>3. w = a
          BY <2>5, <3>1, <3>2, SeqEqual
    <3>4. QED BY <3>3 DEF w
  <2> HIDE DEF a, b, c
  <2>9. c = Append(b, o)
    <3> DEFINE w == Append(b, o)
    <3>1. w \in Seq(U) /\ Len(w) = n - k + 1 /\ w[n - k + 1] = o /\ \A i \in 1..(n - k) : w[i] = b[i]
          BY <1>1, <1>2, <2>6, AppendProperties
    <3> HIDE DEF w
    <3>2. \A i \in 1..(n + 1 - k) : w[i] = c[i]
      <4> TAKE i \in 1..(n + 1 - k)
      <4>1. CASE i = n - k + 1
            BY <1>1, <1>2, <2>7, <3>1, <4>1
      <4>2. CASE i \in 1..(n - k)
        <5>1. k + i \in 1..n
              BY <1>1, <1>2, <4>2
        <5>2. QED BY <1>1, <2>6, <2>7, <3>1, <4>2, <5>1
      <4>3. QED BY <1>1, <1>2, <4>1, <4>2
    <3>3. w = c
      <4>1. w \in Seq(U) /\ c \in Seq(U) /\ Len(w) = n + 1 - k /\ Len(c) = n + 1 - k
            BY <1>1, <1>2, <2>7, <3>1
      <4>2. QED BY <3>2, <4>1, SeqEqual
    <3>4. QED BY <3>3 DEF w
  <2>10. Append(a \o <<f>> \o b, o) = a \o <<f>> \o c
    <3>1. a \in Seq(U) /\ b \in Seq(U)
          BY <2>5, <2>6
    <3> DEFINE W == Seq(U)
    <3>2. Appends(W, U)
          BY AppendToJoined
    <3> HIDE DEF W
    <3>3. a \in W /\ b \in W /\ f \in U /\ o \in U
          BY <3>1 DEF W
    <3>4. \A z \in W : \A g, p \in U : Append(a \o <<g>> \o z, p) = a \o <<g>> \o Append(z, p)
          BY ONLY <3>2, <3>3, Zenon DEF Appends
    <3>5. Append(a \o <<f>> \o b, o) = a \o <<f>> \o Append(b, o)
          BY ONLY <3>3, <3>4, Zenon
    <3>6. QED BY <2>9, <3>5
  <2>11. QED BY <2>2, <2>3, <2>4, <2>8, <2>10 DEF t
<1>5. QED BY <1>3, <1>4

-----------------------------------------------------------------------------
(* Plans that mean the same. *)

M(p) == Fold(Of("meaning"), p)

\* They return the same and end the same, and the second is careful if the first is.
Alike(s, t) == s.v = t.v /\ s.last = t.last /\ (s.careful => t.careful)
\* And a node filter above them meets an expansion in both or in none.
Agree(s, t) == Alike(s, t) /\ (s.open <=> t.open) /\ (s.met <=> t.met)

Names(pred) == UNION {a.cols : a \in pred}

\* What one more operator does to what a plan means.
LEMMA GoIs ==
    ASSUME NEW s, NEW o
    PROVE  /\ Go(s, o).v = Meaning(s.v, o)
           /\ Go(s, o).open <=> o.op = "expand" \/ (OnNodes(o) /\ s.open)
           /\ Go(s, o).met <=> s.met \/ (IsOn(o, "filter", "nodes") /\ s.open)
           /\ Go(s, o).last = IF o.op \in {"sort", "limit"} THEN o.op ELSE "other"
           /\ Go(s, o).careful <=> s.careful /\ CarefulOn(s, o)
BY DEF Go

\* What it takes an operator to be careful, operator by operator.
LEMMA CarefulIs ==
    ASSUME NEW s, NEW o
    PROVE  /\ o.op = "filter" => (CarefulOn(s, o) <=>
                 /\ \A a \in o.pred : a.fails = {}
                 /\ HasFrame(s.v, o.of) => Names(o.pred) \subseteq Frame(s.v, o.of).cols)
           /\ o.op = "project" => (CarefulOn(s, o) <=> (HasFrame(s.v, o.of) => o.cols \subseteq Frame(s.v, o.of).cols))
           /\ o.op = "match" => (CarefulOn(s, o) <=>
                 /\ \A c \in o.where : c.atom.fails = {}
                 /\ HasFrame(s.v, "nodes") => Names({c.atom : c \in o.where}) \subseteq Frame(s.v, "nodes").cols
                 /\ Names({c.atom : c \in o.where}) \subseteq Columns["nodes"])
           /\ o.op = "limit" => (CarefulOn(s, o) <=> (s.last # "other" => o.n > 0))
           /\ o.op = "hint" => (CarefulOn(s, o) <=> (o.kind = "TopK" \/ s.last # "other" => o.n > 0))
           /\ o.op \in {"expand", "aggregate", "sort"} => CarefulOn(s, o)
<1>1. ASSUME o.op = "filter"
      PROVE  CarefulOn(s, o) <=> /\ \A a \in o.pred : a.fails = {}
                                 /\ HasFrame(s.v, o.of) => Names(o.pred) \subseteq Frame(s.v, o.of).cols
  <2>1. AtomsOf(o) = o.pred /\ SideOf(o) = o.of
        BY <1>1 DEF AtomsOf, SideOf
  <2>2. Named(o) = Names(o.pred)
        BY <1>1, <2>1 DEF Named, Names
  <2>3. QED BY <1>1, <2>1, <2>2 DEF CarefulOn
<1>2. ASSUME o.op = "project"
      PROVE  CarefulOn(s, o) <=> (HasFrame(s.v, o.of) => o.cols \subseteq Frame(s.v, o.of).cols)
  <2>1. AtomsOf(o) = {} /\ SideOf(o) = o.of /\ Named(o) = o.cols
        BY <1>2 DEF AtomsOf, SideOf, Named
  <2>2. QED BY <1>2, <2>1 DEF CarefulOn
<1>3. ASSUME o.op = "match"
      PROVE  CarefulOn(s, o) <=>
                 /\ \A c \in o.where : c.atom.fails = {}
                 /\ HasFrame(s.v, "nodes") => Names({c.atom : c \in o.where}) \subseteq Frame(s.v, "nodes").cols
                 /\ Names({c.atom : c \in o.where}) \subseteq Columns["nodes"]
  <2>1. AtomsOf(o) = {c.atom : c \in o.where} /\ SideOf(o) = "nodes"
        BY <1>3 DEF AtomsOf, SideOf
  <2>2. Named(o) = Names({c.atom : c \in o.where})
        BY <1>3, <2>1 DEF Named, Names
  <2>3. (\A a \in AtomsOf(o) : a.fails = {}) <=> \A c \in o.where : c.atom.fails = {}
        BY <2>1
  <2>4. QED BY <1>3, <2>1, <2>2, <2>3 DEF CarefulOn
<1>4. ASSUME o.op \in {"limit", "hint", "expand", "aggregate", "sort"}
      PROVE  AtomsOf(o) = {}
      BY <1>4 DEF AtomsOf
<1>5. QED BY <1>1, <1>2, <1>3, <1>4 DEF CarefulOn

\* Plans may be exchanged one after the other.
LEMMA AgreeIsAnEquivalence ==
    /\ \A s : Agree(s, s) /\ Alike(s, s)
    /\ \A s, t, u : Agree(s, t) /\ Agree(t, u) => Agree(s, u)
    /\ \A s, t, u : Alike(s, t) /\ Alike(t, u) => Alike(s, u)
    /\ \A s, t : Agree(s, t) => Alike(s, t)
BY DEF Agree, Alike

\* What is alike stays alike under the same operator.
LEMMA GoKeepsAlike ==
    ASSUME NEW s, NEW t, NEW o
    PROVE  /\ Alike(s, t) => Alike(Go(s, o), Go(t, o))
           /\ Agree(s, t) => Agree(Go(s, o), Go(t, o))
<1>1. s.v = t.v /\ s.last = t.last => (CarefulOn(s, o) <=> CarefulOn(t, o))
      BY DEF CarefulOn
<1>2. Alike(s, t) => Alike(Go(s, o), Go(t, o))
      BY <1>1, GoIs DEF Alike
<1>3. QED BY <1>2, GoIs DEF Agree

\* What a plan means, operator by operator,
LEMMA MeaningFolds ==
    /\ M(<<>>) = Begin
    /\ \A p \in Seq(Ops), o \in Ops : M(Append(p, o)) = Go(M(p), o)
<1>1. M(<<>>) = Begin
      BY FoldEmpty, StepIs DEF M
<1>2. ASSUME NEW p \in Seq(Ops), NEW o \in Ops PROVE M(Append(p, o)) = Go(M(p), o)
      BY FoldAppend, StepIs DEF M
<1>3. QED BY <1>1, <1>2

\* is a value.
LEMMA MeansValue ==
    ASSUME NEW p \in Seq(Ops)
    PROVE  M(p).v \in Values
<1> DEFINE T == {q \in Seq(Ops) : M(q).v \in Values}
<1>1. <<>> \in T
  <2>1. Begin.v = Source
        BY DEF Begin
  <2>2. QED BY <2>1, MeaningFolds, SourceIsGraph, EmptySeq DEF Values
<1>2. ASSUME NEW q \in Seq(Ops), q \in T, NEW o \in Ops PROVE Append(q, o) \in T
  <2>1. M(Append(q, o)).v = Meaning(M(q).v, o)
        BY MeaningFolds, GoIs
  <2>2. Append(q, o) \in Seq(Ops)
        BY AppendProperties
  <2>3. QED BY <1>2, <2>1, <2>2, MeaningTyped
<1>3. Seq(Ops) \subseteq T
  <2> HIDE DEF T
  <2>1. QED BY <1>1, <1>2, ListInduction
<1>4. QED BY <1>3

\* What a filter and a projection make of a value that has their frame, and of one
\* that has not.
LEMMA FilterOf ==
    ASSUME NEW v \in Values, NEW o \in Filters
    PROVE  /\ ~HasFrame(v, o.of) => Meaning(v, o) \in {Error, Panic} /\ ~Ok(Meaning(v, o))
           /\ HasFrame(v, o.of) =>
                 /\ Meaning(v, o) \in Tables(o.of)
                 /\ Meaning(v, o).items = Kept(o.pred, Frame(v, o.of).items)
                 /\ Meaning(v, o).cols = Frame(v, o.of).cols
<1>1. o.op = "filter"
      BY DEF Filters
<1>2. CASE ~HasFrame(v, o.of)
  <2>1. CASE Ok(v)
    <3>1. Meaning(v, o) = Error
          BY <1>1, <1>2, <2>1, MeaningIs DEF FilterMeans
    <3>2. QED BY <1>2, <3>1, ValueKinds
  <2>2. CASE ~Ok(v)
        BY <1>2, <2>2, FailureStays, ValueOf
  <2>3. QED BY <2>1, <2>2
<1>3. CASE HasFrame(v, o.of)
  <2>1. o.of \in Sides /\ Ok(v)
        BY <1>3, FilterMeansIs, FrameIs
  <2>2. Meaning(v, o) = FilterMeans(v, o)
        BY <1>1, <2>1, MeaningIs
  <2>3. QED BY <1>3, <2>2, FilterMeansIs
<1>4. QED BY <1>2, <1>3

\* The same of a projection.
LEMMA ProjectOf ==
    ASSUME NEW v \in Values, NEW o \in Projects
    PROVE  /\ ~HasFrame(v, o.of) => Meaning(v, o) \in {Error, Panic} /\ ~Ok(Meaning(v, o))
           /\ HasFrame(v, o.of) =>
                 /\ Meaning(v, o) \in Tables(o.of)
                 /\ Meaning(v, o).items = Frame(v, o.of).items
                 /\ Meaning(v, o).cols = Frame(v, o.of).cols \cap o.cols
<1>1. o.op = "project"
      BY DEF Projects
<1>2. CASE ~HasFrame(v, o.of)
  <2>1. CASE Ok(v)
    <3>1. Meaning(v, o) = Error
          BY <1>1, <1>2, <2>1, MeaningIs DEF ProjectMeans
    <3>2. QED BY <1>2, <3>1, ValueKinds
  <2>2. CASE ~Ok(v)
        BY <1>2, <2>2, FailureStays, ValueOf
  <2>3. QED BY <2>1, <2>2
<1>3. CASE HasFrame(v, o.of)
  <2>1. o.of \in Sides /\ Ok(v)
        BY <1>3, ProjectMeansIs, FrameIs
  <2>2. Meaning(v, o) = ProjectMeans(v, o)
        BY <1>1, <2>1, MeaningIs
  <2>3. QED BY <1>3, <2>2, ProjectMeansIs
<1>4. QED BY <1>2, <1>3

\* Without a frame a value stays the failure that it is, or becomes one.
LEMMA NoFrame ==
    ASSUME NEW v \in Values, NEW o, NEW f, ~HasFrame(v, o.of), f.of = o.of,
           o \in Filters \/ o \in Projects, f \in Filters \/ f \in Projects
    PROVE  Meaning(v, o) = Meaning(v, f) /\ ~Ok(Meaning(v, o))
<1>1. CASE Ok(v)
  <2>1. Meaning(v, o) = Error
        BY <1>1, MeaningIs DEF Filters, Projects, FilterMeans, ProjectMeans
  <2>2. Meaning(v, f) = Error
        BY <1>1, MeaningIs DEF Filters, Projects, FilterMeans, ProjectMeans
  <2>3. QED BY <2>1, <2>2, ValueKinds
<1>2. CASE ~Ok(v)
      BY <1>2, FailureStays
<1>3. QED BY <1>1, <1>2

\* A failure has no frame.
LEMMA FailuresHaveNoFrame ==
    ASSUME NEW v, ~Ok(v), NEW side \in Sides
    PROVE  ~HasFrame(v, side)
BY DEF Ok, HasFrame, Sides, Wants

-----------------------------------------------------------------------------
(* predicate_pushdown. *)

\* Tables that agree in their fields are the same.
LEMMA SameTable ==
    ASSUME NEW side, NEW f \in Tables(side), NEW g \in Tables(side), f.items = g.items, f.cols = g.cols
    PROVE  f = g
<1>1. f = [domain |-> side, items |-> f.items, rows |-> {}, cols |-> f.cols]
      BY TableIs
<1>2. g = [domain |-> side, items |-> g.items, rows |-> {}, cols |-> g.cols]
      BY TableIs
<1>3. QED BY <1>1, <1>2

\* A filter after a projection of the same frame means what it means before it.
LEMMA FilterPastProject ==
    ASSUME NEW s, s.v \in Values, NEW o \in Projects, NEW f \in Filters, o.of = f.of
    PROVE  Agree(Go(Go(s, o), f), Go(Go(s, f), o))
<1> DEFINE v == s.v
           side == f.of
           x == Meaning(v, o)
           y == Meaning(v, f)
           xx == Meaning(x, f)
           yy == Meaning(y, o)
<1>1. o.op = "project" /\ f.op = "filter" /\ side \in Sides /\ o \in Ops /\ f \in Ops
      BY DEF Projects, Filters, Ops, Operators
<1>2. x \in Values /\ y \in Values
      BY <1>1, MeaningTyped
<1>3. /\ Go(s, o).v = x /\ Go(s, f).v = y /\ Go(Go(s, o), f).v = xx /\ Go(Go(s, f), o).v = yy
      BY GoIs
<1>4. CASE HasFrame(v, side)
  <2> DEFINE g == Frame(v, side)
  <2>1. /\ x \in Tables(side) /\ x.items = g.items /\ x.cols = g.cols \cap o.cols
        /\ y \in Tables(side) /\ y.items = Kept(f.pred, g.items) /\ y.cols = g.cols
        BY <1>4, FilterOf, ProjectOf
  <2> HIDE DEF x, y, g, v
  <2>2. HasFrame(x, side) /\ Frame(x, side) = x /\ HasFrame(y, side) /\ Frame(y, side) = y
        BY <1>1, <2>1, TableIsValue
  <2>3. /\ xx \in Tables(side) /\ xx.items = Kept(f.pred, g.items) /\ xx.cols = g.cols \cap o.cols
        /\ yy \in Tables(side) /\ yy.items = Kept(f.pred, g.items) /\ yy.cols = g.cols \cap o.cols
        BY <1>2, <2>1, <2>2, FilterOf, ProjectOf
  <2> HIDE DEF xx, yy, side
  <2>4. xx = yy
        BY <2>3, SameTable
  <2>5. Go(Go(s, o), f).careful => Go(Go(s, f), o).careful
    <3>1. SUFFICES ASSUME Go(Go(s, o), f).careful PROVE Go(Go(s, f), o).careful
          OBVIOUS
    <3>2. s.careful /\ CarefulOn(s, o) /\ CarefulOn(Go(s, o), f)
          BY <3>1, GoIs
    <3>3. o.cols \subseteq g.cols
          BY <1>1, <1>4, <3>2, CarefulIs DEF g, v, side
    <3>4. (\A a \in f.pred : a.fails = {}) /\ Names(f.pred) \subseteq x.cols
          BY <1>1, <1>3, <2>2, <3>2, CarefulIs DEF side
    <3>5. CarefulOn(s, f)
          BY <1>1, <2>1, <3>4, CarefulIs DEF g, v, side
    <3>6. CarefulOn(Go(s, f), o)
          BY <1>1, <1>3, <2>1, <2>2, <3>3, CarefulIs DEF side
    <3>7. QED BY <3>2, <3>5, <3>6, GoIs
  <2>6. QED BY <1>1, <1>3, <2>4, <2>5, GoIs DEF Agree, Alike, OnNodes, IsOn
<1>5. CASE ~HasFrame(v, side)
  <2>1. x = y /\ ~Ok(x)
        BY <1>5, NoFrame
  <2>2. xx = x /\ yy = x
        BY <2>1, FailureStays
  <2>3. Go(Go(s, o), f).careful => Go(Go(s, f), o).careful
    <3>1. SUFFICES ASSUME Go(Go(s, o), f).careful PROVE Go(Go(s, f), o).careful
          OBVIOUS
    <3>2. s.careful /\ CarefulOn(s, o) /\ CarefulOn(Go(s, o), f)
          BY <3>1, GoIs
    <3> HIDE DEF x, y
    <3>3. ~HasFrame(x, side) /\ ~HasFrame(y, side)
          BY <1>1, <2>1, FailuresHaveNoFrame
    <3>4. \A a \in f.pred : a.fails = {}
          BY <1>1, <3>2, CarefulIs
    <3>5. CarefulOn(s, f)
          BY <1>1, <1>5, <3>4, CarefulIs
    <3>6. CarefulOn(Go(s, f), o)
          BY <1>1, <1>3, <3>3, CarefulIs
    <3>7. QED BY <3>2, <3>5, <3>6, GoIs
  <2> HIDE DEF x, y, xx, yy
  <2>4. QED BY <1>1, <1>3, <2>2, <2>3, GoIs DEF Agree, Alike, OnNodes, IsOn
<1>6. QED BY <1>4, <1>5

\* Two filters of a frame joined are a filter of that frame.
LEMMA JoinedTyped ==
    ASSUME NEW o \in Filters, NEW f \in Filters
    PROVE  Joined(o, f) \in Filters /\ Joined(o, f).of = o.of /\ Joined(o, f).pred = o.pred \cup f.pred
BY DEF Joined, Filters

\* Two filters of the same frame mean what one means with the atoms of both.
LEMMA FiltersJoin ==
    ASSUME NEW s, s.v \in Values, NEW o \in Filters, NEW f \in Filters, o.of = f.of
    PROVE  Agree(Go(Go(s, o), f), Go(s, Joined(o, f)))
<1> DEFINE v == s.v
           side == f.of
           j == Joined(o, f)
           x == Meaning(v, o)
           xx == Meaning(x, f)
           y == Meaning(v, j)
<1>1. /\ o.op = "filter" /\ f.op = "filter" /\ side \in Sides /\ o \in Ops /\ f \in Ops
      /\ j \in Filters /\ j.of = side /\ j.pred = o.pred \cup f.pred
      BY JoinedTyped DEF Filters, Ops, Operators
<1> HIDE DEF j
<1>2. j.op = "filter" /\ j \in Ops
      BY <1>1 DEF Filters, Ops, Operators
<1>3. x \in Values /\ y \in Values
      BY <1>1, <1>2, MeaningTyped
<1>4. Go(s, o).v = x /\ Go(Go(s, o), f).v = xx /\ Go(s, j).v = y
      BY GoIs
<1>5. Names(j.pred) = Names(o.pred) \cup Names(f.pred)
      BY <1>1 DEF Names
<1> SUFFICES Agree(Go(Go(s, o), f), Go(s, j))
    BY DEF j
<1>6. CASE HasFrame(v, side)
  <2> DEFINE g == Frame(v, side)
  <2>1. /\ x \in Tables(side) /\ x.items = Kept(o.pred, g.items) /\ x.cols = g.cols
        /\ y \in Tables(side) /\ y.items = Kept(o.pred \cup f.pred, g.items) /\ y.cols = g.cols
        BY <1>1, <1>6, FilterOf
  <2>2. g \in Tables(side) /\ g.items \in Seq(ItemsOf(side))
        BY <1>1, <1>6, FrameIs, ValueKinds
  <2> HIDE DEF x, y, g, v
  <2>3. HasFrame(x, side) /\ Frame(x, side) = x
        BY <1>1, <2>1, TableIsValue
  <2>4. xx \in Tables(side) /\ xx.items = Kept(f.pred, Kept(o.pred, g.items)) /\ xx.cols = g.cols
        BY <1>3, <2>1, <2>3, FilterOf
  <2>5. Kept(f.pred, Kept(o.pred, g.items)) = Kept(o.pred \cup f.pred, g.items)
        BY <2>2, KeptTwice
  <2> HIDE DEF xx, side
  <2>6. xx = y
        BY <2>1, <2>4, <2>5, SameTable
  <2>7. Go(Go(s, o), f).careful => Go(s, j).careful
    <3>1. SUFFICES ASSUME Go(Go(s, o), f).careful PROVE Go(s, j).careful
          OBVIOUS
    <3>2. s.careful /\ CarefulOn(s, o) /\ CarefulOn(Go(s, o), f)
          BY <3>1, GoIs
    <3>3. (\A a \in o.pred : a.fails = {}) /\ Names(o.pred) \subseteq g.cols
          BY <1>1, <1>6, <3>2, CarefulIs DEF g, v, side
    <3>4. (\A a \in f.pred : a.fails = {}) /\ Names(f.pred) \subseteq x.cols
          BY <1>1, <1>4, <2>3, <3>2, CarefulIs DEF side
    <3>5. \A a \in j.pred : a.fails = {}
          BY <1>1, <3>3, <3>4
    <3>6. Names(j.pred) \subseteq g.cols
          BY <1>5, <2>1, <3>3, <3>4
    <3>7. CarefulOn(s, j)
          BY <1>1, <1>2, <3>5, <3>6, CarefulIs DEF g, v
    <3>8. QED BY <3>2, <3>7, GoIs
  <2>8. QED BY <1>1, <1>2, <1>4, <2>6, <2>7, GoIs DEF Agree, Alike, OnNodes, IsOn, side
<1>7. CASE ~HasFrame(v, side)
  <2>1. x = y /\ ~Ok(x)
        BY <1>1, <1>7, NoFrame
  <2>2. xx = x
        BY <2>1, FailureStays
  <2>3. Go(Go(s, o), f).careful => Go(s, j).careful
    <3>1. SUFFICES ASSUME Go(Go(s, o), f).careful PROVE Go(s, j).careful
          OBVIOUS
    <3>2. s.careful /\ CarefulOn(s, o) /\ CarefulOn(Go(s, o), f)
          BY <3>1, GoIs
    <3>3. \A a \in j.pred : a.fails = {}
          BY <1>1, <3>2, CarefulIs
    <3>4. CarefulOn(s, j)
          BY <1>1, <1>2, <1>7, <3>3, CarefulIs
    <3>5. QED BY <3>2, <3>4, GoIs
  <2> HIDE DEF x, y, xx
  <2>4. QED BY <1>1, <1>2, <1>4, <2>1, <2>2, <2>3, GoIs DEF Agree, Alike, OnNodes, IsOn
<1>8. QED BY <1>6, <1>7

\* What the builder puts on a plan may be on a plan.
LEMMA OperatorsAreOps ==
    /\ Operators \subseteq Ops /\ Filters \subseteq Operators /\ Limits \subseteq Operators
    /\ Seq(Operators) \subseteq Seq(Ops)
<1>1. Operators \subseteq Ops /\ Filters \subseteq Operators /\ Limits \subseteq Operators
      BY DEF Ops, Operators, Filters, Limits
<1>2. ASSUME NEW p \in Seq(Operators) PROVE p \in Seq(Ops)
      BY <1>1, SeqMonotonic
<1>3. QED BY <1>1, <1>2

\* A filter that goes down a plan means what it means on top of it.
LEMMA PushedAgrees ==
    ASSUME NEW d \in Seq(Operators), NEW f \in Filters
    PROVE  Pushed(d, f) \in Seq(Operators) /\ Agree(Go(M(d), f), M(Pushed(d, f)))
<1> DEFINE T == {q \in Seq(Operators) : Pushed(q, f) \in Seq(Operators) /\ Agree(Go(M(q), f), M(Pushed(q, f)))}
<1>0. f \in Operators /\ f \in Ops /\ f.op = "filter"
      BY OperatorsAreOps DEF Filters
<1>1. <<>> \in T
  <2>1. <<>> \in Seq(Operators) /\ <<>> \in Seq(Ops)
        BY EmptySeq
  <2>2. Pushed(<<>>, f) = <<f>>
        BY PushedEmpty
  <2>3. <<f>> = Append(<<>>, f)
        OBVIOUS
  <2>4. Append(<<>>, f) \in Seq(Operators)
        BY <1>0, <2>1, AppendProperties
  <2>5. M(Append(<<>>, f)) = Go(M(<<>>), f)
        BY <1>0, <2>1, MeaningFolds
  <2>6. QED BY <2>1, <2>2, <2>3, <2>4, <2>5, AgreeIsAnEquivalence
<1>2. ASSUME NEW q \in Seq(Operators), q \in T, NEW o \in Operators PROVE Append(q, o) \in T
  <2> DEFINE t == Append(q, o)
             p == Pushed(q, f)
  <2>1. o \in Ops /\ q \in Seq(Ops) /\ t \in Seq(Operators) /\ t \in Seq(Ops)
        BY OperatorsAreOps, AppendProperties
  <2>2. M(t) = Go(M(q), o) /\ M(q).v \in Values
        BY <2>1, MeaningFolds, MeansValue
  <2>3. p \in Seq(Operators) /\ p \in Seq(Ops) /\ Agree(Go(M(q), f), M(p))
        BY <1>2, OperatorsAreOps
  <2> HIDE DEF T
  <2>4. FiltersJoinIn(Operators, f)
    <3>1. SUFFICES ASSUME NEW x \in Operators, IsOn(x, "filter", f.of) PROVE Joined(x, f) \in Operators
          BY DEF FiltersJoinIn
    <3>2. x \in Ops /\ x.op = "filter"
          BY <3>1, OperatorsAreOps DEF IsOn
    <3>3. x \in Filters
          BY <3>2, OpKinds
    <3>4. QED BY <3>3, JoinedTyped, OperatorsAreOps
  <2>5. CASE Covers(o, f)
    <3>1. Pushed(t, f) = Append(p, o)
          BY <1>0, <2>4, <2>5, PushedPast
    <3> HIDE DEF p, t
    <3>2. Append(p, o) \in Seq(Operators) /\ M(Append(p, o)) = Go(M(p), o)
          BY <2>1, <2>3, AppendProperties, MeaningFolds
    <3>3. o \in Projects /\ o.of = f.of
          BY <2>1, <2>5, OpKinds DEF Covers, IsOn
    <3>4. Agree(Go(Go(M(q), o), f), Go(Go(M(q), f), o))
          BY <2>2, <3>3, FilterPastProject
    <3>5. Agree(Go(Go(M(q), f), o), Go(M(p), o))
          BY <2>3, GoKeepsAlike
    <3>6. Agree(Go(M(t), f), M(Pushed(t, f)))
          BY <2>2, <3>1, <3>2, <3>4, <3>5, AgreeIsAnEquivalence
    <3>7. QED BY <2>1, <3>1, <3>2, <3>6 DEF T, t
  <2>6. CASE ~Covers(o, f) /\ IsOn(o, "filter", f.of)
    <3> DEFINE j == Joined(o, f)
    <3>1. j \in Operators
          BY <2>4, <2>6 DEF FiltersJoinIn
    <3>2. Pushed(t, f) = Append(q, j)
          BY <1>0, <2>6, <3>1, PushedStops
    <3>3. o \in Filters /\ o.of = f.of
          BY <2>1, <2>6, OpKinds DEF IsOn
    <3>4. Agree(Go(Go(M(q), o), f), Go(M(q), j))
          BY <2>2, <3>3, FiltersJoin
    <3> HIDE DEF j, t
    <3>5. Append(q, j) \in Seq(Operators) /\ M(Append(q, j)) = Go(M(q), j)
          BY <2>1, <3>1, AppendProperties, MeaningFolds, OperatorsAreOps
    <3>6. QED BY <2>1, <2>2, <3>2, <3>4, <3>5 DEF T, t
  <2>7. CASE ~Covers(o, f) /\ ~IsOn(o, "filter", f.of)
    <3>1. Pushed(t, f) = Append(t, f)
          BY <1>0, <2>7, PushedStops
    <3> HIDE DEF t
    <3>2. Append(t, f) \in Seq(Operators) /\ M(Append(t, f)) = Go(M(t), f)
          BY <1>0, <2>1, AppendProperties, MeaningFolds
    <3>3. QED BY <2>1, <3>1, <3>2, AgreeIsAnEquivalence DEF T, t
  <2>8. QED BY <2>5, <2>6, <2>7
<1>3. Seq(Operators) \subseteq T
  <2> HIDE DEF T
  <2>1. QED BY <1>1, <1>2, ListInduction
<1>4. QED BY <1>3

\* The pass predicate_pushdown keeps what a plan means.
LEMMA PredicatePushdownAgrees ==
    ASSUME NEW p \in Seq(Operators)
    PROVE  PredicatePushdown(p) \in Seq(Operators) /\ Agree(M(p), M(PredicatePushdown(p)))
<1> DEFINE kind == Of("predicate_pushdown")
           T == {q \in Seq(Operators) : Fold(kind, q) \in Seq(Operators) /\ Agree(M(q), M(Fold(kind, q)))}
<1>1. <<>> \in T
  <2>1. Fold(kind, <<>>) = <<>>
        BY FoldEmpty, StepIs DEF Passes
  <2>2. QED BY <2>1, EmptySeq, AgreeIsAnEquivalence
<1>2. ASSUME NEW q \in Seq(Operators), q \in T, NEW o \in Operators PROVE Append(q, o) \in T
  <2> DEFINE d == Fold(kind, q)
             t == Append(q, o)
  <2>1. d \in Seq(Operators) /\ Agree(M(q), M(d))
        BY <1>2
  <2>2. Fold(kind, t) = IF o.op = "filter" THEN Pushed(d, o) ELSE Append(d, o)
        BY FoldAppend, StepIs
  <2>3. t \in Seq(Operators) /\ M(t) = Go(M(q), o)
        BY AppendProperties, OperatorsAreOps, MeaningFolds
  <2> HIDE DEF d, t, kind
  <2>4. Agree(M(t), Go(M(d), o))
        BY <2>1, <2>3, GoKeepsAlike
  <2>5. CASE o.op = "filter"
    <3>1. o \in Filters
          BY <2>5, OpKinds, OperatorsAreOps
    <3>2. Pushed(d, o) \in Seq(Operators) /\ Agree(Go(M(d), o), M(Pushed(d, o)))
          BY <2>1, <3>1, PushedAgrees
    <3>3. QED BY <2>2, <2>3, <2>4, <2>5, <3>2, AgreeIsAnEquivalence DEF t
  <2>6. CASE o.op # "filter"
    <3>1. Append(d, o) \in Seq(Operators) /\ M(Append(d, o)) = Go(M(d), o)
          BY <2>1, AppendProperties, OperatorsAreOps, MeaningFolds
    <3>2. QED BY <2>2, <2>3, <2>4, <2>6, <3>1 DEF t
  <2>7. QED BY <2>5, <2>6
<1>3. Seq(Operators) \subseteq T
  <2> HIDE DEF T
  <2>1. QED BY <1>1, <1>2, ListInduction
<1>4. PredicatePushdown(p) = Fold(kind, p)
      BY LenProperties, PredicatePushdownIsFold
<1>5. QED BY <1>3, <1>4

-----------------------------------------------------------------------------
(* projection_pushdown. *)

Narrowed(x, o) == [x EXCEPT !.cols = @ \cap o.cols]

\* Two projections of a frame collapsed are a projection of that frame.
LEMMA NarrowedTyped ==
    ASSUME NEW x \in Projects, NEW o \in Projects
    PROVE  Narrowed(x, o) \in Projects /\ Narrowed(x, o).of = x.of /\ Narrowed(x, o).cols = x.cols \cap o.cols
BY DEF Narrowed, Projects

\* Two projections of the same frame mean what one means to the columns of both.
LEMMA ProjectsCollapse ==
    ASSUME NEW s, s.v \in Values, NEW o \in Projects, NEW f \in Projects, o.of = f.of
    PROVE  Agree(Go(Go(s, o), f), Go(s, Narrowed(o, f)))
<1> DEFINE v == s.v
           side == f.of
           j == Narrowed(o, f)
           x == Meaning(v, o)
           xx == Meaning(x, f)
           y == Meaning(v, j)
<1>1. /\ o.op = "project" /\ f.op = "project" /\ side \in Sides /\ o \in Ops /\ f \in Ops
      /\ j \in Projects /\ j.of = side /\ j.cols = o.cols \cap f.cols
      BY NarrowedTyped DEF Projects, Ops, Operators
<1> SUFFICES Agree(Go(Go(s, o), f), Go(s, j))
    OBVIOUS
<1> HIDE DEF j
<1>2. j.op = "project" /\ j \in Ops
      BY <1>1 DEF Projects, Ops, Operators
<1>3. x \in Values /\ y \in Values
      BY <1>1, <1>2, MeaningTyped
<1>4. Go(s, o).v = x /\ Go(Go(s, o), f).v = xx /\ Go(s, j).v = y
      BY GoIs
<1>5. CASE HasFrame(v, side)
  <2> DEFINE g == Frame(v, side)
  <2>1. /\ x \in Tables(side) /\ x.items = g.items /\ x.cols = g.cols \cap o.cols
        /\ y \in Tables(side) /\ y.items = g.items /\ y.cols = g.cols \cap (o.cols \cap f.cols)
        BY <1>1, <1>5, ProjectOf
  <2> HIDE DEF x, y, g, v
  <2>2. HasFrame(x, side) /\ Frame(x, side) = x
        BY <1>1, <2>1, TableIsValue
  <2>3. xx \in Tables(side) /\ xx.items = g.items /\ xx.cols = (g.cols \cap o.cols) \cap f.cols
        BY <1>3, <2>1, <2>2, ProjectOf
  <2> HIDE DEF xx, side
  <2>4. xx.cols = y.cols
        BY <2>1, <2>3
  <2>5. xx = y
        BY <2>1, <2>3, <2>4, SameTable
  <2>6. Go(Go(s, o), f).careful => Go(s, j).careful
    <3>1. SUFFICES ASSUME Go(Go(s, o), f).careful PROVE Go(s, j).careful
          OBVIOUS
    <3>2. s.careful /\ CarefulOn(s, o) /\ CarefulOn(Go(s, o), f)
          BY <3>1, GoIs
    <3>3. o.cols \subseteq g.cols
          BY <1>1, <1>5, <3>2, CarefulIs DEF g, v, side
    <3>4. j.cols \subseteq g.cols
          BY <1>1, <3>3
    <3>5. CarefulOn(s, j)
          BY <1>1, <1>2, <3>4, CarefulIs DEF g, v
    <3>6. QED BY <3>2, <3>5, GoIs
  <2>7. QED BY <1>1, <1>2, <1>4, <2>5, <2>6, GoIs DEF Agree, Alike, OnNodes, IsOn, side
<1>6. CASE ~HasFrame(v, side)
  <2>1. x = y /\ ~Ok(x)
        BY <1>1, <1>6, NoFrame
  <2>2. xx = x
        BY <2>1, FailureStays
  <2>3. CarefulOn(s, j)
        BY <1>1, <1>2, <1>6, CarefulIs
  <2> HIDE DEF x, y, xx
  <2>4. QED BY <1>1, <1>2, <1>4, <2>1, <2>2, <2>3, GoIs DEF Agree, Alike, OnNodes, IsOn
<1>7. QED BY <1>5, <1>6

\* A projection on top of a plan.
LEMMA CollapsedAgrees ==
    ASSUME NEW d \in Seq(Operators), NEW o \in Operators
    PROVE  Collapsed(d, o) \in Seq(Operators) /\ Agree(Go(M(d), o), M(Collapsed(d, o)))
<1> DEFINE joins == o.op = "project" /\ Over(d, "project") /\ Last(d).of = o.of
<1>1. CASE ~joins
  <2>1. Collapsed(d, o) = Append(d, o)
        BY <1>1 DEF Collapsed
  <2>2. Append(d, o) \in Seq(Operators) /\ M(Append(d, o)) = Go(M(d), o)
        BY AppendProperties, OperatorsAreOps, MeaningFolds
  <2>3. QED BY <2>1, <2>2, AgreeIsAnEquivalence
<1>2. CASE joins
  <2>1. d # <<>>
        BY <1>2 DEF Over
  <2>2. PICK b \in Seq(Operators), x \in Operators : d = Append(b, x)
        BY <2>1, SequenceEmptyOrAppend
  <2>3. Last(d) = x /\ Len(d) \in Nat
        BY <2>2, EndOf, LenProperties
  <2>4. x \in Projects /\ o \in Projects /\ x.of = o.of
        BY <1>2, <2>3, OpKinds, OperatorsAreOps DEF Over
  <2> DEFINE j == Narrowed(x, o)
  <2>5. j \in Projects /\ j \in Operators
        BY <2>4, NarrowedTyped DEF Projects, Operators
  <2>6. Collapsed(d, o) = Append(b, j)
    <3>1. Collapsed(d, o) = [d EXCEPT ![Len(d)] = Narrowed(@, o)]
          BY <1>2 DEF Collapsed, Narrowed
    <3>2. [d EXCEPT ![Len(d)] = Narrowed(@, o)] = [d EXCEPT ![Len(d)] = j]
          BY <2>3 DEF Last
    <3> HIDE DEF j
    <3>3. [d EXCEPT ![Len(d)] = j] = Append(b, j)
          BY <2>2, <2>5, ReplaceEnd
    <3>4. QED BY <3>1, <3>2, <3>3
  <2>7. M(d) = Go(M(b), x) /\ M(b).v \in Values
        BY <2>2, OperatorsAreOps, MeaningFolds, MeansValue
  <2>8. Agree(Go(Go(M(b), x), o), Go(M(b), j))
        BY <2>4, <2>7, ProjectsCollapse
  <2> HIDE DEF j
  <2>9. Append(b, j) \in Seq(Operators) /\ M(Append(b, j)) = Go(M(b), j)
        BY <2>5, AppendProperties, OperatorsAreOps, MeaningFolds
  <2>10. QED BY <2>6, <2>7, <2>8, <2>9
<1>3. QED BY <1>1, <1>2

\* The pass projection_pushdown keeps what a plan means.
LEMMA ProjectionPushdownAgrees ==
    ASSUME NEW p \in Seq(Operators)
    PROVE  ProjectionPushdown(p) \in Seq(Operators) /\ Agree(M(p), M(ProjectionPushdown(p)))
<1> DEFINE kind == Of("projection_pushdown")
           T == {q \in Seq(Operators) : Fold(kind, q) \in Seq(Operators) /\ Agree(M(q), M(Fold(kind, q)))}
<1>1. <<>> \in T
  <2>1. Fold(kind, <<>>) = <<>>
        BY FoldEmpty, StepIs DEF Passes
  <2>2. QED BY <2>1, EmptySeq, AgreeIsAnEquivalence
<1>2. ASSUME NEW q \in Seq(Operators), q \in T, NEW o \in Operators PROVE Append(q, o) \in T
  <2> DEFINE d == Fold(kind, q)
             t == Append(q, o)
  <2>1. d \in Seq(Operators) /\ Agree(M(q), M(d))
        BY <1>2
  <2>2. Fold(kind, t) = Collapsed(d, o)
        BY FoldAppend, StepIs
  <2>3. t \in Seq(Operators) /\ M(t) = Go(M(q), o)
        BY AppendProperties, OperatorsAreOps, MeaningFolds
  <2> HIDE DEF d, t, kind
  <2>4. Agree(M(t), Go(M(d), o))
        BY <2>1, <2>3, GoKeepsAlike
  <2>5. Collapsed(d, o) \in Seq(Operators) /\ Agree(Go(M(d), o), M(Collapsed(d, o)))
        BY <2>1, CollapsedAgrees
  <2>6. QED BY <2>2, <2>3, <2>4, <2>5, AgreeIsAnEquivalence DEF t
<1>3. Seq(Operators) \subseteq T
  <2> HIDE DEF T
  <2>1. QED BY <1>1, <1>2, ListInduction
<1>4. ProjectionPushdown(p) = Fold(kind, p)
      BY LenProperties, ProjectionPushdownIsFold
<1>5. QED BY <1>3, <1>4

-----------------------------------------------------------------------------
(* traversal_pruning. *)

Gated(x, o) == [x EXCEPT !.pre = @ \cup o.pred]

\* The pass makes a plan of the builder's operators,
LEMMA PrunedTyped ==
    ASSUME NEW d \in Seq(Operators), NEW o \in Operators
    PROVE  Pruned(d, o) \in Seq(Operators)
<1> DEFINE joins == /\ o.op = "filter" /\ o.of = "nodes" /\ Over(d, "expand")
                    /\ \A a \in o.pred : a.cols \cap EdgeReserved = {}
<1>1. CASE ~joins
  <2>1. Pruned(d, o) = Append(d, o)
        BY <1>1 DEF Pruned
  <2>2. QED BY <2>1, AppendProperties
<1>2. CASE joins
  <2>1. d # <<>>
        BY <1>2 DEF Over
  <2>2. PICK b \in Seq(Operators), x \in Operators : d = Append(b, x)
        BY <2>1, SequenceEmptyOrAppend
  <2>3. Last(d) = x /\ Len(d) \in Nat
        BY <2>2, EndOf, LenProperties
  <2>4. x \in Expansions /\ o \in Filters
        BY <1>2, <2>3, OpKinds, OperatorsAreOps DEF Over
  <2> DEFINE j == Gated(x, o)
  <2>5. j \in Operators
    <3>1. j \in Expansions
          BY <2>4 DEF Gated, Expansions, Filters
    <3>2. QED BY <3>1 DEF Expansions, Operators
  <2>6. Pruned(d, o) = Append(b, j)
    <3>1. Pruned(d, o) = [d EXCEPT ![Len(d)] = Gated(@, o)]
          BY <1>2 DEF Pruned, Gated
    <3>2. [d EXCEPT ![Len(d)] = Gated(@, o)] = [d EXCEPT ![Len(d)] = j]
          BY <2>3 DEF Last
    <3> HIDE DEF j
    <3>3. [d EXCEPT ![Len(d)] = j] = Append(b, j)
          BY <2>2, <2>5, ReplaceEnd
    <3>4. QED BY <3>1, <3>2, <3>3
  <2> HIDE DEF j
  <2>7. QED BY <2>5, <2>6, AppendProperties
<1>3. QED BY <1>1, <1>2

\* and leaves one alone in which no node filter meets an expansion.
LEMMA TraversalPruningIs ==
    ASSUME NEW p \in Seq(Operators)
    PROVE  TraversalPruning(p) \in Seq(Operators) /\ (~M(p).met => TraversalPruning(p) = p)
<1> DEFINE kind == Of("traversal_pruning")
           T == {q \in Seq(Operators) : Fold(kind, q) \in Seq(Operators) /\ (~M(q).met => Fold(kind, q) = q)}
<1>1. <<>> \in T
  <2>1. Fold(kind, <<>>) = <<>>
        BY FoldEmpty, StepIs DEF Passes
  <2>2. QED BY <2>1, EmptySeq
<1>2. ASSUME NEW q \in Seq(Operators), q \in T, NEW o \in Operators PROVE Append(q, o) \in T
  <2> DEFINE d == Fold(kind, q)
             t == Append(q, o)
  <2>1. d \in Seq(Operators) /\ (~M(q).met => d = q)
        BY <1>2
  <2>2. Fold(kind, t) = Pruned(d, o)
        BY FoldAppend, StepIs
  <2>3. t \in Seq(Operators) /\ M(t) = Go(M(q), o)
        BY AppendProperties, OperatorsAreOps, MeaningFolds
  <2>4. Pruned(d, o) \in Seq(Operators)
        BY <2>1, PrunedTyped
  <2>5. ASSUME ~M(t).met PROVE Fold(kind, t) = t
    <3>1. ~M(q).met /\ ~(IsOn(o, "filter", "nodes") /\ M(q).open)
          BY <2>3, <2>5, GoIs
    <3>2. Over(q, "expand") => M(q).open
      <4>1. SUFFICES ASSUME Over(q, "expand") PROVE M(q).open
            OBVIOUS
      <4>2. q # <<>>
            BY <4>1 DEF Over
      <4>3. PICK b \in Seq(Operators), x \in Operators : q = Append(b, x)
            BY <4>2, SequenceEmptyOrAppend
      <4>4. x.op = "expand"
            BY <4>1, <4>3, EndOf
      <4>5. M(q) = Go(M(b), x)
            BY <4>3, OperatorsAreOps, MeaningFolds
      <4>6. QED BY <4>4, <4>5, GoIs
    <3>3. Pruned(q, o) = t
          BY <3>1, <3>2 DEF Pruned, IsOn
    <3>4. QED BY <2>1, <2>2, <3>1, <3>3
  <2> HIDE DEF d, t, kind
  <2>6. QED BY <2>2, <2>3, <2>4, <2>5 DEF t
<1>3. Seq(Operators) \subseteq T
  <2> HIDE DEF T
  <2>1. QED BY <1>1, <1>2, ListInduction
<1>4. TraversalPruning(p) = Fold(kind, p)
      BY LenProperties, TraversalPruningIsFold
<1>5. QED BY <1>3, <1>4

-----------------------------------------------------------------------------
(* early_termination. *)

\* Every hint is below the limit that it is about.
HintsPaired(d) ==
    \A i \in DOMAIN d : d[i].op = "hint" =>
        i < Len(d) /\ d[i + 1].op = "limit" /\ d[i + 1].n = d[i].n

\* One operator more or less, and every hint is still below its limit.
LEMMA PairedAppend ==
    ASSUME NEW U, NEW d \in Seq(U), NEW x \in U
    PROVE  /\ HintsPaired(d) /\ x.op # "hint" => HintsPaired(Append(d, x))
           /\ HintsPaired(Append(d, x)) /\ ~Over(d, "hint") => HintsPaired(d)
           /\ HintsPaired(Append(d, x)) => x.op # "hint"
           /\ HintsPaired(Append(d, x)) /\ Over(d, "hint") => x.op = "limit" /\ x.n = Last(d).n
<1> DEFINE t == Append(d, x)
<1>1. /\ t \in Seq(U) /\ Len(t) = Len(d) + 1 /\ t[Len(d) + 1] = x /\ \A i \in 1..Len(d) : t[i] = d[i]
      /\ DOMAIN d = 1..Len(d) /\ Len(d) \in Nat
      BY AppendProperties, LenProperties
<1>2. DOMAIN t = 1..(Len(d) + 1)
      BY <1>1, LenProperties
<1> HIDE DEF t
<1>3. ASSUME HintsPaired(d), x.op # "hint" PROVE HintsPaired(t)
  <2>1. SUFFICES ASSUME NEW i \in DOMAIN t, t[i].op = "hint"
                 PROVE  i < Len(t) /\ t[i + 1].op = "limit" /\ t[i + 1].n = t[i].n
        BY DEF HintsPaired
  <2>2. i \in 1..Len(d)
        BY <1>1, <1>2, <1>3, <2>1
  <2>3. i < Len(d) /\ d[i + 1].op = "limit" /\ d[i + 1].n = d[i].n
        BY <1>1, <1>3, <2>1, <2>2 DEF HintsPaired
  <2>4. i + 1 \in 1..Len(d)
        BY <1>1, <2>2, <2>3
  <2>5. QED BY <1>1, <2>2, <2>3, <2>4
<1>4. ASSUME HintsPaired(t), ~Over(d, "hint") PROVE HintsPaired(d)
  <2>1. SUFFICES ASSUME NEW i \in DOMAIN d, d[i].op = "hint"
                 PROVE  i < Len(d) /\ d[i + 1].op = "limit" /\ d[i + 1].n = d[i].n
        BY DEF HintsPaired
  <2>2. i \in 1..Len(d) /\ i \in DOMAIN t /\ t[i] = d[i]
        BY <1>1, <1>2
  <2>3. i # Len(d)
    <3>1. SUFFICES ASSUME i = Len(d) PROVE FALSE
          OBVIOUS
    <3>2. d # <<>> /\ Last(d).op = "hint"
      <4>1. Len(<<>>) = 0
            BY EmptySeq
      <4>2. QED BY <1>1, <2>1, <3>1, <4>1 DEF Last
    <3>3. QED BY <1>4, <3>2 DEF Over
  <2>4. i < Len(d) /\ i + 1 \in 1..Len(d)
        BY <1>1, <2>2, <2>3
  <2>5. t[i + 1].op = "limit" /\ t[i + 1].n = t[i].n
        BY <1>4, <2>1, <2>2 DEF HintsPaired
  <2>6. QED BY <1>1, <2>2, <2>4, <2>5
<1>5. ASSUME HintsPaired(t) PROVE x.op # "hint"
  <2>1. Len(d) + 1 \in DOMAIN t /\ ~(Len(d) + 1 < Len(t))
        BY <1>1, <1>2
  <2>2. QED BY <1>1, <1>5, <2>1 DEF HintsPaired
<1>6. ASSUME HintsPaired(t), Over(d, "hint") PROVE x.op = "limit" /\ x.n = Last(d).n
  <2>1. Len(d) \in 1..Len(d) /\ d[Len(d)].op = "hint"
    <3>1. d # <<>> /\ Last(d).op = "hint"
          BY <1>6 DEF Over
    <3>2. Len(d) # 0
          BY <3>1, EmptySeq
    <3>3. QED BY <1>1, <3>1, <3>2 DEF Last
  <2>2. Len(d) \in DOMAIN t /\ t[Len(d)] = d[Len(d)]
        BY <1>1, <1>2, <2>1
  <2>3. QED BY <1>1, <1>6, <2>1, <2>2 DEF HintsPaired, Last
<1>7. QED BY <1>3, <1>4, <1>5, <1>6 DEF t

\* A hint goes on a plan with its limit.
LEMMA PairedHint ==
    ASSUME NEW U, NEW d \in Seq(U), NEW h \in U, NEW l \in U, HintsPaired(d), l.op = "limit", h.n = l.n
    PROVE  HintsPaired(Append(Append(d, h), l))
<1> DEFINE s == Append(d, h)
           t == Append(s, l)
           n == Len(d)
<1>1. /\ s \in Seq(U) /\ Len(s) = n + 1 /\ s[n + 1] = h /\ \A i \in 1..n : s[i] = d[i]
      /\ DOMAIN d = 1..n /\ n \in Nat
      BY AppendProperties, LenProperties
<1> HIDE DEF s
<1>2. /\ t \in Seq(U) /\ Len(t) = n + 2 /\ t[n + 2] = l /\ \A i \in 1..(n + 1) : t[i] = s[i]
      BY <1>1, AppendProperties
<1>3. DOMAIN t = 1..(n + 2)
      BY <1>2, LenProperties
<1> HIDE DEF t
<1>4. ASSUME NEW i \in DOMAIN t, t[i].op = "hint"
      PROVE  i < Len(t) /\ t[i + 1].op = "limit" /\ t[i + 1].n = t[i].n
  <2>1. CASE i = n + 2
        BY <1>2, <1>4, <2>1
  <2>2. CASE i = n + 1
        BY <1>1, <1>2, <2>2
  <2>3. CASE i \in 1..n
    <3>1. t[i] = d[i]
          BY <1>1, <1>2, <2>3
    <3>2. i < n /\ d[i + 1].op = "limit" /\ d[i + 1].n = d[i].n
          BY <1>1, <1>4, <2>3, <3>1 DEF HintsPaired
    <3>3. i + 1 \in 1..n
          BY <1>1, <2>3, <3>2
    <3>4. t[i + 1] = d[i + 1]
          BY <1>1, <1>2, <3>3
    <3>5. QED BY <1>1, <1>2, <3>1, <3>2, <3>4
  <2>4. QED BY <1>1, <1>3, <2>1, <2>2, <2>3
<1>5. QED BY <1>4 DEF HintsPaired, t, s

\* Two limits mean the lesser of them.
LEMMA LimitsJoin ==
    ASSUME NEW v \in Values, NEW a, NEW b, NEW c, a.n \in Nat, b.n \in Nat, c.n = Lesser(a.n, b.n),
           a.op = "limit", b.op = "limit", c.op = "limit"
    PROVE  Meaning(Meaning(v, a), b) = Meaning(v, c)
<1>1. CASE ~Ok(v)
      BY <1>1, FailureStays
<1>2. CASE Ok(v) /\ v.domain = "pattern"
  <2>1. Meaning(v, a) = Error /\ Meaning(v, c) = Error
        BY <1>2, MeaningIs, CutPattern
  <2>2. QED BY <2>1, FailureStays, ValueKinds
<1>3. CASE Ok(v) /\ v.domain # "pattern"
  <2> DEFINE x == Cut(v, a)
  <2>1. Meaning(v, a) = x /\ Meaning(v, c) = Cut(v, c)
        BY <1>3, MeaningIs
  <2>2. Cut(x, b) = Cut(v, c)
        BY <1>3, CutTwice
  <2>3. x.domain = v.domain
        BY <1>3, CutIs
  <2>4. Ok(x)
        BY <1>3, <2>3 DEF Ok
  <2> HIDE DEF x
  <2>5. Meaning(x, b) = Cut(x, b)
        BY <2>4, MeaningIs
  <2>6. QED BY <2>1, <2>2, <2>5
<1>4. QED BY <1>1, <1>2, <1>3

\* A hint means nothing below its limit.
LEMMA HintBelowLimit ==
    ASSUME NEW v \in Values, NEW h, NEW l, h.op = "hint", l.op = "limit", h.n = l.n, l.n \in Nat
    PROVE  Meaning(Meaning(v, h), l) = Meaning(v, l)
<1>1. CASE ~Ok(v)
      BY <1>1, FailureStays
<1>2. CASE Ok(v) /\ h.kind # "TopK"
  <2>1. Meaning(v, h) = v
        BY <1>2, MeaningIs
  <2>2. QED BY <2>1
<1>3. CASE Ok(v) /\ h.kind = "TopK"
  <2>1. Meaning(v, h) = Cut(v, h) /\ Meaning(v, l) = Cut(v, l)
        BY <1>3, MeaningIs
  <2>2. Cut(v, h) = Cut(v, l)
        BY DEF Cut
  <2>3. Lesser(l.n, l.n) = l.n
        BY DEF Lesser
  <2>4. Meaning(Meaning(v, l), l) = Meaning(v, l)
        BY <2>3, LimitsJoin
  <2>5. QED BY <2>1, <2>2, <2>4
<1>4. QED BY <1>1, <1>2, <1>3

\* A plan with a limit on top and the hint at it.
HintAt(b, n) ==
    IF Over(b, "sort") THEN <<Hint("TopK", n)>>
    ELSE IF Over(b, "expand") \/ Over(b, "match") THEN <<Hint("LimitAware", n)>> ELSE <<>>
Topped(b, n) == b \o HintAt(b, n) \o <<Limit(n)>>

\* Hints and limits are operators.
LEMMA HintTyped ==
    ASSUME NEW kind \in {"TopK", "LimitAware", "Parallel"}, NEW n \in Nat
    PROVE  /\ Hint(kind, n) \in Ops /\ Hint(kind, n).op = "hint" /\ Hint(kind, n).kind = kind /\ Hint(kind, n).n = n
           /\ Limit(n) \in Operators /\ Limit(n) \in Ops /\ Limit(n).op = "limit" /\ Limit(n).n = n
BY DEF Hint, Limit, Ops, Hints, Operators

\* What is last in a plan.
LEMMA LastMeant ==
    ASSUME NEW b \in Seq(Ops), Over(b, "sort")
    PROVE  M(b).last = "sort"
<1>1. b # <<>>
      BY DEF Over
<1>2. PICK d \in Seq(Ops), x \in Ops : b = Append(d, x)
      BY <1>1, SequenceEmptyOrAppend
<1>3. x.op = "sort"
      BY <1>2, EndOf
<1>4. M(b) = Go(M(d), x)
      BY <1>2, MeaningFolds
<1>5. QED BY <1>3, <1>4, GoIs

\* It means what it means without the hint.
LEMMA ToppedMeans ==
    ASSUME NEW b \in Seq(Ops), HintsPaired(b), NEW n \in Nat
    PROVE  /\ Topped(b, n) \in Seq(Ops) /\ HintsPaired(Topped(b, n))
           /\ M(Topped(b, n)).v = Meaning(M(b).v, Limit(n))
           /\ M(Topped(b, n)).last = "limit"
           /\ M(b).careful /\ (M(b).last # "other" => n > 0) => M(Topped(b, n)).careful
<1> DEFINE l == Limit(n)
<1>1. l \in Ops /\ l.op = "limit" /\ l.n = n
      BY HintTyped
<1>2. M(b).v \in Values
      BY MeansValue
<1> SUFFICES /\ Topped(b, n) \in Seq(Ops) /\ HintsPaired(Topped(b, n))
             /\ M(Topped(b, n)).v = Meaning(M(b).v, l)
             /\ M(Topped(b, n)).last = "limit"
             /\ M(b).careful /\ (M(b).last # "other" => n > 0) => M(Topped(b, n)).careful
    OBVIOUS
<1>3. ASSUME NEW kind \in {"TopK", "LimitAware"}, HintAt(b, n) = <<Hint(kind, n)>>, kind = "TopK" => Over(b, "sort")
      PROVE  /\ Topped(b, n) \in Seq(Ops) /\ HintsPaired(Topped(b, n))
             /\ M(Topped(b, n)).v = Meaning(M(b).v, l)
             /\ M(Topped(b, n)).last = "limit"
             /\ M(b).careful /\ (M(b).last # "other" => n > 0) => M(Topped(b, n)).careful
  <2> DEFINE h == Hint(kind, n)
             s == Append(b, h)
             t == Append(s, l)
  <2>1. h \in Ops /\ h.op = "hint" /\ h.kind = kind /\ h.n = n
        BY HintTyped
  <2>2. s \in Seq(Ops) /\ s = b \o <<h>>
        BY <2>1, AppendProperties, AppendIsConcat
  <2>3. Topped(b, n) = s \o <<l>>
        BY <1>3, <2>2 DEF Topped
  <2> HIDE DEF h, l
  <2>4. HintsPaired(t)
        BY <1>1, <2>1, PairedHint
  <2>5. M(s) = Go(M(b), h)
        BY <2>1, MeaningFolds
  <2> HIDE DEF s
  <2>6. t \in Seq(Ops) /\ t = s \o <<l>> /\ M(t) = Go(M(s), l)
        BY <1>1, <2>2, AppendProperties, AppendIsConcat, MeaningFolds
  <2>7. M(t).v = Meaning(Meaning(M(b).v, h), l)
        BY <2>5, <2>6, GoIs
  <2>8. Meaning(Meaning(M(b).v, h), l) = Meaning(M(b).v, l)
        BY <1>1, <1>2, <2>1, HintBelowLimit
  <2>9. M(t).last = "limit"
        BY <1>1, <2>6, GoIs
  <2>10. ASSUME M(b).careful, M(b).last # "other" => n > 0 PROVE M(t).careful
    <3>1. kind = "TopK" => n > 0
          BY <1>3, <2>10, LastMeant
    <3>2. CarefulOn(M(b), h)
          BY <2>1, <2>10, <3>1, CarefulIs
    <3>3. M(s).careful /\ M(s).last = "other"
          BY <2>1, <2>5, <2>10, <3>2, GoIs
    <3>4. CarefulOn(M(s), l)
          BY <1>1, <3>3, CarefulIs
    <3>5. QED BY <2>6, <3>3, <3>4, GoIs
  <2>11. QED BY <2>3, <2>4, <2>6, <2>7, <2>8, <2>9, <2>10
<1>4. CASE HintAt(b, n) = <<>>
  <2> DEFINE t == Append(b, l)
  <2>1. b \o <<>> = b
        BY ConcatEmptySeq
  <2>2. Topped(b, n) = b \o <<l>>
        BY <1>4, <2>1 DEF Topped
  <2> HIDE DEF l
  <2>3. t \in Seq(Ops) /\ t = b \o <<l>> /\ M(t) = Go(M(b), l)
        BY <1>1, AppendProperties, AppendIsConcat, MeaningFolds
  <2>4. HintsPaired(t)
        BY <1>1, PairedAppend
  <2>5. ASSUME M(b).careful, M(b).last # "other" => n > 0 PROVE M(t).careful
    <3>1. CarefulOn(M(b), l)
          BY <1>1, <2>5, CarefulIs
    <3>2. QED BY <2>3, <2>5, <3>1, GoIs
  <2>6. M(t).v = Meaning(M(b).v, l) /\ M(t).last = "limit"
        BY <1>1, <2>3, GoIs
  <2>7. QED BY <2>2, <2>3, <2>4, <2>5, <2>6
<1>5. HintAt(b, n) = <<>> \/ (HintAt(b, n) = <<Hint("TopK", n)>> /\ Over(b, "sort")) \/ HintAt(b, n) = <<Hint("LimitAware", n)>>
      BY DEF HintAt
<1> HIDE DEF l
<1>6. QED BY <1>3, <1>4, <1>5

\* What is below a hint and its limit.
LEMMA PairedBelow ==
    ASSUME NEW U, NEW d \in Seq(U), NEW h \in U, NEW l \in U, h.op = "hint",
           HintsPaired(Append(Append(d, h), l))
    PROVE  HintsPaired(d) /\ h.n = l.n
<1> DEFINE s == Append(d, h)
           t == Append(s, l)
           n == Len(d)
<1>1. /\ s \in Seq(U) /\ Len(s) = n + 1 /\ s[n + 1] = h /\ \A i \in 1..n : s[i] = d[i]
      /\ DOMAIN d = 1..n /\ n \in Nat
      BY AppendProperties, LenProperties
<1> HIDE DEF s
<1>2. /\ t \in Seq(U) /\ Len(t) = n + 2 /\ t[n + 2] = l /\ \A i \in 1..(n + 1) : t[i] = s[i]
      BY <1>1, AppendProperties
<1>3. DOMAIN t = 1..(n + 2)
      BY <1>2, LenProperties
<1>4. HintsPaired(t)
      BY DEF s
<1> HIDE DEF t
<1>5. h.n = l.n
  <2>1. n + 1 \in DOMAIN t /\ t[n + 1] = h /\ t[(n + 1) + 1] = l
        BY <1>1, <1>2, <1>3
  <2>2. QED BY <1>4, <2>1 DEF HintsPaired
<1>6. ASSUME NEW i \in DOMAIN d, d[i].op = "hint"
      PROVE  i < Len(d) /\ d[i + 1].op = "limit" /\ d[i + 1].n = d[i].n
  <2>1. i \in 1..n /\ i \in DOMAIN t /\ t[i] = d[i]
        BY <1>1, <1>2, <1>3
  <2>2. t[i + 1].op = "limit" /\ t[i + 1].n = d[i].n
        BY <1>4, <1>6, <2>1 DEF HintsPaired
  <2>3. t[n + 1] = h
        BY <1>1, <1>2
  <2>4. i # n
        BY <2>2, <2>3
  <2>5. i < n /\ i + 1 \in 1..n
        BY <1>1, <2>1, <2>4
  <2>6. t[i + 1] = d[i + 1]
        BY <1>1, <1>2, <2>5
  <2>7. QED BY <2>2, <2>5, <2>6
<1>7. QED BY <1>5, <1>6 DEF HintsPaired

\* A limit on top of a plan joins the limit that it meets, and both are careful only
\* if the one they become is.
LEMMA ShortenedAlike ==
    ASSUME NEW c \in Seq(Ops), HintsPaired(c), NEW o \in Limits
    PROVE  /\ Shortened(c, o) \in Seq(Ops) /\ HintsPaired(Shortened(c, o))
           /\ Alike(Go(M(c), o), M(Shortened(c, o)))
<1> DEFINE s == Go(M(c), o)
<1>1. o.op = "limit" /\ o.n \in Nat /\ o = Limit(o.n)
      BY DEF Limits, Limit
<1>2. s.v = Meaning(M(c).v, o) /\ s.last = "limit" /\ (s.careful => M(c).careful /\ (M(c).last # "other" => o.n > 0))
      BY <1>1, GoIs, CarefulIs
<1>3. M(c).v \in Values
      BY MeansValue
<1> HIDE DEF s
<1>4. ASSUME NEW b \in Seq(Ops), HintsPaired(b), NEW n \in Nat, Shortened(c, o) = Topped(b, n),
             s.v = Meaning(M(b).v, Limit(n)), s.careful => M(b).careful /\ (M(b).last # "other" => n > 0)
      PROVE  /\ Shortened(c, o) \in Seq(Ops) /\ HintsPaired(Shortened(c, o))
             /\ Alike(s, M(Shortened(c, o)))
  <2> DEFINE t == Topped(b, n)
  <2>1. /\ t \in Seq(Ops) /\ HintsPaired(t)
        /\ M(t).v = Meaning(M(b).v, Limit(n))
        /\ M(t).last = "limit"
        /\ M(b).careful /\ (M(b).last # "other" => n > 0) => M(t).careful
        BY <1>4, ToppedMeans
  <2>2. Shortened(c, o) = t
        BY <1>4
  <2> HIDE DEF t
  <2>3. s.careful => M(t).careful
        BY <1>4, <2>1
  <2>4. Alike(s, M(t))
        BY <1>2, <1>4, <2>1, <2>3 DEF Alike
  <2>5. QED BY <2>1, <2>2, <2>4
<1>5. CASE ~Over(c, "limit")
  <2>1. Shortened(c, o) = Topped(c, o.n)
        BY <1>5 DEF Shortened, Topped, HintAt
  <2>2. QED BY <1>1, <1>2, <1>4, <2>1 DEF s
<1>6. CASE Over(c, "limit")
  <2>1. c # <<>>
        BY <1>6 DEF Over
  <2>2. PICK r \in Seq(Ops), l \in Ops : c = Append(r, l)
        BY <2>1, SequenceEmptyOrAppend
  <2>3. Last(c) = l /\ Front(c) = r /\ l.op = "limit"
        BY <1>6, <2>2, EndOf
  <2>4. l \in Limits /\ l.n \in Nat
        BY <2>3, OpKinds DEF Limits
  <2> DEFINE n == Lesser(l.n, o.n)
  <2>5. n \in Nat /\ (l.n > 0 /\ o.n > 0 => n > 0) /\ n = IF Last(c).n < o.n THEN Last(c).n ELSE o.n
        BY <1>1, <2>3, <2>4 DEF Lesser
  <2>6. Limit(n).op = "limit" /\ Limit(n).n = n
        BY DEF Limit
  <2>7. M(c) = Go(M(r), l) /\ M(r).v \in Values
        BY <2>2, MeaningFolds, MeansValue
  <2>8. M(c).v = Meaning(M(r).v, l) /\ M(c).last = "limit" /\ (M(c).careful => M(r).careful /\ (M(r).last # "other" => l.n > 0))
        BY <2>3, <2>7, GoIs, CarefulIs
  <2>9. ASSUME NEW v \in Values PROVE Meaning(Meaning(v, l), o) = Meaning(v, Limit(n))
        BY <1>1, <2>3, <2>4, <2>6, LimitsJoin
  <2> HIDE DEF n
  <2>10. CASE ~Over(r, "hint")
    <3>1. Shortened(c, o) = Topped(r, n)
          BY <1>6, <2>3, <2>5, <2>10 DEF Shortened, Topped, HintAt
    <3>2. HintsPaired(r)
          BY <2>2, <2>10, PairedAppend
    <3>3. s.v = Meaning(M(r).v, Limit(n))
          BY <1>2, <2>7, <2>8, <2>9
    <3>4. s.careful => M(r).careful /\ (M(r).last # "other" => n > 0)
          BY <1>2, <2>5, <2>8
    <3>5. QED BY <1>4, <2>5, <3>1, <3>2, <3>3, <3>4 DEF s
  <2>11. CASE Over(r, "hint")
    <3>1. r # <<>>
          BY <2>11 DEF Over
    <3>2. PICK b \in Seq(Ops), h \in Ops : r = Append(b, h)
          BY <3>1, SequenceEmptyOrAppend
    <3>3. Front(r) = b /\ h.op = "hint"
          BY <2>11, <3>2, EndOf
    <3>4. HintsPaired(b) /\ h.n = l.n
          BY <2>2, <3>2, <3>3, PairedBelow
    <3>5. Shortened(c, o) = Topped(b, n)
          BY <1>6, <2>3, <2>5, <2>11, <3>3 DEF Shortened, Topped, HintAt
    <3>6. M(r) = Go(M(b), h) /\ M(b).v \in Values
          BY <3>2, MeaningFolds, MeansValue
    <3>7. M(r).v = Meaning(M(b).v, h) /\ (M(r).careful => M(b).careful /\ (M(b).last # "other" => h.n > 0))
          BY <3>3, <3>6, GoIs, CarefulIs
    <3>8. Meaning(Meaning(M(b).v, h), l) = Meaning(M(b).v, l)
          BY <2>3, <2>4, <3>3, <3>4, <3>6, HintBelowLimit
    <3>9. s.v = Meaning(M(b).v, Limit(n))
          BY <1>2, <2>8, <2>9, <3>6, <3>7, <3>8
    <3>10. s.careful => M(b).careful /\ (M(b).last # "other" => n > 0)
          BY <1>2, <2>5, <2>8, <3>4, <3>7
    <3>11. QED BY <1>4, <2>5, <3>4, <3>5, <3>9, <3>10 DEF s
  <2>12. QED BY <2>10, <2>11
<1>7. QED BY <1>5, <1>6

\* The pass early_termination keeps what a plan means.
LEMMA EarlyTerminationAlike ==
    ASSUME NEW p \in Seq(Operators)
    PROVE  EarlyTermination(p) \in Seq(Ops) /\ Alike(M(p), M(EarlyTermination(p)))
<1> DEFINE kind == Of("early_termination")
           T == {q \in Seq(Operators) : /\ Fold(kind, q) \in Seq(Ops) /\ HintsPaired(Fold(kind, q))
                                        /\ Alike(M(q), M(Fold(kind, q)))}
<1>1. <<>> \in T
  <2>1. Fold(kind, <<>>) = <<>>
        BY FoldEmpty, StepIs DEF Passes
  <2>2. HintsPaired(<<>>)
        BY DEF HintsPaired
  <2>3. QED BY <2>1, <2>2, EmptySeq, AgreeIsAnEquivalence
<1>2. ASSUME NEW q \in Seq(Operators), q \in T, NEW o \in Operators PROVE Append(q, o) \in T
  <2> DEFINE d == Fold(kind, q)
             t == Append(q, o)
  <2>1. d \in Seq(Ops) /\ HintsPaired(d) /\ Alike(M(q), M(d))
        BY <1>2
  <2>2. Fold(kind, t) = IF o.op = "limit" THEN Shortened(d, o) ELSE Append(d, o)
        BY FoldAppend, StepIs
  <2>3. t \in Seq(Operators) /\ M(t) = Go(M(q), o) /\ o \in Ops
        BY AppendProperties, OperatorsAreOps, MeaningFolds
  <2> HIDE DEF d, t, kind
  <2>4. Alike(M(t), Go(M(d), o))
        BY <2>1, <2>3, GoKeepsAlike
  <2>5. CASE o.op = "limit"
    <3>1. o \in Limits
          BY <2>3, <2>5, OpKinds
    <3>2. /\ Shortened(d, o) \in Seq(Ops) /\ HintsPaired(Shortened(d, o))
          /\ Alike(Go(M(d), o), M(Shortened(d, o)))
          BY <2>1, <3>1, ShortenedAlike
    <3>3. QED BY <2>2, <2>3, <2>4, <2>5, <3>2, AgreeIsAnEquivalence DEF t
  <2>6. CASE o.op # "limit"
    <3>1. Append(d, o) \in Seq(Ops) /\ M(Append(d, o)) = Go(M(d), o)
          BY <2>1, <2>3, AppendProperties, MeaningFolds
    <3>2. o.op # "hint"
          BY DEF Operators
    <3>3. HintsPaired(Append(d, o))
          BY <2>1, <2>3, <3>2, PairedAppend
    <3>4. QED BY <2>2, <2>3, <2>4, <2>6, <3>1, <3>3 DEF t
  <2>7. QED BY <2>5, <2>6
<1>3. Seq(Operators) \subseteq T
  <2> HIDE DEF T
  <2>1. QED BY <1>1, <1>2, ListInduction
<1>4. EarlyTermination(p) = Fold(kind, p)
      BY LenProperties, EarlyTerminationIsFold
<1>5. QED BY <1>3, <1>4

-----------------------------------------------------------------------------
(* partition_parallel and pattern_expansion. *)

\* A hint at the Parallel executor means nothing.
LEMMA ParallelMeansNothing ==
    ASSUME NEW s, NEW o, o.op \in {"expand", "match"}, NEW h, h.op = "hint", h.kind = "Parallel"
    PROVE  Alike(Go(s, o), Go(Go(s, o), h))
<1> DEFINE t == Go(s, o)
<1>1. t.last = "other"
      BY GoIs
<1> HIDE DEF t
<1>2. CarefulOn(t, h)
      BY <1>1, CarefulIs
<1>3. Meaning(t.v, h) = t.v
      BY MeaningIs, FailureStays
<1>4. Go(t, h).v = t.v /\ Go(t, h).last = "other" /\ (t.careful => Go(t, h).careful)
      BY <1>2, <1>3, GoIs
<1>5. Alike(t, Go(t, h))
      BY <1>1, <1>4 DEF Alike
<1>6. QED BY <1>5 DEF t

\* Two operators on top of a plan.
LEMMA AppendTwo ==
    ASSUME NEW U, NEW d \in Seq(U), NEW x \in U, NEW y \in U
    PROVE  d \o <<x, y>> = Append(Append(d, x), y)
<1> DEFINE e == <<x>>
           f == <<y>>
           w == <<x, y>>
<1>1. /\ e \in Seq(U) /\ Len(e) = 1 /\ e[1] = x
      /\ f \in Seq(U) /\ w \in Seq(U) /\ Len(w) = 2 /\ w[1] = x /\ w[2] = y
      OBVIOUS
<1>2. \A s \in Seq(U), z \in U : Append(s, z) \in Seq(U) /\ Append(s, z) = s \o <<z>>
      BY AppendIsConcat, AppendProperties
<1>3. Append(d, x) = d \o e /\ Append(d \o e, y) = (d \o e) \o f
      BY <1>2
<1>4. \A r, s, t \in Seq(U) : (r \o s) \o t = r \o (s \o t)
      BY ConcatAssociative
<1>5. Append(e, y) = e \o f
      BY <1>1, <1>2
<1>0. e \in Seq(U) /\ Len(e) = 1 /\ e[1] = x
      OBVIOUS
<1> HIDE DEF e, f, w
<1>6. Append(e, y) = w
  <2> DEFINE a == Append(e, y)
  <2>1. /\ a \in Seq(U) /\ Len(a) = Len(e) + 1 /\ a[Len(e) + 1] = y
        /\ \A i \in 1..Len(e) : a[i] = e[i]
    <3>1. \A s \in Seq(U) : /\ Append(s, y) \in Seq(U) /\ Len(Append(s, y)) = Len(s) + 1
                            /\ Append(s, y)[Len(s) + 1] = y /\ \A i \in 1..Len(s) : Append(s, y)[i] = s[i]
          BY AppendProperties
    <3>2. e \in Seq(U)
          BY <1>0
    <3>3. QED BY <3>1, <3>2
  <2> HIDE DEF a
  <2>2. 1 \in 1..Len(e) /\ Len(e) + 1 = 2
        BY <1>1
  <2>3. Len(a) = 2 /\ a[1] = x /\ a[2] = y
        BY <1>1, <2>1, <2>2
  <2>4. \A i \in 1..Len(a) : a[i] = w[i]
    <3> TAKE i \in 1..Len(a)
    <3>1. i = 1 \/ i = 2
          BY <2>3
    <3>2. QED BY <1>1, <2>3, <3>1
  <2>5. a = w
        BY <1>1, <2>1, <2>3, <2>4, SeqEqual
  <2>6. QED BY <2>5 DEF a
<1>7. (d \o e) \o f = d \o (e \o f)
      BY <1>1, <1>4
<1>8. d \o w = Append(Append(d, x), y)
      BY <1>3, <1>5, <1>6, <1>7
<1>9. QED BY <1>8 DEF w

\* The pass partition_parallel keeps what a plan means.
LEMMA PartitionParallelAlike ==
    ASSUME NEW p \in Seq(Ops)
    PROVE  PartitionParallel(p) \in Seq(Ops) /\ Alike(M(p), M(PartitionParallel(p)))
<1> DEFINE kind == Of("partition_parallel")
           h == Hint("Parallel", 0)
           T == {q \in Seq(Ops) : Fold(kind, q) \in Seq(Ops) /\ Alike(M(q), M(Fold(kind, q)))}
<1>1. <<>> \in T
  <2>1. Fold(kind, <<>>) = <<>>
        BY FoldEmpty, StepIs DEF Passes
  <2>2. QED BY <2>1, EmptySeq, AgreeIsAnEquivalence
<1>2. ASSUME NEW q \in Seq(Ops), q \in T, NEW o \in Ops PROVE Append(q, o) \in T
  <2> DEFINE d == Fold(kind, q)
             t == Append(q, o)
             x == Append(d, o)
  <2>1. d \in Seq(Ops) /\ Alike(M(q), M(d))
        BY <1>2
  <2>2. Fold(kind, t) = IF o.op \in {"expand", "match"} THEN d \o <<o, h>> ELSE x
        BY FoldAppend, StepIs
  <2>3. t \in Seq(Ops) /\ M(t) = Go(M(q), o)
        BY AppendProperties, MeaningFolds
  <2>4. h \in Ops /\ h.op = "hint" /\ h.kind = "Parallel"
        BY HintTyped
  <2> HIDE DEF d, t, kind, h
  <2>5. Alike(M(t), Go(M(d), o))
        BY <2>1, <2>3, GoKeepsAlike
  <2>6. x \in Seq(Ops) /\ M(x) = Go(M(d), o)
        BY <2>1, AppendProperties, MeaningFolds
  <2>7. CASE o.op \in {"expand", "match"}
    <3>1. d \o <<o, h>> = Append(x, h)
          BY <2>1, <2>4, AppendTwo
    <3> HIDE DEF x
    <3>2. Append(x, h) \in Seq(Ops) /\ M(Append(x, h)) = Go(M(x), h)
          BY <2>4, <2>6, AppendProperties, MeaningFolds
    <3>3. Alike(Go(M(d), o), Go(Go(M(d), o), h))
          BY <2>4, <2>7, ParallelMeansNothing
    <3>4. QED BY <2>2, <2>3, <2>5, <2>6, <2>7, <3>1, <3>2, <3>3, AgreeIsAnEquivalence DEF t
  <2>8. CASE o.op \notin {"expand", "match"}
        BY <2>2, <2>3, <2>5, <2>6, <2>8 DEF t
  <2>9. QED BY <2>7, <2>8
<1>3. Seq(Ops) \subseteq T
  <2> HIDE DEF T
  <2>1. QED BY <1>1, <1>2, ListInduction
<1>4. PartitionParallel(p) = Fold(kind, p)
      BY LenProperties, PartitionParallelIsFold
<1>5. QED BY <1>3, <1>4

\* The conjuncts of a where that are about the root, and a match without them.
RootOf(o)   == {c \in o.where : c.alias = "a"}
RootPred(o) == {c.atom : c \in RootOf(o)}
Unrooted(o) == [o EXCEPT !.where = @ \ RootOf(o)]

\* The two parts of a match are operators.
LEMMA UnrootedTyped ==
    ASSUME NEW o \in Matches
    PROVE  /\ Unrooted(o) \in Matches /\ Unrooted(o).where = o.where \ RootOf(o)
           /\ RootOf(o) = {} => Unrooted(o) = o
           /\ Filter("nodes", RootPred(o)) \in Filters
           /\ Filter("nodes", RootPred(o)).of = "nodes" /\ Filter("nodes", RootPred(o)).pred = RootPred(o)
<1>1. Unrooted(o) \in Matches /\ Unrooted(o).where = o.where \ RootOf(o)
      BY DEF Unrooted, Matches
<1>2. ASSUME RootOf(o) = {} PROVE Unrooted(o) = o
  <2> DEFINE R == RootOf(o)
  <2> HIDE DEF R
  <2>1. R = {}
        BY <1>2 DEF R
  <2>2. [o EXCEPT !.where = @ \ R] = o
        BY <2>1 DEF Matches
  <2>3. QED BY <2>2 DEF Unrooted, R
<1>3. RootPred(o) \in SUBSET Atoms
      BY DEF RootPred, RootOf, Matches
<1>4. QED BY <1>1, <1>2, <1>3 DEF Filter, Filters, Sides

\* A match means what it means to the anchors that the conjuncts about its root keep.
LEMMA RootsFilter ==
    ASSUME NEW s, s.v \in Values, NEW o \in Matches, NEW f \in Filters, NEW m \in Matches,
           f.of = "nodes", f.pred = RootPred(o), m.where = o.where \ RootOf(o)
    PROVE  Alike(Go(s, o), Go(Go(s, f), m))
<1> DEFINE v == s.v
           side == "nodes"
           x == Meaning(v, f)
           y == Meaning(v, o)
           z == Meaning(x, m)
           All(u) == Names({c.atom : c \in u.where})
<1>1. /\ o.op = "match" /\ m.op = "match" /\ f.op = "filter" /\ o \in Ops /\ m \in Ops /\ f \in Ops
      /\ side \in Sides
      BY DEF Matches, Filters, Ops, Operators, Sides
<1>2. x \in Values /\ y \in Values
      BY <1>1, MeaningTyped
<1>3. Go(s, f).v = x /\ Go(s, o).v = y /\ Go(Go(s, f), m).v = z
      BY GoIs
<1>4. Go(s, o).last = "other" /\ Go(Go(s, f), m).last = "other"
      BY <1>1, GoIs
<1>5. Names(f.pred) \subseteq All(o) /\ All(m) \subseteq All(o)
      BY DEF Names, RootPred, RootOf
<1>6. ASSUME \A c \in o.where : c.atom.fails = {}
      PROVE  (\A a \in f.pred : a.fails = {}) /\ \A c \in m.where : c.atom.fails = {}
      BY <1>6 DEF RootPred, RootOf
<1>7. CASE HasFrame(v, side)
  <2> DEFINE g == Frame(v, side)
  <2>1. x \in Tables(side) /\ x.items = Kept(f.pred, g.items) /\ x.cols = g.cols
        BY <1>7, FilterOf
  <2>2. g \in Tables(side) /\ g.items \in Seq(ItemsOf(side))
        BY <1>1, <1>7, FrameIs, ValueKinds
  <2>3. Ok(v)
        BY <1>1, <1>7, FrameIs
  <2>4. y = [domain |-> "pattern", items |-> <<>>, rows |-> RowsFrom(v, o), cols |-> {}]
    <3>1. y = MatchMeans(v, o)
          BY <1>1, <2>3, MeaningIs
    <3> HIDE DEF y
    <3>2. QED BY <1>7, <3>1, MatchMeansIs
  <2> HIDE DEF x, g
  <2>5. Ok(x) /\ HasFrame(x, side) /\ Frame(x, side) = x
        BY <1>1, <2>1, TableIsValue
  <2>6. z = [domain |-> "pattern", items |-> <<>>, rows |-> RowsFrom(x, m), cols |-> {}]
    <3>1. z = MatchMeans(x, m)
          BY <1>1, <2>5, MeaningIs
    <3> HIDE DEF z
    <3>2. QED BY <2>5, <3>1, MatchMeansIs
  <2>7. RowsFrom(v, o) = RowsFrom(x, m)
    <3> DEFINE A == ToSet(g.items)
               B == ToSet(x.items)
    <3>1. B = {n \in A : Holds(f.pred, n)}
          BY <2>1, <2>2, KeptLists
    <3>2. RowsFrom(v, o) = {r \in Steps(A) : \A c \in o.where : Bound(c, r) \in c.atom.holds}
          BY DEF RowsFrom, g
    <3>3. RowsFrom(x, m) = {r \in Steps(B) : \A c \in m.where : Bound(c, r) \in c.atom.holds}
          BY <2>5 DEF RowsFrom
    <3> HIDE DEF A, B
    <3>4. ASSUME NEW r \in DOMAIN Edges
          PROVE  (r \in Steps(A) /\ \A c \in o.where : Bound(c, r) \in c.atom.holds) <=>
                 (r \in Steps(B) /\ \A c \in m.where : Bound(c, r) \in c.atom.holds)
      <4>1. Holds(f.pred, Edges[r].src) <=> \A c \in RootOf(o) : Edges[r].src \in c.atom.holds
            BY DEF Holds, RootPred
      <4>2. \A c \in RootOf(o) : Bound(c, r) = Edges[r].src
            BY DEF RootOf, Bound
      <4>3. (\A c \in o.where : Bound(c, r) \in c.atom.holds) <=>
            (\A c \in RootOf(o) : Bound(c, r) \in c.atom.holds) /\ \A c \in m.where : Bound(c, r) \in c.atom.holds
            BY DEF RootOf
      <4>4. r \in Steps(A) <=> Edges[r].src \in A
            BY DEF Steps
      <4>5. r \in Steps(B) <=> Edges[r].src \in B
            BY DEF Steps
      <4>6. QED BY <3>1, <4>1, <4>2, <4>3, <4>4, <4>5
    <3>5. Steps(A) \subseteq DOMAIN Edges /\ Steps(B) \subseteq DOMAIN Edges
          BY DEF Steps
    <3>6. QED BY <3>2, <3>3, <3>4, <3>5
  <2>8. y = z
        BY <2>4, <2>6, <2>7
  <2> HIDE DEF y, z
  <2>9. Go(s, o).careful => Go(Go(s, f), m).careful
    <3>1. SUFFICES ASSUME Go(s, o).careful PROVE Go(Go(s, f), m).careful
          OBVIOUS
    <3>2. s.careful /\ CarefulOn(s, o)
          BY <3>1, GoIs
    <3>3. (\A c \in o.where : c.atom.fails = {}) /\ All(o) \subseteq g.cols /\ All(o) \subseteq Columns["nodes"]
          BY <1>1, <1>7, <3>2, CarefulIs DEF g
    <3>4. (\A a \in f.pred : a.fails = {}) /\ Names(f.pred) \subseteq g.cols
          BY <1>5, <1>6, <3>3
    <3>5. CarefulOn(s, f)
          BY <1>1, <3>4, CarefulIs DEF g
    <3>6. (\A c \in m.where : c.atom.fails = {}) /\ All(m) \subseteq x.cols /\ All(m) \subseteq Columns["nodes"]
          BY <1>5, <1>6, <2>1, <3>3
    <3>7. CarefulOn(Go(s, f), m)
          BY <1>1, <1>3, <2>5, <3>6, CarefulIs
    <3>8. QED BY <3>2, <3>5, <3>7, GoIs
  <2>10. QED BY <1>3, <1>4, <2>8, <2>9 DEF Alike
<1>8. CASE ~HasFrame(v, side)
  <2>1. x = y /\ ~Ok(x)
    <3>1. CASE Ok(v)
      <4>1. x = Error
            BY <1>1, <1>8, <3>1, MeaningIs DEF FilterMeans
      <4>2. y = Error
            BY <1>1, <1>8, <3>1, MeaningIs DEF MatchMeans
      <4>3. QED BY <4>1, <4>2, ValueKinds
    <3>2. CASE ~Ok(v)
          BY <3>2, FailureStays
    <3>3. QED BY <3>1, <3>2
  <2>2. z = x
        BY <2>1, FailureStays
  <2> HIDE DEF x, y, z
  <2>3. ~HasFrame(x, side)
        BY <1>1, <2>1, FailuresHaveNoFrame
  <2>4. Go(s, o).careful => Go(Go(s, f), m).careful
    <3>1. SUFFICES ASSUME Go(s, o).careful PROVE Go(Go(s, f), m).careful
          OBVIOUS
    <3>2. s.careful /\ CarefulOn(s, o)
          BY <3>1, GoIs
    <3>3. (\A c \in o.where : c.atom.fails = {}) /\ All(o) \subseteq Columns["nodes"]
          BY <1>1, <3>2, CarefulIs
    <3>4. CarefulOn(s, f)
          BY <1>1, <1>6, <1>8, <3>3, CarefulIs
    <3>5. (\A c \in m.where : c.atom.fails = {}) /\ All(m) \subseteq Columns["nodes"]
          BY <1>5, <1>6, <3>3
    <3>6. CarefulOn(Go(s, f), m)
          BY <1>1, <1>3, <2>3, <3>5, CarefulIs
    <3>7. QED BY <3>2, <3>4, <3>6, GoIs
  <2>5. QED BY <1>3, <1>4, <2>1, <2>2, <2>4 DEF Alike
<1>9. QED BY <1>7, <1>8

\* A match on top of a plan, its root first.
LEMMA RootedAlike ==
    ASSUME NEW d \in Seq(Ops), NEW o \in Matches
    PROVE  Rooted(d, o) \in Seq(Ops) /\ Alike(Go(M(d), o), M(Rooted(d, o)))
<1> DEFINE f == Filter("nodes", RootPred(o))
           m == Unrooted(o)
           joins == d # <<>> /\ IsOn(Last(d), "filter", "nodes")
<1>1. /\ m \in Matches /\ m.where = o.where \ RootOf(o) /\ (RootOf(o) = {} => m = o)
      /\ f \in Filters /\ f.of = "nodes" /\ f.pred = RootPred(o)
      BY UnrootedTyped
<1>2. m \in Ops /\ f \in Ops
      BY <1>1 DEF Matches, Filters, Ops, Operators
<1>3. M(d).v \in Values
      BY MeansValue
<1>4. Rooted(d, o) = (IF RootOf(o) = {} THEN d
                      ELSE IF joins THEN [d EXCEPT ![Len(d)].pred = @ \cup RootPred(o)]
                      ELSE Append(d, f)) \o <<m>>
      BY DEF Rooted, RootOf, RootPred, Unrooted
<1> HIDE DEF m, f
<1>5. ASSUME NEW b \in Seq(Ops)
      PROVE  b \o <<m>> \in Seq(Ops) /\ M(b \o <<m>>) = Go(M(b), m)
  <2> DEFINE t == Append(b, m)
  <2>1. t = b \o <<m>> /\ t \in Seq(Ops) /\ M(t) = Go(M(b), m)
        BY <1>2, AppendIsConcat, AppendProperties, MeaningFolds
  <2> HIDE DEF t
  <2>2. QED BY <2>1
<1>6. CASE RootOf(o) = {}
      BY <1>1, <1>4, <1>5, <1>6, AgreeIsAnEquivalence
<1>7. CASE RootOf(o) # {} /\ ~joins
  <2> DEFINE b == Append(d, f)
  <2>1. b \in Seq(Ops) /\ M(b) = Go(M(d), f)
        BY <1>2, AppendProperties, MeaningFolds
  <2>2. Rooted(d, o) = b \o <<m>>
        BY <1>4, <1>7
  <2>3. Alike(Go(M(d), o), Go(Go(M(d), f), m))
        BY <1>1, <1>3, RootsFilter
  <2> HIDE DEF b
  <2>4. QED BY <1>5, <2>1, <2>2, <2>3
<1>8. CASE RootOf(o) # {} /\ joins
  <2>1. PICK r \in Seq(Ops), x \in Ops : d = Append(r, x)
        BY <1>8, SequenceEmptyOrAppend
  <2>2. Last(d) = x /\ Len(d) \in Nat
        BY <2>1, EndOf, LenProperties
  <2>3. x \in Filters /\ x.of = "nodes"
        BY <1>8, <2>2, OpKinds DEF IsOn
  <2> DEFINE j == Joined(x, f)
             b == Append(r, j)
  <2>4. j \in Ops
        BY <1>1, <2>3, JoinedTyped, OperatorsAreOps
  <2>5. Rooted(d, o) = b \o <<m>>
    <3>1. [d EXCEPT ![Len(d)].pred = @ \cup RootPred(o)] = [d EXCEPT ![Len(d)] = Joined(@, f)]
          BY <1>1 DEF Joined
    <3>2. [d EXCEPT ![Len(d)] = Joined(@, f)] = [d EXCEPT ![Len(d)] = j]
          BY <2>2 DEF Last
    <3> HIDE DEF j
    <3>3. [d EXCEPT ![Len(d)] = j] = Append(r, j)
          BY <2>1, <2>4, ReplaceEnd
    <3>4. QED BY <1>4, <1>8, <3>1, <3>2, <3>3
  <2>6. M(d) = Go(M(r), x) /\ M(r).v \in Values
        BY <2>1, MeaningFolds, MeansValue
  <2>7. Agree(Go(Go(M(r), x), f), Go(M(r), j))
        BY <1>1, <2>3, <2>6, FiltersJoin
  <2> HIDE DEF j
  <2>8. b \in Seq(Ops) /\ M(b) = Go(M(r), j)
        BY <2>4, AppendProperties, MeaningFolds
  <2>9. Alike(Go(M(d), o), Go(Go(M(d), f), m))
        BY <1>1, <1>3, RootsFilter
  <2>10. Alike(Go(Go(M(d), f), m), Go(M(b), m))
        BY <2>6, <2>7, <2>8, AgreeIsAnEquivalence, GoKeepsAlike
  <2> HIDE DEF b
  <2>11. QED BY <1>5, <2>5, <2>8, <2>9, <2>10, AgreeIsAnEquivalence
<1>9. QED BY <1>6, <1>7, <1>8

\* The pass pattern_expansion keeps what a plan means.
LEMMA PatternExpansionAlike ==
    ASSUME NEW p \in Seq(Ops)
    PROVE  PatternExpansion(p) \in Seq(Ops) /\ Alike(M(p), M(PatternExpansion(p)))
<1> DEFINE kind == Of("pattern_expansion")
           T == {q \in Seq(Ops) : Fold(kind, q) \in Seq(Ops) /\ Alike(M(q), M(Fold(kind, q)))}
<1>1. <<>> \in T
  <2>1. Fold(kind, <<>>) = <<>>
        BY FoldEmpty, StepIs DEF Passes
  <2>2. QED BY <2>1, EmptySeq, AgreeIsAnEquivalence
<1>2. ASSUME NEW q \in Seq(Ops), q \in T, NEW o \in Ops PROVE Append(q, o) \in T
  <2> DEFINE d == Fold(kind, q)
             t == Append(q, o)
  <2>1. d \in Seq(Ops) /\ Alike(M(q), M(d))
        BY <1>2
  <2>2. Fold(kind, t) = IF o.op = "match" THEN Rooted(d, o) ELSE Append(d, o)
        BY FoldAppend, StepIs
  <2>3. t \in Seq(Ops) /\ M(t) = Go(M(q), o)
        BY AppendProperties, MeaningFolds
  <2> HIDE DEF d, t, kind
  <2>4. Alike(M(t), Go(M(d), o))
        BY <2>1, <2>3, GoKeepsAlike
  <2>5. CASE o.op = "match"
    <3>1. o \in Matches
          BY <2>5, OpKinds
    <3>2. Rooted(d, o) \in Seq(Ops) /\ Alike(Go(M(d), o), M(Rooted(d, o)))
          BY <2>1, <3>1, RootedAlike
    <3>3. QED BY <2>2, <2>3, <2>4, <2>5, <3>2, AgreeIsAnEquivalence DEF t
  <2>6. CASE o.op # "match"
    <3>1. Append(d, o) \in Seq(Ops) /\ M(Append(d, o)) = Go(M(d), o)
          BY <2>1, AppendProperties, MeaningFolds
    <3>2. QED BY <2>2, <2>3, <2>4, <2>6, <3>1 DEF t
  <2>7. QED BY <2>5, <2>6
<1>3. Seq(Ops) \subseteq T
  <2> HIDE DEF T
  <2>1. QED BY <1>1, <1>2, ListInduction
<1>4. PatternExpansion(p) = Fold(kind, p)
      BY LenProperties, PatternExpansionIsFold
<1>5. QED BY <1>3, <1>4

-----------------------------------------------------------------------------
(* The passes together, and what the executor makes of a plan. *)

\* The plan as the first three passes leave it.
PushedDown(on, p) ==
    LET q == IF "predicate_pushdown" \in on THEN PredicatePushdown(p) ELSE p
    IN IF "projection_pushdown" \in on THEN ProjectionPushdown(q) ELSE q
Early(on, p) ==
    IF "traversal_pruning" \in on THEN TraversalPruning(PushedDown(on, p)) ELSE PushedDown(on, p)

\* The two pushdowns keep what a plan means,
LEMMA PushedDownAgrees ==
    ASSUME NEW on, NEW p \in Seq(Operators)
    PROVE  PushedDown(on, p) \in Seq(Operators) /\ Agree(M(p), M(PushedDown(on, p)))
<1> DEFINE p1 == IF "predicate_pushdown" \in on THEN PredicatePushdown(p) ELSE p
           p2 == IF "projection_pushdown" \in on THEN ProjectionPushdown(p1) ELSE p1
<1>1. PushedDown(on, p) = p2
      BY DEF PushedDown
<1>2. p1 \in Seq(Operators) /\ Agree(M(p), M(p1))
      BY PredicatePushdownAgrees, AgreeIsAnEquivalence
<1> HIDE DEF p1
<1>3. p2 \in Seq(Operators) /\ Agree(M(p1), M(p2))
      BY <1>2, ProjectionPushdownAgrees, AgreeIsAnEquivalence
<1> HIDE DEF p2
<1>4. QED BY <1>1, <1>2, <1>3, AgreeIsAnEquivalence

\* traversal_pruning does if no node filter meets an expansion,
LEMMA EarlyIs ==
    ASSUME NEW on, NEW p \in Seq(Operators)
    PROVE  /\ Early(on, p) \in Seq(Operators)
           /\ ~("traversal_pruning" \in on /\ M(p).met) => Agree(M(p), M(Early(on, p)))
<1>1. PushedDown(on, p) \in Seq(Operators) /\ Agree(M(p), M(PushedDown(on, p)))
      BY PushedDownAgrees
<1>2. M(PushedDown(on, p)).met <=> M(p).met
      BY <1>1 DEF Agree
<1>3. QED BY <1>1, <1>2, TraversalPruningIs DEF Early

\* the others do after it,
LEMMA LateAlike ==
    ASSUME NEW on, NEW p \in Seq(Operators)
    PROVE  Optimized(on, p) \in Seq(Ops) /\ Alike(M(Early(on, p)), M(Optimized(on, p)))
<1> DEFINE p3 == Early(on, p)
           p4 == IF "early_termination" \in on THEN EarlyTermination(p3) ELSE p3
           p5 == IF "partition_parallel" \in on THEN PartitionParallel(p4) ELSE p4
           p6 == IF "pattern_expansion" \in on THEN PatternExpansion(p5) ELSE p5
<1>1. Optimized(on, p) = p6
      BY DEF Optimized, Early, PushedDown
<1>2. p3 \in Seq(Operators)
      BY EarlyIs
<1> HIDE DEF p3
<1>3. p4 \in Seq(Ops) /\ Alike(M(p3), M(p4))
      BY <1>2, EarlyTerminationAlike, OperatorsAreOps, AgreeIsAnEquivalence
<1> HIDE DEF p4
<1>4. p5 \in Seq(Ops) /\ Alike(M(p4), M(p5))
      BY <1>3, PartitionParallelAlike, AgreeIsAnEquivalence
<1> HIDE DEF p5
<1>5. p6 \in Seq(Ops) /\ Alike(M(p5), M(p6))
      BY <1>4, PatternExpansionAlike, AgreeIsAnEquivalence
<1> HIDE DEF p6
<1>6. Alike(M(p3), M(p5))
      BY <1>3, <1>4, AgreeIsAnEquivalence
<1>7. Alike(M(p3), M(p6))
      BY <1>5, <1>6, AgreeIsAnEquivalence
<1>8. QED BY <1>1, <1>5, <1>7 DEF p3

\* and so do all of them.
LEMMA OptimizedIs ==
    ASSUME NEW on, NEW p \in Seq(Operators)
    PROVE  /\ Optimized(on, p) \in Seq(Ops)
           /\ ~("traversal_pruning" \in on /\ M(p).met) => Alike(M(p), M(Optimized(on, p)))
<1>1. Optimized(on, p) \in Seq(Ops) /\ Alike(M(Early(on, p)), M(Optimized(on, p)))
      BY LateAlike
<1>2. QED BY <1>1, EarlyIs, AgreeIsAnEquivalence

\* The executor makes of a value what the operator means, if the operator is careful.
LEMMA CarefulApplies ==
    ASSUME NEW s, s.v \in Values, NEW o \in Ops, CarefulOn(s, o)
    PROVE  Apply(s.v, o) = Meaning(s.v, o)
<1> DEFINE v == s.v
<1>1. CASE ~Ok(v)
      BY <1>1, FailureStays
<1>2. CASE Ok(v) /\ o.op = "filter"
  <2> DEFINE f == Frame(v, o.of)
  <2>1. (\A a \in o.pred : a.fails = {}) /\ (HasFrame(v, o.of) => Names(o.pred) \subseteq f.cols)
        BY <1>2, CarefulIs
  <2>2. HasFrame(v, o.of) => \A n : ~Errs(o.pred, n, f.cols)
        BY <2>1 DEF Errs, Names
  <2>3. Filtered(v, o) = FilterMeans(v, o)
        BY <2>2 DEF Filtered, FilterMeans
  <2>4. QED BY <1>2, <2>3, ApplyIs, MeaningIs
<1>3. CASE Ok(v) /\ o.op = "project"
  <2>1. HasFrame(v, o.of) => o.cols \subseteq Frame(v, o.of).cols
        BY <1>3, CarefulIs
  <2>2. Projected(v, o) = ProjectMeans(v, o)
    <3>1. CASE HasFrame(v, o.of)
      <4>1. Frame(v, o.of).cols \cap o.cols = o.cols
            BY <2>1, <3>1
      <4>2. QED BY <2>1, <3>1, <4>1 DEF Projected, ProjectMeans
    <3>2. CASE ~HasFrame(v, o.of)
          BY <3>2 DEF Projected, ProjectMeans
    <3>3. QED BY <3>1, <3>2
  <2>3. QED BY <1>3, <2>2, ApplyIs, MeaningIs
<1>4. CASE Ok(v) /\ o.op = "match"
  <2> DEFINE found == Steps(ToSet(Frame(v, "nodes").items))
             R     == {r \in found : \A c \in o.where : Bound(c, r) \in c.atom.holds}
             w     == [NotYet EXCEPT !.domain = "pattern", !.rows = R]
             errs  == \E r \in found, c \in o.where : Errs({c.atom}, Bound(c, r), Columns["nodes"])
  <2>1. Matched(v, o) = IF ~HasFrame(v, "nodes") \/ errs THEN Error ELSE w
        BY DEF Matched
  <2>2. MatchMeans(v, o) = IF HasFrame(v, "nodes") THEN w ELSE Error
        BY DEF MatchMeans
  <2>3. (\A c \in o.where : c.atom.fails = {}) /\ Names({c.atom : c \in o.where}) \subseteq Columns["nodes"]
        BY <1>4, CarefulIs
  <2>4. \A c \in o.where : \A n : ~Errs({c.atom}, n, Columns["nodes"])
    <3> DEFINE C == Columns["nodes"]
    <3>1. \A c \in o.where : c.atom.cols \subseteq Names({d.atom : d \in o.where})
          BY DEF Names
    <3> HIDE DEF C
    <3>2. \A c \in o.where : c.atom.cols \subseteq C
          BY <2>3, <3>1 DEF C
    <3>3. QED BY <2>3, <3>2 DEF Errs, C
  <2>5. ~errs
        BY <2>4
  <2> HIDE DEF w, errs
  <2>6. Matched(v, o) = MatchMeans(v, o)
        BY <2>1, <2>2, <2>5
  <2>7. QED BY <1>4, <2>6, ApplyIs, MeaningIs
<1>5. CASE Ok(v) /\ o.op = "hint"
  <2>1. o.kind = "TopK" => o.n > 0
        BY <1>5, CarefulIs
  <2>2. o.kind = "TopK" => o.n # 0
    <3>1. o.n \in Nat
          BY <1>5 DEF Ops, Operators, Hints
    <3>2. QED BY <2>1, <3>1
  <2>3. Hinted(v, o) = IF o.kind = "TopK" THEN Cut(v, o) ELSE v
        BY <2>2 DEF Hinted
  <2>4. QED BY <1>5, <2>3, ApplyIs, MeaningIs
<1>6. CASE Ok(v) /\ o.op \in {"expand", "aggregate", "sort", "limit"}
      BY <1>6, ApplyIs
<1>7. QED BY <1>1, <1>2, <1>3, <1>4, <1>5, <1>6, OpKinds

\* What a plan returns is what it means, if it returns something, and if it is careful.
LEMMA OutcomeMeans ==
    ASSUME NEW p \in Seq(Ops)
    PROVE  /\ Outcome(p) \in Values
           /\ Ok(Outcome(p)) \/ M(p).careful => Outcome(p) = M(p).v
<1> DEFINE kind == Of("outcome")
           T == {q \in Seq(Ops) : Ok(Fold(kind, q)) \/ M(q).careful => Fold(kind, q) = M(q).v}
<1>1. <<>> \in T
  <2>1. Fold(kind, <<>>) = Source /\ M(<<>>).v = Source
        BY FoldEmpty, StepIs, MeaningFolds DEF Begin
  <2>2. QED BY <2>1, EmptySeq
<1>2. ASSUME NEW q \in Seq(Ops), q \in T, NEW o \in Ops PROVE Append(q, o) \in T
  <2> DEFINE t == Append(q, o)
             v == Fold(kind, q)
             w == Fold(kind, t)
  <2>1. w = Apply(v, o)
        BY FoldAppend, StepIs
  <2>2. t \in Seq(Ops) /\ M(t) = Go(M(q), o)
        BY AppendProperties, MeaningFolds
  <2>3. Ok(v) \/ M(q).careful => v = M(q).v
        BY <1>2
  <2>4. M(q).v \in Values
        BY MeansValue
  <2>5. M(t).v = Meaning(M(q).v, o) /\ (M(t).careful => M(q).careful /\ CarefulOn(M(q), o))
        BY <2>2, GoIs
  <2> HIDE DEF t, v, w, kind
  <2>6. CASE Ok(w)
    <3>1. Ok(v)
          BY <2>1, <2>6, FailureStays
    <3>2. w \in {Meaning(v, o), Error, Panic}
          BY <2>1, <3>1, ApplyMeansOrFails
    <3>3. w = Meaning(v, o)
          BY <2>6, <3>2, ValueKinds
    <3>4. QED BY <2>2, <2>3, <2>5, <3>1, <3>3 DEF t, w
  <2>7. CASE M(t).careful
    <3>1. v = M(q).v /\ CarefulOn(M(q), o)
          BY <2>3, <2>5, <2>7
    <3>2. Apply(M(q).v, o) = Meaning(M(q).v, o)
          BY <2>4, <3>1, CarefulApplies
    <3>3. QED BY <2>1, <2>2, <2>5, <3>1, <3>2 DEF t, w
  <2>8. QED BY <2>2, <2>6, <2>7 DEF t, w
<1>3. Seq(Ops) \subseteq T
  <2> HIDE DEF T
  <2>1. QED BY <1>1, <1>2, ListInduction
<1>4. Outcome(p) = Fold(kind, p)
      BY LenProperties, OutcomeIsFold
<1>5. Fold(kind, p) \in Values
      BY OutcomeTyped
<1>6. QED BY <1>3, <1>4, <1>5

-----------------------------------------------------------------------------
(* The builder's plan, of which Prunes and Careful speak. *)

\* What is below an operator of a plan stays when one is put on top.
LEMMA BelowAppend ==
    ASSUME NEW U, NEW p \in Seq(U), NEW o \in U
    PROVE  /\ \A i \in 1..Len(p) : SubSeq(Append(p, o), 1, i - 1) = SubSeq(p, 1, i - 1)
           /\ SubSeq(Append(p, o), 1, Len(p)) = p
<1> DEFINE t == Append(p, o)
           n == Len(p)
<1>1. t \in Seq(U) /\ Len(t) = n + 1 /\ n \in Nat /\ (\A i \in 1..n : t[i] = p[i])
      BY AppendProperties, LenProperties
<1> HIDE DEF t, n
<1>2. ASSUME NEW k \in 0..n PROVE SubSeq(t, 1, k) = SubSeq(p, 1, k)
  <2> DEFINE a == SubSeq(t, 1, k)
             b == SubSeq(p, 1, k)
  <2>1. k \in Nat /\ (\A i \in 1..k : i \in 1..n) /\ (1 <= k => k - 1 + 1 = k) /\ (~(1 <= k) => k = 0)
        BY <1>1
  <2>2. (\A i \in 1..k : t[i] \in U) /\ \A i \in 1..k : p[i] \in U
    <3>1. \A i \in 1..n : p[i] \in U
          BY ElementOfSeq DEF n
    <3>2. QED BY <1>1, <2>1, <3>1
  <2>3. a \in Seq(U) /\ Len(a) = k /\ \A i \in 1..k : a[i] = t[i]
        BY <2>1, <2>2
  <2>4. b \in Seq(U) /\ Len(b) = k /\ \A i \in 1..k : b[i] = p[i]
        BY <2>1, <2>2
  <2> HIDE DEF a, b
  <2>5. a = b
        BY <1>1, <2>1, <2>3, <2>4, SeqEqual
  <2>6. QED BY <2>5 DEF a, b
<1>3. SubSeq(p, 1, n) = p
      BY SubSeqFull DEF n
<1>4. n \in 0..n /\ \A i \in 1..n : i - 1 \in 0..n
      BY <1>1
<1>5. QED BY <1>2, <1>3, <1>4 DEF t, n

\* A node filter on top of the plan would meet an expansion; operator i of it does.
Opened(p) == \E j \in 1..Len(p) : p[j].op = "expand" /\ \A k \in (j + 1)..Len(p) : OnNodes(p[k])
Meets(p, i) ==
    /\ IsOn(p[i], "filter", "nodes")
    /\ \E j \in 1..(i - 1) : p[j].op = "expand" /\ \A k \in (j + 1)..(i - 1) : OnNodes(p[k])

\* What a plan means knows whether a node filter of it meets an expansion.
LEMMA MetIs ==
    ASSUME NEW p \in Seq(Ops)
    PROVE  M(p).met <=> \E i \in DOMAIN p : Meets(p, i)
<1> DEFINE T == {q \in Seq(Ops) : (M(q).open <=> Opened(q)) /\ (M(q).met <=> \E i \in DOMAIN q : Meets(q, i))}
<1>1. <<>> \in T
  <2>1. ~Begin.open /\ ~Begin.met
        BY DEF Begin
  <2>2. ~Opened(<<>>)
    <3>1. Len(<<>>) = 0
          BY EmptySeq
    <3>2. QED BY <3>1 DEF Opened
  <2>3. DOMAIN <<>> = {}
        OBVIOUS
  <2>4. <<>> \in Seq(Ops)
        BY EmptySeq
  <2>5. QED BY <2>1, <2>2, <2>3, <2>4, MeaningFolds
<1>2. ASSUME NEW q \in Seq(Ops), q \in T, NEW o \in Ops PROVE Append(q, o) \in T
  <2> DEFINE t == Append(q, o)
             n == Len(q)
  <2>1. /\ t \in Seq(Ops) /\ Len(t) = n + 1 /\ t[n + 1] = o /\ n \in Nat
        /\ \A i \in 1..n : t[i] = q[i]
        BY AppendProperties, LenProperties
  <2>2. M(t) = Go(M(q), o)
        BY MeaningFolds
  <2>3. (M(q).open <=> Opened(q)) /\ (M(q).met <=> \E i \in DOMAIN q : Meets(q, i))
        BY <1>2
  <2>4. DOMAIN q = 1..n
        BY LenProperties
  <2> HIDE DEF t, T
  <2>5. DOMAIN t = 1..(n + 1)
        BY <2>1, LenProperties
  <2>6. (M(t).open <=> o.op = "expand" \/ (OnNodes(o) /\ M(q).open))
        /\ (M(t).met <=> M(q).met \/ (IsOn(o, "filter", "nodes") /\ M(q).open))
        BY <2>2, GoIs
  <2>7. Opened(q) <=> \E j \in 1..n : q[j].op = "expand" /\ \A k \in (j + 1)..n : OnNodes(q[k])
        BY DEF Opened
  <2>8. Opened(t) <=> \E j \in 1..(n + 1) : t[j].op = "expand" /\ \A k \in (j + 1)..(n + 1) : OnNodes(t[k])
        BY <2>1 DEF Opened
  <2>9. \A i \in 1..n : Meets(t, i) <=> Meets(q, i)
    <3> TAKE i \in 1..n
    <3>1. \A j \in 1..(i - 1) : j \in 1..n /\ \A k \in (j + 1)..(i - 1) : k \in 1..n
          BY <2>1
    <3>2. t[i] = q[i] /\ \A j \in 1..(i - 1) : t[j] = q[j] /\ \A k \in (j + 1)..(i - 1) : t[k] = q[k]
          BY <2>1, <3>1
    <3>3. QED BY <3>2 DEF Meets
  <2>10. Meets(t, n + 1) <=> IsOn(o, "filter", "nodes") /\ Opened(q)
    <3>1. (n + 1) - 1 = n
          BY <2>1
    <3>2. \A j \in 1..n : t[j] = q[j] /\ \A k \in (j + 1)..n : t[k] = q[k]
          BY <2>1
    <3>3. Meets(t, n + 1) <=>
             /\ IsOn(o, "filter", "nodes")
             /\ \E j \in 1..n : t[j].op = "expand" /\ \A k \in (j + 1)..n : OnNodes(t[k])
          BY <2>1, <3>1 DEF Meets
    <3> HIDE DEF n
    <3>4. QED BY <2>7, <3>2, <3>3
  <2> HIDE DEF n
  <2>11. M(t).met <=> \E i \in DOMAIN t : Meets(t, i)
    <3>1. \A i : i \in DOMAIN t <=> i \in 1..n \/ i = n + 1
          BY <2>1, <2>5
    <3>2. QED BY <2>3, <2>4, <2>6, <2>9, <2>10, <3>1
  <2>12. M(t).open <=> Opened(t)
    <3>1. ASSUME Opened(t) PROVE o.op = "expand" \/ (OnNodes(o) /\ Opened(q))
      <4>1. PICK j \in 1..(n + 1) : t[j].op = "expand" /\ \A k \in (j + 1)..(n + 1) : OnNodes(t[k])
            BY <2>8, <3>1
      <4>2. CASE j = n + 1
            BY <2>1, <4>1, <4>2
      <4>3. CASE j # n + 1
        <5>1. j \in 1..n /\ n + 1 \in (j + 1)..(n + 1) /\ \A k \in (j + 1)..n : k \in 1..n /\ k \in (j + 1)..(n + 1)
              BY <2>1, <4>1, <4>3
        <5>2. OnNodes(o)
              BY <2>1, <4>1, <5>1
        <5>3. q[j].op = "expand" /\ \A k \in (j + 1)..n : OnNodes(q[k])
              BY <2>1, <4>1, <5>1
        <5>4. QED BY <2>7, <5>1, <5>2, <5>3
      <4>4. QED BY <4>2, <4>3
    <3>2. ASSUME o.op = "expand" PROVE Opened(t)
      <4>1. n + 1 \in 1..(n + 1) /\ \A k \in ((n + 1) + 1)..(n + 1) : FALSE
            BY <2>1
      <4>2. QED BY <2>1, <2>8, <3>2, <4>1
    <3>3. ASSUME OnNodes(o), Opened(q) PROVE Opened(t)
      <4>1. PICK j \in 1..n : q[j].op = "expand" /\ \A k \in (j + 1)..n : OnNodes(q[k])
            BY <2>7, <3>3
      <4>2. j \in 1..(n + 1) /\ \A k \in (j + 1)..(n + 1) : k = n + 1 \/ (k \in (j + 1)..n /\ k \in 1..n)
            BY <2>1, <4>1
      <4>3. t[j].op = "expand"
            BY <2>1, <4>1
      <4>4. \A k \in (j + 1)..(n + 1) : OnNodes(t[k])
            BY <2>1, <3>3, <4>1, <4>2
      <4>5. QED BY <2>8, <4>2, <4>3, <4>4
    <3>4. QED BY <2>3, <2>6, <3>1, <3>2, <3>3
  <2>13. QED BY <2>1, <2>11, <2>12 DEF T, t
<1>3. Seq(Ops) \subseteq T
  <2> HIDE DEF T
  <2>1. QED BY <1>1, <1>2, ListInduction
<1>4. QED BY <1>3

\* Operator i of a plan is careful.
CarefulAt(p, i) ==
    LET o == p[i]
        v == Outcome(SubSeq(p, 1, i - 1))
    IN /\ \A a \in AtomsOf(o) : a.fails = {}
       /\ o.op \in {"filter", "project", "match"} /\ HasFrame(v, SideOf(o)) =>
             Named(o) \subseteq Frame(v, SideOf(o)).cols
       /\ o.op = "match" => Named(o) \subseteq Columns["nodes"]
       /\ o.op = "limit" /\ i > 1 => o.n > 0 \/ p[i - 1].op \notin {"sort", "limit"}

\* What the plan means knows that all of its operators are careful.
LEMMA AllCareful ==
    ASSUME NEW p \in Seq(Operators), \A i \in DOMAIN p : CarefulAt(p, i)
    PROVE  M(p).careful
<1> DEFINE T == {q \in Seq(Operators) : (\A i \in DOMAIN q : CarefulAt(q, i)) => M(q).careful}
<1>1. <<>> \in T
  <2>1. M(<<>>).careful
        BY MeaningFolds DEF Begin
  <2>2. QED BY <2>1, EmptySeq
<1>2. ASSUME NEW q \in Seq(Operators), q \in T, NEW o \in Operators PROVE Append(q, o) \in T
  <2> DEFINE t == Append(q, o)
             n == Len(q)
  <2>1. /\ t \in Seq(Operators) /\ Len(t) = n + 1 /\ t[n + 1] = o /\ n \in Nat
        /\ \A i \in 1..n : t[i] = q[i]
        BY AppendProperties, LenProperties
  <2>2. M(t) = Go(M(q), o) /\ o \in Ops /\ q \in Seq(Ops)
        BY MeaningFolds, OperatorsAreOps
  <2>3. (\A i \in DOMAIN q : CarefulAt(q, i)) => M(q).careful
        BY <1>2
  <2>4. DOMAIN q = 1..n /\ DOMAIN t = 1..(n + 1)
        BY <2>1, LenProperties
  <2>5. (\A i \in 1..n : SubSeq(t, 1, i - 1) = SubSeq(q, 1, i - 1)) /\ SubSeq(t, 1, n) = q
        BY BelowAppend
  <2> SUFFICES ASSUME \A i \in DOMAIN t : CarefulAt(t, i) PROVE M(t).careful
      BY <2>1
  <2> HIDE DEF t, n, T
  <2>6. ASSUME NEW i \in 1..n PROVE CarefulAt(q, i)
    <3>1. i \in DOMAIN t /\ CarefulAt(t, i)
          BY <2>1, <2>4
    <3>2. t[i] = q[i] /\ SubSeq(t, 1, i - 1) = SubSeq(q, 1, i - 1) /\ (i > 1 => t[i - 1] = q[i - 1])
          BY <2>1, <2>5
    <3>3. QED BY <3>1, <3>2 DEF CarefulAt
  <2>7. M(q).careful
        BY <2>3, <2>4, <2>6
  <2>8. Outcome(q) = M(q).v
        BY <2>2, <2>7, OutcomeMeans
  <2>9. CarefulAt(t, n + 1) /\ (n + 1) - 1 = n
        BY <2>1, <2>4
  <2>10. /\ \A a \in AtomsOf(o) : a.fails = {}
         /\ o.op \in {"filter", "project", "match"} /\ HasFrame(M(q).v, SideOf(o)) =>
               Named(o) \subseteq Frame(M(q).v, SideOf(o)).cols
         /\ o.op = "match" => Named(o) \subseteq Columns["nodes"]
         /\ o.op = "limit" /\ n + 1 > 1 => o.n > 0 \/ t[n].op \notin {"sort", "limit"}
         BY <2>1, <2>5, <2>8, <2>9 DEF CarefulAt
  <2>11. o.op = "limit" /\ M(q).last # "other" => o.n > 0
    <3>1. SUFFICES ASSUME o.op = "limit", M(q).last # "other" PROVE o.n > 0
          OBVIOUS
    <3>2. q # <<>>
          BY <3>1, MeaningFolds DEF Begin
    <3>3. PICK b \in Seq(Ops), x \in Ops : q = Append(b, x)
          BY <2>2, <3>2, SequenceEmptyOrAppend
    <3>4. M(q) = Go(M(b), x)
          BY <3>3, MeaningFolds
    <3>5. x.op \in {"sort", "limit"}
          BY <3>1, <3>4, GoIs
    <3>6. n = Len(b) + 1 /\ Len(b) \in Nat /\ q[n] = x
          BY <3>3, AppendProperties, LenProperties DEF n
    <3>7. n + 1 > 1 /\ t[n] = x
          BY <2>1, <3>6
    <3>8. QED BY <2>10, <3>1, <3>5, <3>7
  <2>12. o.op # "hint"
         BY DEF Operators
  <2>13. CarefulOn(M(q), o)
         BY <2>10, <2>11, <2>12 DEF CarefulOn
  <2>14. QED BY <2>2, <2>7, <2>13, GoIs
<1>3. Seq(Operators) \subseteq T
  <2> HIDE DEF T
  <2>1. QED BY <1>1, <1>2, ListInduction
<1>4. QED BY <1>3

-----------------------------------------------------------------------------
(* The specification. *)

\* What was returned is what the passes made of the plan, executed.
IInv ==
    /\ asked \in Seq(Calls) /\ Len(asked) <= MaxOps
    /\ call.on \in Switches \cup {{}} /\ call.want \in Wants
    /\ result = NotYet \/ result = Collected(Outcome(Optimized(call.on, asked)), call.want)

\* The builder's plan is a plan.
LEMMA CallsAreOperators ==
    ASSUME NEW p \in Seq(Calls)
    PROVE  p \in Seq(Operators)
<1>1. Calls \subseteq Operators
      BY CallsAssumption
<1>2. QED BY <1>1, SeqMonotonic

\* The inductive invariant: only Collect sets the result, and the frame is consumed.
LEMMA IInvHolds == Spec => []IInv
<1>1. Init => IInv
  <2>1. <<>> \in Seq(Calls) /\ Len(<<>>) = 0
        BY EmptySeq
  <2>2. MaxOps \in Nat
        BY CallsAssumption
  <2>3. QED BY <2>1, <2>2 DEF Init, IInv, Wants
<1>2. ASSUME IInv, [Next]_vars PROVE IInv'
  <2>1. CASE UNCHANGED vars
        BY <1>2, <2>1 DEF IInv, vars
  <2>2. ASSUME NEW o \in Calls, Build(o) PROVE IInv'
    <3>1. asked' = Append(asked, o) /\ result' = NotYet /\ call' = call /\ Len(asked) < MaxOps
          BY <2>2 DEF Build
    <3>2. asked' \in Seq(Calls) /\ Len(asked') = Len(asked) + 1
          BY <1>2, <3>1, AppendProperties DEF IInv
    <3>3. Len(asked') <= MaxOps
      <4>1. Len(asked) \in Nat /\ MaxOps \in Nat
            BY <1>2, CallsAssumption, LenProperties DEF IInv
      <4>2. QED BY <3>1, <3>2, <4>1
    <3>4. QED BY <1>2, <3>1, <3>2, <3>3 DEF IInv
  <2>3. ASSUME NEW on \in Switches, NEW want \in Wants, Collect(on, want) PROVE IInv'
    <3>1. /\ call'.on = on /\ call'.want = want /\ asked' = asked
          /\ result' = Collected(Outcome(Optimized(on, asked)), want)
          BY <2>3 DEF Collect
    <3>2. QED BY <1>2, <3>1 DEF IInv
  <2>4. QED BY <1>2, <2>1, <2>2, <2>3 DEF Next
<1>3. QED BY <1>1, <1>2, PTL DEF Spec

\* What is collected of a value: a value, that is something only if the other was.
LEMMA CollectedIs ==
    ASSUME NEW v \in Values, NEW want \in Wants
    PROVE  /\ Collected(v, want) \in Values
           /\ Ok(Collected(v, want)) => Ok(v)
<1>1. Ok(Collected(v, want)) => Ok(v)
      BY DEF Collected
<1>2. CASE v.domain = want \/ ~Ok(v)
      BY <1>1, <1>2 DEF Collected
<1>3. CASE ~(v.domain = want \/ ~Ok(v)) /\ v.domain = "graph" /\ want \in Sides
  <2>1. HasFrame(v, want)
        BY <1>3 DEF HasFrame
  <2>2. Frame(v, want) \in Values
        BY <1>3, <2>1, FrameIs, TableIsValue
  <2>3. Collected(v, want) = Frame(v, want)
        BY <1>3 DEF Collected
  <2>4. QED BY <1>1, <2>2, <2>3
<1>4. CASE ~(v.domain = want \/ ~Ok(v)) /\ ~(v.domain = "graph" /\ want \in Sides)
  <2>1. Collected(v, want) = Error
        BY <1>4 DEF Collected
  <2>2. QED BY <1>1, <2>1 DEF Values
<1>5. QED BY <1>2, <1>3, <1>4

\* Every pass, and any set of them in the order of the optimizer, keeps what a plan
\* means, if traversal_pruning is not among them or no node filter meets an expansion:
\* the executor returns of the two plans the same, where it returns something of both.
THEOREM PassesKeepTheMeaning ==
    ASSUME NEW on, NEW p \in Seq(Operators), ~("traversal_pruning" \in on /\ M(p).met)
    PROVE  /\ M(Optimized(on, p)).v = M(p).v
           /\ Ok(Outcome(Optimized(on, p))) /\ Ok(Outcome(p)) => Outcome(Optimized(on, p)) = Outcome(p)
           /\ M(p).careful => Outcome(Optimized(on, p)) = Outcome(p)
<1> DEFINE q == Optimized(on, p)
<1>1. q \in Seq(Ops) /\ Alike(M(p), M(q)) /\ p \in Seq(Ops)
      BY OptimizedIs, OperatorsAreOps
<1> HIDE DEF q
<1>2. M(p).v = M(q).v /\ (M(p).careful => M(q).careful)
      BY <1>1 DEF Alike
<1>3. Ok(Outcome(q)) \/ M(q).careful => Outcome(q) = M(q).v
      BY <1>1, OutcomeMeans
<1>4. Ok(Outcome(p)) \/ M(p).careful => Outcome(p) = M(p).v
      BY <1>1, OutcomeMeans
<1>5. QED BY <1>2, <1>3, <1>4 DEF q

\* The plan is one that the builder made, and what a query returns has rows of one
\* side of the source graph and columns of that side, or of an aggregate over nodes:
\* no operator and no pass makes up a row or a column.
THEOREM TypeCorrect == Spec => []TypeOK
<1>1. IInv => TypeOK
  <2>1. SUFFICES ASSUME IInv PROVE TypeOK
        OBVIOUS
  <2>2. ASSUME result = NotYet PROVE TypeOK
    <3>1. NotYet.domain = "none" /\ NotYet.rows = {}
          BY ValueKinds
    <3>2. QED BY <2>1, <2>2, <3>1 DEF IInv, TypeOK
  <2>3. ASSUME result = Collected(Outcome(Optimized(call.on, asked)), call.want) PROVE TypeOK
    <3> DEFINE v == Outcome(Optimized(call.on, asked))
    <3>1. asked \in Seq(Operators) /\ call.want \in Wants
          BY <2>1, CallsAreOperators DEF IInv
    <3>2. v \in Values
          BY <3>1, OptimizedIs, OutcomeMeans
    <3> HIDE DEF v
    <3>3. result \in Values
          BY <2>3, <3>1, <3>2, CollectedIs DEF v
    <3>4. result \in Graphs \/ result \in Tables("nodes") \/ result \in Tables("edges") \/ result \in Patterns
          \/ result = Error \/ result = Panic
          BY <3>3 DEF Values
    <3>5. /\ result.domain \in Wants \cup {"none", "error", "panic"}
          /\ result.rows \subseteq DOMAIN Edges
          /\ result.domain \in {"graph", "nodes"} => result.items \in Seq(Nodes)
          /\ result.domain = "nodes" => result.cols \subseteq Columns["nodes"] \cup {"count"}
          /\ result.domain = "edges" => result.items \in Seq(DOMAIN Edges) /\ result.cols \subseteq Columns["edges"]
      <4>1. CASE result \in Graphs
            BY <4>1, ValueKinds DEF Wants
      <4>2. CASE result \in Tables("nodes")
            BY <4>2, ValueKinds DEF Wants, ItemsOf, ColsOf
      <4>3. CASE result \in Tables("edges")
            BY <4>3, ValueKinds DEF Wants, ItemsOf, ColsOf
      <4>4. CASE result \in Patterns
            BY <4>4, ValueKinds DEF Wants
      <4>5. CASE result = Error \/ result = Panic
            BY <4>5, ValueKinds
      <4>6. QED BY <3>4, <4>1, <4>2, <4>3, <4>4, <4>5
    <3>6. /\ result.domain \in {"graph", "nodes"} => ToSet(result.items) \subseteq Nodes
          /\ result.domain = "edges" => ToSet(result.items) \subseteq DOMAIN Edges
          BY <3>5, ToSetIn
    <3>7. QED BY <2>1, <3>5, <3>6 DEF IInv, TypeOK
  <2>4. QED BY <2>1, <2>2, <2>3 DEF IInv
<1>2. QED BY <1>1, IInvHolds, PTL

\* What Prunes and Careful say of the plan that was built.
LEMMA PrunesIs ==
    ASSUME asked \in Seq(Operators)
    PROVE  Prunes <=> "traversal_pruning" \in call.on /\ M(asked).met
<1>1. \A i : MeetsExpand(i) <=> Meets(asked, i)
      BY DEF MeetsExpand, Meets, OnNodes
<1>2. asked \in Seq(Ops)
      BY OperatorsAreOps
<1>3. M(asked).met <=> \E i \in DOMAIN asked : Meets(asked, i)
      BY <1>2, MetIs
<1>4. QED BY <1>1, <1>3 DEF Prunes

\* And if every operator of it is careful, so is what it means.
LEMMA CarefulPlan ==
    ASSUME asked \in Seq(Operators), \A i \in DOMAIN asked : Careful(i)
    PROVE  M(asked).careful
<1>1. \A i : Careful(i) <=> CarefulAt(asked, i)
      BY DEF Careful, CarefulAt, Below
<1>2. QED BY <1>1, AllCareful

\* A query that returns something both with the passes and without returns the same,
\* whatever plan the builder made, whatever passes are enabled and whatever its
\* predicates do; unless traversal_pruning is enabled and a node filter reaches an
\* expansion.
THEOREM AnswersAgreeCorrect == Spec => []AnswersAgree
<1>1. IInv => AnswersAgree
  <2>1. SUFFICES ASSUME IInv, Ok(result), Ok(PromisedResult), ~Prunes PROVE result = PromisedResult
        BY DEF AnswersAgree
  <2> DEFINE on == call.on
             w == call.want
             v == Outcome(asked)
             u == Outcome(Optimized(on, asked))
  <2>2. asked \in Seq(Operators) /\ w \in Wants
        BY <2>1, CallsAreOperators DEF IInv
  <2>3. ~("traversal_pruning" \in on /\ M(asked).met)
        BY <2>1, <2>2, PrunesIs
  <2>4. result # NotYet
    <3>1. ~Ok(NotYet)
          BY ValueKinds DEF Ok, Wants
    <3>2. QED BY <2>1, <3>1
  <2>5. result = Collected(u, w) /\ PromisedResult = Collected(v, w)
        BY <2>1, <2>4 DEF IInv, PromisedResult
  <2>6. u \in Values /\ v \in Values
        BY <2>2, OptimizedIs, OutcomeMeans, OperatorsAreOps
  <2>7. Ok(u) /\ Ok(v) => u = v
        BY <2>2, <2>3, PassesKeepTheMeaning
  <2> HIDE DEF u, v, w
  <2>8. Ok(u) /\ Ok(v)
        BY <2>1, <2>2, <2>5, <2>6, CollectedIs
  <2>9. QED BY <2>5, <2>7, <2>8
<1>2. QED BY <1>1, IInvHolds, PTL

\* A query whose operators name columns where they are, with predicates that are no
\* error for any row, returns with the passes what it returns without, an error of
\* the wrong kind of frame included; unless traversal_pruning is enabled and a node
\* filter reaches an expansion, or a sort is cut to 0 rows.
THEOREM CarefulCorrect == Spec => []CarefulPlansKeepTheirResult
<1>1. IInv => CarefulPlansKeepTheirResult
  <2>1. SUFFICES ASSUME IInv, result # NotYet, ~Prunes, \A i \in DOMAIN asked : Careful(i)
                 PROVE  result = PromisedResult
        BY DEF CarefulPlansKeepTheirResult
  <2>2. asked \in Seq(Operators)
        BY <2>1, CallsAreOperators DEF IInv
  <2>3. ~("traversal_pruning" \in call.on /\ M(asked).met)
        BY <2>1, <2>2, PrunesIs
  <2>4. M(asked).careful
        BY <2>1, <2>2, CarefulPlan
  <2>5. result = Collected(Outcome(Optimized(call.on, asked)), call.want)
        BY <2>1 DEF IInv
  <2>6. Outcome(Optimized(call.on, asked)) = Outcome(asked)
        BY <2>2, <2>3, <2>4, PassesKeepTheMeaning
  <2>7. QED BY <2>5, <2>6 DEF PromisedResult
<1>2. QED BY <1>1, IInvHolds, PTL

-----------------------------------------------------------------------------
(* What traversal_pruning makes of a node filter right above an expansion. *)

\* The items of a set in their order are all of it.
LEMMA InOrderHasAll ==
    ASSUME NEW S \in SUBSET Nat, IsFiniteSet(S)
    PROVE  ToSet(InOrder(S)) = S
<1> DEFINE A == [n \in S |-> {m \in S : m < n}]
<1>1. Orders(S, A)
  <2>1. \A x, y, z \in S : x \in Nat /\ y \in Nat /\ z \in Nat
        OBVIOUS
  <2>2. \A x, y \in S : x \in A[y] <=> x < y
        OBVIOUS
  <2>3. \A x \in S : A[x] \in SUBSET S
        OBVIOUS
  <2> HIDE DEF A
  <2>4. QED BY <2>1, <2>2, <2>3 DEF Orders
<1>2. \A n \in S : A[n] = {m \in S : m < n}
      OBVIOUS
<1> HIDE DEF A
<1> DEFINE c(i)  == CHOOSE n \in S : Cardinality({m \in S : m < n}) = i - 1
           at(n) == Cardinality(A[n]) + 1
<1>3. InOrder(S) \in Seq(S) /\ InOrder(S) = [i \in 1..Cardinality(S) |-> c(i)]
      BY InOrderLists DEF InOrder
<1>4. ASSUME NEW n \in S PROVE Cardinality(A[n]) \in Nat /\ at(n) \in 1..Cardinality(S)
  <2> DEFINE T == A[n]
  <2>1. T \in SUBSET S /\ n \notin T
        BY <1>1 DEF Orders
  <2> HIDE DEF T
  <2>2. IsFiniteSet(T) /\ Cardinality(T) <= Cardinality(S) /\ Cardinality(S) # Cardinality(T)
        BY <2>1, FS_Subset
  <2>3. Cardinality(T) \in Nat /\ Cardinality(S) \in Nat
        BY <2>2, FS_CardinalityType
  <2>4. QED BY <2>2, <2>3 DEF T
<1>5. ASSUME NEW x \in S, NEW y \in S, Cardinality(A[x]) = Cardinality(A[y]) PROVE x = y
  <2>1. ASSUME NEW s \in S, NEW t \in S, s < t PROVE Cardinality(A[s]) # Cardinality(A[t])
    <3> DEFINE T == A[s]
               R == A[t]
    <3>1. T \in SUBSET R /\ s \in R /\ s \notin T /\ R \in SUBSET S
      <4>1. T = {m \in S : m < s} /\ R = {m \in S : m < t}
            BY <1>2
      <4>2. s \in Nat /\ t \in Nat /\ \A m \in S : m \in Nat
            OBVIOUS
      <4> HIDE DEF T, R
      <4>3. s < t /\ ~(s < s) /\ \A m \in S : m < s => m < t
            BY <2>1, <4>2
      <4>4. QED BY <4>1, <4>3
    <3> HIDE DEF T, R
    <3>2. IsFiniteSet(R)
          BY <3>1, FS_Subset
    <3>3. Cardinality(R) # Cardinality(T)
          BY <3>1, <3>2, FS_Subset
    <3>4. QED BY <3>3 DEF T, R
  <2>2. ~(x < y) /\ ~(y < x)
        BY <1>5, <2>1
  <2>3. x \in Nat /\ y \in Nat
        OBVIOUS
  <2>4. QED BY <2>2, <2>3
<1>6. ASSUME NEW n \in S PROVE c(at(n)) = n
  <2>1. Cardinality(A[n]) \in Nat
        BY <1>4
  <2>2. at(n) - 1 = Cardinality(A[n])
        BY <2>1
  <2> DEFINE k == at(n)
  <2> HIDE DEF k
  <2>3. \E x \in S : Cardinality({m \in S : m < x}) = k - 1
        BY <1>2, <2>2 DEF k
  <2>4. c(k) \in S /\ Cardinality({m \in S : m < c(k)}) = k - 1
        BY <2>3
  <2> HIDE DEF c
  <2>5. Cardinality(A[c(k)]) = Cardinality(A[n])
        BY <1>2, <2>2, <2>4 DEF k
  <2>6. QED BY <1>5, <2>4, <2>5 DEF k
<1> HIDE DEF c, at
<1>7. \A n \in S : at(n) \in DOMAIN InOrder(S) /\ InOrder(S)[at(n)] = n
      BY <1>3, <1>4, <1>6
<1>8. ToSet(InOrder(S)) \subseteq S
      BY <1>3, ToSetIn
<1>9. QED BY <1>7, <1>8 DEF ToSet

\* With more in its pre_filter an expansion reaches no other node, and beyond its
\* frontier only nodes that pass what was added.
LEMMA PrunedReach ==
    ASSUME NEW v, NEW x, NEW y, NEW pred, NEW S, NEW k \in Nat,
           y.types = x.types, y.hops = x.hops, y.dir = x.dir, y.pre = x.pre \cup pred
    PROVE  \A n \in Reach(Expansion(v, y), S, k) :
              n \in Reach(Expansion(v, x), S, k) /\ (n \in S \/ Holds(pred, n))
<1> DEFINE q == Expansion(v, x)
           g == Expansion(v, y)
<1>1. /\ q.edges = Edges /\ q.types = x.types /\ q.dir = x.dir
      /\ q.passes = {n \in Nodes : Holds(x.pre, n)}
      BY DEF Expansion
<1>2. /\ g.edges = Edges /\ g.types = y.types /\ g.dir = y.dir
      /\ g.passes = {n \in Nodes : Holds(y.pre, n)}
      BY DEF Expansion
<1> HIDE DEF q, g
<1>3. \A m : Entries(g, m) = Entries(q, m)
      BY <1>1, <1>2 DEF Entries, Fits
<1>4. \A n : Holds(y.pre, n) => Holds(x.pre, n) /\ Holds(pred, n)
      BY DEF Holds
<1>5. ASSUME NEW m, NEW n, Hop(g, m, n) PROVE Hop(q, m, n) /\ Holds(pred, n)
      BY <1>1, <1>2, <1>3, <1>4, <1>5 DEF Hop
<1>6. ASSUME NEW n \in Reach(g, S, k) PROVE n \in Reach(q, S, k) /\ (n \in S \/ Holds(pred, n))
  <2>1. PICK j \in 0..k : \E p \in [0..j -> Nodes] :
            p[0] \in S /\ p[j] = n /\ \A i \in 0..(j - 1) : Hop(g, p[i], p[i + 1])
        BY <1>6 DEF Reach
  <2>2. PICK p \in [0..j -> Nodes] :
            p[0] \in S /\ p[j] = n /\ \A i \in 0..(j - 1) : Hop(g, p[i], p[i + 1])
        BY <2>1
  <2>3. \A i \in 0..(j - 1) : Hop(q, p[i], p[i + 1]) /\ Holds(pred, p[i + 1])
        BY <1>5, <2>2
  <2>4. n \in Reach(q, S, k)
    <3>1. n \in Nodes
          BY <1>6 DEF Reach
    <3>2. QED BY <2>2, <2>3, <3>1 DEF Reach
  <2>5. CASE j = 0
        BY <2>2, <2>4, <2>5
  <2>6. CASE j # 0
    <3>1. j - 1 \in 0..(j - 1) /\ (j - 1) + 1 = j
          BY <2>6
    <3>2. Holds(pred, n)
          BY <2>2, <2>3, <3>1
    <3>3. QED BY <2>4, <3>2
  <2>7. QED BY <2>5, <2>6
<1>7. QED BY <1>6 DEF q, g

\* The nodes of what an expansion makes.
LEMMA ExpandedNodes ==
    ASSUME NEW v \in Values, NEW o, Ok(ExpandedBy(v, o))
    PROVE  /\ ExpandedBy(v, o) \in Graphs /\ HasFrame(v, "nodes")
           /\ ToSet(ExpandedBy(v, o).items) =
                 Reach(Expansion(v, o), ToSet(Frame(v, "nodes").items), o.hops)
<1> DEFINE q == Expansion(v, o)
           g == Expanded(q)
           R == Reach(q, Frontier(q), q.hops)
<1>1. ExpandedBy(v, o) \in Graphs
      BY ExpandedTyped, ValueKinds
<1>2. HasFrame(v, "nodes") /\ g.status = "ok" /\ ExpandedBy(v, o) = Graph(InOrder(g.nodes), g.rows)
      BY ValueKinds DEF ExpandedBy
<1>3. q.hops = o.hops /\ q.frontier = Frame(v, "nodes").items
      BY DEF Expansion
<1> HIDE DEF q
<1>4. Frontier(q) = ToSet(Frame(v, "nodes").items)
      BY <1>3 DEF Frontier, ToSet
<1>5. g.nodes = R
  <2>1. Failure.status = "err"
        BY DEF Failure
  <2>2. g = Failure \/ g = [status |-> "ok", nodes |-> R, rows |-> RowsWithin(q, Frontier(q), q.hops)]
        BY DEF Expanded
  <2> HIDE DEF g, R
  <2>3. QED BY <1>2, <2>1, <2>2
<1>6. ToSet(InOrder(R)) = R
  <2>1. IsFiniteSet(Nodes) /\ Nodes \in SUBSET Nat
    <3>1. ASSUME NEW k \in Nat PROVE IsFiniteSet(1..k)
          BY FS_Interval
    <3>2. QED BY <3>1, SourceAssumption DEF Nodes
  <2>2. R \in SUBSET Nodes
        BY DEF Reach
  <2> HIDE DEF R
  <2>3. R \in SUBSET Nat /\ IsFiniteSet(R)
        BY <2>1, <2>2, FS_Subset
  <2>4. QED BY <2>3, InOrderHasAll
<1>7. ExpandedBy(v, o).items = InOrder(R)
  <2> HIDE DEF g, R
  <2>1. QED BY <1>2, <1>5 DEF Graph
<1>8. QED BY <1>1, <1>2, <1>3, <1>4, <1>6, <1>7 DEF q

\* What a fold makes of a list with two more.
LEMMA FoldTwo ==
    ASSUME NEW kind, NEW U, NEW p \in Seq(U), NEW x \in U, NEW o \in U
    PROVE  Fold(kind, Append(Append(p, x), o)) = Step(kind, Step(kind, Fold(kind, p), x), o)
<1> DEFINE q == Append(p, x)
<1>1. q \in Seq(U)
      BY AppendProperties
<1>2. Fold(kind, q) = Step(kind, Fold(kind, p), x)
      BY FoldAppend
<1> HIDE DEF q
<1>3. Fold(kind, Append(q, o)) = Step(kind, Fold(kind, q), o)
      BY <1>1, FoldAppend
<1>4. QED BY <1>2, <1>3 DEF q

\* The pushdowns leave a node filter right above an expansion, and the expansion,
\* where they are; and traversal_pruning what is below them.
LEMMA EarlyOver ==
    ASSUME NEW on, NEW b \in Seq(Operators), NEW x \in Operators, NEW f \in Operators,
           x.op = "expand", IsOn(f, "filter", "nodes"), "traversal_pruning" \in on, ~M(b).met
    PROVE  Early(on, Append(Append(b, x), f)) = Pruned(Append(PushedDown(on, b), x), f)
<1> DEFINE Up(p) == Append(Append(p, x), f)
           c1 == IF "predicate_pushdown" \in on THEN PredicatePushdown(b) ELSE b
           c  == PushedDown(on, b)
<1>1. \A p \in Seq(Operators) : Append(p, x) \in Seq(Operators) /\ Up(p) \in Seq(Operators)
      BY AppendProperties
<1>2. f.op = "filter" /\ f.of = "nodes"
      BY DEF IsOn
<1>3. PredicatePushdown(Up(b)) = Up(PredicatePushdown(b))
  <2> DEFINE kind == Of("predicate_pushdown")
             d    == Fold(kind, b)
  <2>1. PredicatePushdown(Up(b)) = Fold(kind, Up(b)) /\ PredicatePushdown(b) = d
    <3>1. Len(Up(b)) \in Nat /\ Len(b) \in Nat
          BY <1>1, LenProperties
    <3>2. QED BY <3>1, PredicatePushdownIsFold
  <2>2. (\A s : Step(kind, s, x) = Append(s, x)) /\ \A s : Step(kind, s, f) = Pushed(s, f)
        BY <1>2, StepIs
  <2>3. Fold(kind, Up(b)) = Pushed(Append(d, x), f)
    <3>1. Fold(kind, Up(b)) = Step(kind, Step(kind, d, x), f)
          BY FoldTwo
    <3> HIDE DEF d, kind
    <3>2. QED BY <2>2, <3>1
  <2>4. d \in Seq(Operators)
        BY <2>1, PredicatePushdownAgrees
  <2> HIDE DEF d, kind
  <2>5. ~Covers(x, f) /\ ~IsOn(x, "filter", f.of)
        BY DEF Covers, IsOn
  <2>6. Pushed(Append(d, x), f) = Append(Append(d, x), f)
        BY <2>4, <2>5, PushedStops
  <2>7. QED BY <2>1, <2>3, <2>6
<1>4. ASSUME NEW p \in Seq(Operators) PROVE ProjectionPushdown(Up(p)) = Up(ProjectionPushdown(p))
  <2> DEFINE kind == Of("projection_pushdown")
             d    == Fold(kind, p)
  <2>1. ProjectionPushdown(Up(p)) = Fold(kind, Up(p)) /\ ProjectionPushdown(p) = d
    <3>1. Len(Up(p)) \in Nat /\ Len(p) \in Nat
          BY <1>1, LenProperties
    <3>2. QED BY <3>1, ProjectionPushdownIsFold
  <2>2. Fold(kind, Up(p)) = Collapsed(Collapsed(d, x), f)
    <3>1. Fold(kind, Up(p)) = Step(kind, Step(kind, Fold(kind, p), x), f)
          BY FoldTwo
    <3>2. QED BY <1>2, <3>1, StepIs
  <2> HIDE DEF d, kind
  <2>3. Collapsed(d, x) = Append(d, x) /\ Collapsed(Append(d, x), f) = Append(Append(d, x), f)
        BY <1>2 DEF Collapsed
  <2>4. QED BY <2>1, <2>2, <2>3
<1>5. PushedDown(on, Up(b)) = Up(c)
  <2>1. c1 \in Seq(Operators)
        BY PredicatePushdownAgrees
  <2>2. (IF "predicate_pushdown" \in on THEN PredicatePushdown(Up(b)) ELSE Up(b)) = Up(c1)
        BY <1>3
  <2>3. PushedDown(on, b) = IF "projection_pushdown" \in on THEN ProjectionPushdown(c1) ELSE c1
        BY DEF PushedDown
  <2>4. PushedDown(on, Up(b)) = IF "projection_pushdown" \in on THEN ProjectionPushdown(Up(c1)) ELSE Up(c1)
        BY <2>2 DEF PushedDown
  <2> HIDE DEF c1
  <2>5. QED BY <1>4, <2>1, <2>3, <2>4
<1>6. c \in Seq(Operators) /\ ~M(c).met
      BY PushedDownAgrees DEF Agree
<1> HIDE DEF c
<1>7. TraversalPruning(Up(c)) = Pruned(Append(c, x), f)
  <2> DEFINE kind == Of("traversal_pruning")
             d    == Fold(kind, c)
  <2>1. TraversalPruning(Up(c)) = Fold(kind, Up(c)) /\ TraversalPruning(c) = d
    <3>1. Len(Up(c)) \in Nat /\ Len(c) \in Nat
          BY <1>1, <1>6, LenProperties
    <3>2. QED BY <3>1, TraversalPruningIsFold
  <2>2. d = c
        BY <1>6, <2>1, TraversalPruningIs
  <2>3. Fold(kind, Up(c)) = Pruned(Pruned(d, x), f)
    <3>1. Fold(kind, Up(c)) = Step(kind, Step(kind, Fold(kind, c), x), f)
          BY <1>6, FoldTwo
    <3>2. QED BY <1>2, <3>1, StepIs
  <2> HIDE DEF d, kind
  <2>4. Pruned(c, x) = Append(c, x)
        BY DEF Pruned
  <2>5. QED BY <2>1, <2>2, <2>3, <2>4
<1>8. QED BY <1>5, <1>7 DEF Early, c

\* So the filter stays and the plan means what it did, or it is in the pre_filter.
LEMMA PruningMeans ==
    ASSUME NEW on, NEW b \in Seq(Operators), NEW x \in Operators, NEW f \in Operators,
           x.op = "expand", IsOn(f, "filter", "nodes"), "traversal_pruning" \in on, ~M(b).met
    PROVE  M(Optimized(on, Append(Append(b, x), f))).v
              \in {M(Append(Append(b, x), f)).v, Meaning(M(b).v, Gated(x, f))}
<1> DEFINE c == PushedDown(on, b)
           t == Append(Append(b, x), f)
           e == Early(on, t)
<1>1. t \in Seq(Operators) /\ Append(b, x) \in Seq(Operators)
      BY AppendProperties
<1>2. M(t) = Go(Go(M(b), x), f)
      BY <1>1, OperatorsAreOps, MeaningFolds
<1>3. M(Optimized(on, t)).v = M(e).v
      BY <1>1, LateAlike DEF Alike
<1>4. c \in Seq(Operators) /\ Agree(M(b), M(c))
      BY PushedDownAgrees
<1>5. e = Pruned(Append(c, x), f)
      BY EarlyOver
<1> HIDE DEF e, t, c
<1>6. Append(c, x) \in Seq(Operators) /\ Append(c, x) # <<>> /\ Last(Append(c, x)) = x
      BY <1>4, EndOf
<1>7. CASE e = Append(Append(c, x), f)
  <2>1. M(e) = Go(Go(M(c), x), f)
        BY <1>4, <1>6, <1>7, OperatorsAreOps, MeaningFolds
  <2>2. Agree(Go(Go(M(b), x), f), Go(Go(M(c), x), f))
        BY <1>4, GoKeepsAlike
  <2>3. M(t).v = M(e).v
        BY <1>2, <2>1, <2>2 DEF Agree, Alike
  <2>4. QED BY <1>3, <2>3 DEF t
<1>8. CASE e # Append(Append(c, x), f)
  <2> DEFINE s == Append(c, x)
             y == Gated(x, f)
  <2>1. e = [s EXCEPT ![Len(s)] = Gated(@, f)]
        BY <1>5, <1>8 DEF Pruned, Gated
  <2>2. y \in Operators
    <3>1. x \in Expansions /\ f \in Filters
          BY OpKinds, OperatorsAreOps DEF IsOn
    <3>2. y \in Expansions
          BY <3>1 DEF Gated, Expansions, Filters
    <3>3. QED BY <3>2 DEF Expansions, Operators
  <2>3. [s EXCEPT ![Len(s)] = Gated(@, f)] = [s EXCEPT ![Len(s)] = y]
        BY <1>6 DEF Last
  <2> HIDE DEF y
  <2>4. [s EXCEPT ![Len(s)] = y] = Append(c, y)
        BY <1>4, <2>2, ReplaceEnd
  <2>5. M(e).v = Meaning(M(c).v, y)
    <3>1. e = Append(c, y)
          BY <2>1, <2>3, <2>4
    <3>2. M(Append(c, y)) = Go(M(c), y)
          BY <1>4, <2>2, OperatorsAreOps, MeaningFolds
    <3>3. QED BY <3>1, <3>2, GoIs
  <2>6. M(c).v = M(b).v
        BY <1>4 DEF Agree, Alike
  <2>7. QED BY <1>3, <2>5, <2>6 DEF t, y
<1>9. QED BY <1>7, <1>8

\* What the executor makes of the operators below, if it makes something of all.
LEMMA OutcomeBelow ==
    ASSUME NEW b \in Seq(Ops), NEW x \in Ops, Ok(Outcome(Append(b, x)))
    PROVE  Ok(Outcome(b))
<1>1. Append(b, x) \in Seq(Ops) /\ Len(b) \in Nat
      BY AppendProperties, LenProperties
<1>2. Outcome(Append(b, x)) = Apply(Outcome(b), x)
  <2>1. Len(Append(b, x)) \in Nat
        BY <1>1, LenProperties
  <2>2. QED BY <1>1, <2>1, OutcomeIsFold, FoldAppend, StepIs
<1>3. QED BY <1>2, FailureStays

\* A node filter that became part of an expansion's pre_filter adds no node to what a
\* query asks for but nodes that the expansion starts from, whatever is below it: of
\* the part of the meaning that traversal_pruning changes, this is what it keeps.
THEOREM PruningCorrect == Spec => []PruningAddsOnlyTheFrontier
<1>1. IInv => PruningAddsOnlyTheFrontier
  <2> DEFINE last == Len(asked)
             on   == call.on
             goal == ToSet(result.items) \subseteq
                        ToSet(PromisedResult.items) \cup ToSet(Frame(Below(last - 1), "nodes").items)
  <2>1. SUFFICES ASSUME IInv, last > 1, MeetsExpand(last), asked[last - 1].op = "expand",
                        ~\E i \in 1..(last - 1) : MeetsExpand(i),
                        call.want = "nodes", Ok(result), Ok(PromisedResult)
                 PROVE  goal
        BY DEF PruningAddsOnlyTheFrontier
  <2>2. asked \in Seq(Operators) /\ last \in Nat
        BY <2>1, CallsAreOperators, LenProperties DEF IInv
  <2>3. PICK p \in Seq(Operators), f \in Operators : asked = Append(p, f)
    <3>1. asked # <<>>
          BY <2>1, EmptySeq
    <3>2. QED BY <2>2, <3>1, SequenceEmptyOrAppend
  <2>4. last = Len(p) + 1 /\ Len(p) \in Nat /\ asked[last] = f /\ (\A i \in 1..Len(p) : asked[i] = p[i])
        BY <2>3, AppendProperties, LenProperties
  <2>5. PICK b \in Seq(Operators), x \in Operators : p = Append(b, x)
    <3>1. p # <<>>
      <4>1. Len(<<>>) = 0
            BY EmptySeq
      <4>2. QED BY <2>1, <2>4, <4>1
    <3>2. QED BY <3>1, SequenceEmptyOrAppend
  <2>6. Len(p) = Len(b) + 1 /\ Len(b) \in Nat /\ p[Len(p)] = x
        BY <2>5, AppendProperties, LenProperties
  <2>7. x.op = "expand" /\ IsOn(f, "filter", "nodes")
    <3>1. asked[last - 1] = x
          BY <2>4, <2>6
    <3>2. QED BY <2>1, <2>4, <3>1 DEF MeetsExpand
  <2>8. ~M(b).met
    <3>1. ASSUME NEW i \in DOMAIN p PROVE ~Meets(p, i)
      <4>1. i \in 1..Len(p) /\ i \in 1..(last - 1)
            BY <2>4, LenProperties
      <4>2. ~Meets(asked, i)
            BY <2>1, <4>1 DEF MeetsExpand, Meets, OnNodes
      <4>3. \A j \in 1..i : asked[j] = p[j]
            BY <2>4, <4>1
      <4>4. ASSUME Meets(p, i) PROVE FALSE
        <5>1. IsOn(p[i], "filter", "nodes") /\ i \in Nat
              BY <4>1, <4>4 DEF Meets
        <5>2. PICK j \in 1..(i - 1) : p[j].op = "expand" /\ \A k \in (j + 1)..(i - 1) : OnNodes(p[k])
              BY <4>4 DEF Meets
        <5>3. i \in 1..i /\ j \in 1..i /\ \A k \in (j + 1)..(i - 1) : k \in 1..i
              BY <4>1, <5>1
        <5>4. /\ IsOn(asked[i], "filter", "nodes")
              /\ asked[j].op = "expand" /\ \A k \in (j + 1)..(i - 1) : OnNodes(asked[k])
              BY <4>3, <5>1, <5>2, <5>3
        <5>5. QED BY <4>2, <5>4 DEF Meets
      <4>5. QED BY <4>4
    <3>2. ~M(p).met
          BY <3>1, OperatorsAreOps, MetIs
    <3>3. M(p) = Go(M(b), x)
          BY <2>5, OperatorsAreOps, MeaningFolds
    <3>4. QED BY <3>2, <3>3, GoIs
  <2> DEFINE v == Outcome(asked)
             u == Outcome(Optimized(on, asked))
             w == M(b).v
  <2>9. result = Collected(u, "nodes") /\ PromisedResult = Collected(v, "nodes")
    <3>1. ~Ok(NotYet)
          BY ValueKinds DEF Ok, Wants
    <3>2. QED BY <2>1, <3>1 DEF IInv, PromisedResult
  <2>10. u \in Values /\ v \in Values /\ (Ok(u) => u = M(Optimized(on, asked)).v) /\ (Ok(v) => v = M(asked).v)
        BY <2>2, OptimizedIs, OutcomeMeans, OperatorsAreOps
  <2>11. Ok(u) /\ Ok(v)
    <3> HIDE DEF u, v
    <3>1. "nodes" \in Wants
          BY DEF Wants
    <3>2. QED BY <2>1, <2>9, <2>10, <3>1, CollectedIs
  <2>12. M(Optimized(on, asked)).v \in {M(asked).v, Meaning(w, Gated(x, f))}
    <3>1. CASE "traversal_pruning" \in on
          BY <2>3, <2>5, <2>7, <2>8, <3>1, PruningMeans
    <3>2. CASE "traversal_pruning" \notin on
      <4>1. M(Optimized(on, asked)).v = M(asked).v
            BY <2>2, <3>2, PassesKeepTheMeaning
      <4>2. QED BY <4>1
    <3>3. QED BY <3>1, <3>2
  <2>13. Below(last - 1) = w /\ w \in Values
    <3>1. SubSeq(asked, 1, (last - 1) - 1) = b
      <4>1. Len(p) \in 1..Len(p) /\ last - 1 = Len(p) /\ Len(p) - 1 = Len(b)
            BY <2>4, <2>6
      <4>2. SubSeq(asked, 1, Len(p) - 1) = SubSeq(p, 1, Len(p) - 1)
            BY <2>3, <4>1, BelowAppend
      <4>3. SubSeq(p, 1, Len(b)) = b
            BY <2>5, BelowAppend
      <4>4. QED BY <4>1, <4>2, <4>3
    <3>2. Ok(Outcome(b))
          BY <2>3, <2>5, <2>11, OutcomeBelow, OperatorsAreOps
    <3>3. Outcome(b) = M(b).v /\ Outcome(b) \in Values
          BY <3>2, OperatorsAreOps, OutcomeMeans
    <3>4. QED BY <3>1, <3>3 DEF Below
  <2>14. M(asked).v = Meaning(Meaning(w, x), f)
    <3>1. M(p) = Go(M(b), x) /\ M(asked) = Go(M(p), f)
          BY <2>3, <2>5, OperatorsAreOps, MeaningFolds
    <3>2. QED BY <3>1, GoIs
  <2> HIDE DEF u, v, w
  <2>15. CASE u = v
        BY <2>9, <2>15
  <2>16. CASE u # v
    <3> DEFINE y == Gated(x, f)
               r == ExpandedBy(w, x)
               S == ToSet(Frame(w, "nodes").items)
    <3>1. x \in Expansions /\ f \in Filters /\ f.of = "nodes"
          BY <2>7, OpKinds, OperatorsAreOps DEF IsOn
    <3>2. /\ y.op = "expand" /\ y.types = x.types /\ y.hops = x.hops /\ y.dir = x.dir
          /\ y.pre = x.pre \cup f.pred /\ x.hops \in Nat
          BY <2>7, <3>1 DEF Gated, Expansions
    <3> HIDE DEF y
    <3>3. u = Meaning(w, y) /\ v = Meaning(Meaning(w, x), f)
          BY <2>10, <2>11, <2>12, <2>14, <2>16 DEF y
    <3>4. Ok(w)
          BY <2>11, <3>3, FailureStays
    <3>5. u = ExpandedBy(w, y) /\ v = Meaning(r, f)
          BY <2>7, <3>2, <3>3, <3>4, MeaningIs
    <3>6. Ok(r)
          BY <2>11, <3>5, FailureStays
    <3>7. v = FilterMeans(r, f)
          BY <2>7, <3>5, <3>6, MeaningIs DEF IsOn
    <3>8. u \in Graphs /\ ToSet(u.items) = Reach(Expansion(w, y), S, x.hops)
          BY <2>11, <2>13, <3>2, <3>5, ExpandedNodes
    <3>9. r \in Graphs /\ ToSet(r.items) = Reach(Expansion(w, x), S, x.hops)
          BY <2>13, <3>6, ExpandedNodes
    <3> HIDE DEF r
    <3>10. Collected(u, "nodes").items = u.items
      <4>1. u.domain = "graph"
            BY <3>8, ValueKinds
      <4>2. Collected(u, "nodes") = Frame(u, "nodes")
            BY <2>11, <4>1 DEF Collected, Sides
      <4>3. QED BY <4>1, <4>2 DEF Frame, Table
    <3>11. Collected(v, "nodes").items = Kept(f.pred, r.items)
      <4>1. r.domain = "graph" /\ r \in Values
            BY <3>9, ValueKinds DEF Values
      <4>2. HasFrame(r, f.of) /\ Frame(r, "nodes").items = r.items
            BY <4>1 DEF HasFrame, Frame, Table
      <4>3. v = [domain |-> "nodes", items |-> Kept(f.pred, r.items), rows |-> {}, cols |-> Frame(r, "nodes").cols]
            BY <3>1, <3>7, <4>1, <4>2, FilterMeansIs
      <4>4. v.domain = "nodes" /\ v.items = Kept(f.pred, r.items)
            BY <4>3
      <4>5. QED BY <4>4 DEF Collected
    <3>12. ToSet(Kept(f.pred, r.items)) = {n \in ToSet(r.items) : Holds(f.pred, n)}
      <4>1. r.items \in Seq(Nodes)
            BY <3>9, ValueKinds
      <4>2. QED BY <4>1, KeptLists
    <3>13. ASSUME NEW n \in Reach(Expansion(w, y), S, x.hops)
           PROVE  n \in Reach(Expansion(w, x), S, x.hops) /\ (n \in S \/ Holds(f.pred, n))
          BY <3>2, PrunedReach
    <3> HIDE DEF S
    <3>14. ToSet(u.items) \subseteq ToSet(Kept(f.pred, r.items)) \cup S
          BY <3>8, <3>9, <3>12, <3>13
    <3>15. QED BY <2>9, <2>13, <3>10, <3>11, <3>14 DEF S
  <2>17. QED BY <2>15, <2>16
<1>2. QED BY <1>1, IInvHolds, PTL
=============================================================================
