----------------------------- MODULE Optimizer -----------------------------
(***************************************************************************)
(* Lazy queries: LazyGraphFrame builds a plan call by call, and collect    *)
(* runs the optimizer's passes over it and executes what they made.  A     *)
(* plan is a chain, since every node but the Scan has one input, so it is  *)
(* a sequence of operators, the first one above the Scan.                  *)
(*                                                                         *)
(* An atom is a predicate without And: what it holds for, what it is an    *)
(* error for, and the columns it names.  And evaluates both sides, so a    *)
(* predicate is the set of its atoms.  Rows are abstracted to the number   *)
(* of a node or an edge; the reserved columns are in every frame, no       *)
(* column is in both frames, and the executor can read the type of each.   *)
(***************************************************************************)
EXTENDS Hops, Integers, SequencesExt

CONSTANTS
    Edges,     \* the edge rows of the source graph
    Columns,   \* the columns of its nodes and of its edges
    Rank,      \* for each column the order of the values in it
    Calls,     \* the operators that the builder may be called with
    Switches,  \* the sets of passes that a caller may enable
    MaxOps     \* bound on the length of a plan

Sides  == {"nodes", "edges"}
Passes == {"predicate_pushdown", "projection_pushdown", "traversal_pruning",
           "early_termination", "partition_parallel", "pattern_expansion"}
Default == {"predicate_pushdown", "projection_pushdown", "traversal_pruning",
            "pattern_expansion"}
Wants   == {"graph", "nodes", "edges", "pattern"}

\* An atom: what it holds for, what it is an error for, and the columns it names.
Atoms == [holds : SUBSET Nat, fails : SUBSET Nat, cols : SUBSET STRING]
\* What the builder's calls put on a plan; hints are the optimizer's.
Operators ==
    [op : {"filter"}, of : Sides, pred : SUBSET Atoms]
    \cup [op : {"project"}, of : Sides, cols : SUBSET STRING]
    \cup [op : {"expand"}, types : SUBSET Types, hops : Nat, dir : Directions, pre : SUBSET Atoms]
    \cup [op : {"match"}, where : SUBSET [alias : {"a", "b"}, atom : Atoms]]
    \cup [op : {"aggregate"}] \cup [op : {"sort"}, by : STRING] \cup [op : {"limit"}, n : Nat]

\* The source is a GraphFrame, and the values of a column can be ordered.
ASSUME SourceAssumption == NodeCount \in Nat /\ Edges \in Seq(Row)
ASSUME RankAssumption ==
    /\ \A c \in Columns["nodes"] \cup {"count"} : \A n \in Nodes : Rank[c][n] \in Int
    /\ \A c \in Columns["edges"] : \A r \in DOMAIN Edges : Rank[c][r] \in Int
ASSUME CallsAssumption == Calls \subseteq Operators /\ MaxOps \in Nat

VARIABLES
    asked,      \* the plan that was built
    call,       \* how it was collected
    optimized,  \* the plan that was executed
    result      \* what was returned

vars == <<asked, call, optimized, result>>

NotYet == [domain |-> "none", items |-> <<>>, rows |-> {}, cols |-> {}]
Error  == [NotYet EXCEPT !.domain = "error"]
Panic  == [NotYet EXCEPT !.domain = "panic"]
Ok(v)  == v.domain \in Wants

-----------------------------------------------------------------------------
(* Operators. *)

Filter(side, pred) == [op |-> "filter", of |-> side, pred |-> pred]
Hint(kind, n)      == [op |-> "hint", kind |-> kind, n |-> n]
Limit(n)           == [op |-> "limit", n |-> n]

IsOn(o, op, side) == o.op = op /\ o.of = side
Over(done, op)    == done # <<>> /\ Last(done).op = op

-----------------------------------------------------------------------------
(* Execution: each operator makes a value of what is below it. *)

InOrder(S) ==
    [i \in 1..Cardinality(S) |-> CHOOSE n \in S : Cardinality({m \in S : m < n}) = i - 1]

Graph(nodes, rows)       == [domain |-> "graph", items |-> nodes, rows |-> rows, cols |-> {}]
Table(side, items, cols) == [domain |-> side, items |-> items, rows |-> {}, cols |-> cols]
Source == Graph(InOrder(Nodes), DOMAIN Edges)

\* A graph stands for each of its two frames.
HasAnyFrame(v, side) == Ok(v)
HasFrame(v, side) == v.domain \in {"graph", side}
Frame(v, side) ==
    IF v.domain = "graph"
    THEN Table(side, IF side = "nodes" THEN v.items ELSE InOrder(v.rows), Columns[side])
    ELSE v

Holds(pred, n)       == \A a \in pred : n \in a.holds
Errs(pred, n, cols)  == \E a \in pred : n \in a.fails \/ ~(a.cols \subseteq cols)

\* The items for which a predicate holds, in their order.
Kept(pred, s) ==
    LET upTo[i \in 0..Len(s)] ==
          IF i = 0 THEN <<>>
          ELSE IF Holds(pred, s[i]) THEN Append(upTo[i - 1], s[i]) ELSE upTo[i - 1]
    IN upTo[Len(s)]

Filtered(v, o) ==
    LET f == Frame(v, o.of)
    IN IF ~HasFrame(v, o.of) \/ \E n \in ToSet(f.items) : Errs(o.pred, n, f.cols)
       THEN Error
       ELSE [f EXCEPT !.items = Kept(o.pred, @)]

Projected(v, o) ==
    LET f == Frame(v, o.of)
    IN IF HasFrame(v, o.of) /\ o.cols \subseteq f.cols THEN [f EXCEPT !.cols = o.cols] ELSE Error

\* The pre_filter is evaluated on the source graph, whatever columns the frontier has.
Expansion(v, o) ==
    [edges |-> Edges, frontier |-> Frame(v, "nodes").items, types |-> o.types,
     hops |-> o.hops, dir |-> o.dir, plan |-> "plain", stop |-> 0,
     passes |-> {n \in Nodes : Holds(o.pre, n)},
     fails |-> {n \in Nodes : Errs(o.pre, n, Columns["nodes"])}]
ExpandedBy(v, o) ==
    LET g == Expanded(Expansion(v, o))
    IN IF HasFrame(v, "nodes") /\ g.status = "ok" THEN Graph(InOrder(g.nodes), g.rows) ELSE Error

\* One step from alias a over an outgoing row to alias b.  A conjunct of the where
\* is an atom about one of them, also on the source graph.
Bound(c, r)    == IF c.alias = "a" THEN Edges[r].src ELSE Edges[r].dst
Steps(anchors) == {r \in DOMAIN Edges : Edges[r].src \in anchors}
Matched(v, o) ==
    LET found == Steps(ToSet(Frame(v, "nodes").items))
    IN IF \/ ~HasFrame(v, "nodes")
          \/ \E r \in found, c \in o.where : Errs({c.atom}, Bound(c, r), Columns["nodes"])
       THEN Error
       ELSE [NotYet EXCEPT !.domain = "pattern",
                           !.rows = {r \in found : \A c \in o.where : Bound(c, r) \in c.atom.holds}]

Aggregated(v, o) ==
    IF HasFrame(v, "nodes")
    THEN [Frame(v, "nodes") EXCEPT !.cols = @ \cup {"count"}] ELSE Error

Sorted(v, o) ==
    LET s == v.items
        ahead(i) == {j \in DOMAIN s : \/ Rank[o.by][s[j]] < Rank[o.by][s[i]]
                                      \/ Rank[o.by][s[j]] = Rank[o.by][s[i]] /\ j < i}
    IN IF v.domain \in Sides /\ o.by \in v.cols
       THEN [v EXCEPT !.items = [k \in DOMAIN s |->
                s[CHOOSE i \in DOMAIN s : Cardinality(ahead(i)) = k - 1]]]
       ELSE Error

Cut(v, o) ==
    LET kept == SubSeq(v.items, 1, IF o.n < Len(v.items) THEN o.n ELSE Len(v.items))
    IN IF v.domain = "pattern" THEN Error
       ELSE [v EXCEPT !.items = kept,
                      !.rows = {r \in @ : {Edges[r].src, Edges[r].dst} \subseteq ToSet(kept)}]

\* A TopK hint selects before it sorts, and panics on position -1.  Below a
\* Parallel hint an expansion finds what it finds without.
Hinted(v, o) ==
    IF o.kind # "TopK" THEN v
    ELSE IF o.n = 0 /\ v.items # <<>> THEN Panic ELSE Cut(v, o)

Run(v, o) ==
    CASE o.op = "filter"    -> Filtered(v, o)
      [] o.op = "project"   -> Projected(v, o)
      [] o.op = "expand"    -> ExpandedBy(v, o)
      [] o.op = "match"     -> Matched(v, o)
      [] o.op = "aggregate" -> Aggregated(v, o)
      [] o.op = "sort"      -> Sorted(v, o)
      [] o.op = "limit"     -> Cut(v, o)
      [] o.op = "hint"      -> Hinted(v, o)
\* A failure below is returned as it is.
Apply(v, o) == IF Ok(v) THEN Run(v, o) ELSE v

Outcome(p) ==
    LET after[i \in 0..Len(p)] == IF i = 0 THEN Source ELSE Apply(after[i - 1], p[i])
    IN after[Len(p)]

\* An expansion right below a LimitAware hint stops where the order of its search
\* happens to take it.  Expand is about these plans, and they are not run here.
StopsShort(p) ==
    \E i \in 2..Len(p) : p[i - 1].op = "expand" /\ p[i].op = "hint" /\ p[i].kind = "LimitAware"

\* collect, collect_nodes, collect_edges and collect_pattern_rows.
Collected(v, want) ==
    IF v.domain = want \/ ~Ok(v) THEN v
    ELSE IF v.domain = "graph" /\ want \in Sides THEN Frame(v, want)
    ELSE Error

-----------------------------------------------------------------------------
(* The passes: each goes up the plan and puts an operator on what it made   *)
(* of those below.                                                          *)

Rewritten(Put(_, _), p) ==
    LET done[i \in 0..Len(p)] == IF i = 0 THEN <<>> ELSE Put(done[i - 1], p[i])
    IN done[Len(p)]

\* A filter goes below the projections that keep its columns, and joins a filter
\* that it meets there.
Covers(o, f) == IsOn(o, "project", f.of) /\ (UNION {a.cols : a \in f.pred}) \subseteq o.cols
Pushed(done, f) ==
    LET stops == {i \in DOMAIN done : ~Covers(done[i], f)}
        k     == IF stops = {} THEN 0 ELSE Max(stops)
    IN IF k > 0 /\ IsOn(done[k], "filter", f.of)
       THEN [done EXCEPT ![k].pred = @ \cup f.pred]
       ELSE InsertAt(done, k + 1, f)
PredicatePushdown(p) ==
    Rewritten(LAMBDA done, o : IF o.op = "filter" THEN Pushed(done, o) ELSE Append(done, o), p)

\* A projection replaces the one it meets.  The columns of the Scan, which this
\* pass also narrows, are not read by the executor.
Collapsed(done, o) ==
    IF o.op = "project" /\ Over(done, "project") /\ Last(done).of = o.of
    THEN [done EXCEPT ![Len(done)].cols = @ \cap o.cols]
    ELSE Append(done, o)
ProjectionPushdown(p) == Rewritten(Collapsed, p)

\* A node filter over an expansion becomes part of its pre_filter, if it names no
\* column of edges.
PrunedAndLost(done, o) ==
    IF o.op = "filter" /\ o.of = "nodes" /\ Over(done, "expand") THEN done ELSE Append(done, o)
EdgeReserved == {"_src", "_dst", "_type", "_direction"}
Pruned(done, o) ==
    IF /\ o.op = "filter" /\ o.of = "nodes"
       /\ Over(done, "expand")
       /\ \A a \in o.pred : a.cols \cap EdgeReserved = {}
    THEN [done EXCEPT ![Len(done)].pre = @ \cup o.pred]
    ELSE Append(done, o)
TraversalPruning(p) == Rewritten(Pruned, p)

\* A limit joins the limit that it meets, whose hint goes, and hints at itself.
ShortenedToOuter(done, o) ==
    LET limited == Over(done, "limit")
        rest    == IF limited THEN Front(done) ELSE done
        base    == IF limited /\ Over(rest, "hint") THEN Front(rest) ELSE rest
    IN Append(base, Limit(o.n))
Shortened(done, o) ==
    LET limited == Over(done, "limit")
        n    == IF limited /\ Last(done).n < o.n THEN Last(done).n ELSE o.n
        rest == IF limited THEN Front(done) ELSE done
        base == IF limited /\ Over(rest, "hint") THEN Front(rest) ELSE rest
    IN base \o (IF Over(base, "sort") THEN <<Hint("TopK", n)>>
                ELSE IF Over(base, "expand") \/ Over(base, "match")
                THEN <<Hint("LimitAware", n)>> ELSE <<>>) \o <<Limit(n)>>
EarlyTermination(p) ==
    Rewritten(LAMBDA done, o : IF o.op = "limit" THEN Shortened(done, o) ELSE Append(done, o), p)

PartitionParallel(p) ==
    Rewritten(LAMBDA done, o : IF o.op \in {"expand", "match"}
                               THEN done \o <<o, Hint("Parallel", 0)>> ELSE Append(done, o), p)

\* The conjuncts of a where that are about the root alias filter the anchors.
RootedAll(done, o) ==
    IF o.where = {} THEN Append(done, o)
    ELSE done \o <<Filter("nodes", {c.atom : c \in o.where}), [o EXCEPT !.where = {}]>>
Rooted(done, o) ==
    LET root == {c \in o.where : c.alias = "a"}
        pred == {c.atom : c \in root}
    IN (IF root = {} THEN done
        ELSE IF done # <<>> /\ IsOn(Last(done), "filter", "nodes")
        THEN [done EXCEPT ![Len(done)].pred = @ \cup pred]
        ELSE Append(done, Filter("nodes", pred)))
       \o <<[o EXCEPT !.where = @ \ root]>>
PatternExpansion(p) ==
    Rewritten(LAMBDA done, o : IF o.op = "match" THEN Rooted(done, o) ELSE Append(done, o), p)

\* Enabled passes run in this order.
Optimized(on, p) ==
    LET If(pass, Of(_), q) == IF pass \in on THEN Of(q) ELSE q
    IN If("pattern_expansion", PatternExpansion,
       If("partition_parallel", PartitionParallel,
       If("early_termination", EarlyTermination,
       If("traversal_pruning", TraversalPruning,
       If("projection_pushdown", ProjectionPushdown,
       If("predicate_pushdown", PredicatePushdown, p))))))

-----------------------------------------------------------------------------
Init ==
    /\ asked = <<>>
    /\ call = [on |-> {}, want |-> "graph"]
    /\ optimized = <<>>
    /\ result = NotYet

\* filter_nodes, select_nodes, expand and the other calls of the builder.
Build(o) ==
    /\ result = NotYet
    /\ Len(asked) < MaxOps
    /\ asked' = Append(asked, o)
    /\ UNCHANGED <<call, optimized, result>>

\* collect_with_options and its siblings; the frame is consumed.
Collect(on, want) ==
    /\ result = NotYet
    /\ ~StopsShort(Optimized(on, asked))
    /\ call' = [on |-> on, want |-> want]
    /\ optimized' = Optimized(on, asked)
    /\ result' = Collected(Outcome(optimized'), want)
    /\ UNCHANGED asked

Next ==
    \/ \E o \in Calls : Build(o)
    \/ \E on \in Switches, want \in Wants : Collect(on, want)

Spec == Init /\ [][Next]_vars

-----------------------------------------------------------------------------
(* Properties. *)

\* The plan is one that the builder can make, and a result has rows of one side of
\* the source graph and columns of that side, or of an aggregate over nodes.
TypeOK ==
    /\ asked \in Seq(Calls) /\ Len(asked) <= MaxOps
    /\ call.on \in Switches \cup {{}} /\ call.want \in Wants
    /\ result.domain \in Wants \cup {"none", "error", "panic"}
    /\ result.rows \subseteq DOMAIN Edges
    /\ result.domain \in {"graph", "nodes"} => ToSet(result.items) \subseteq Nodes
    /\ result.domain = "nodes" => result.cols \subseteq Columns["nodes"] \cup {"count"}
    /\ result.domain = "edges" => /\ ToSet(result.items) \subseteq DOMAIN Edges
                                 /\ result.cols \subseteq Columns["edges"]

\* What the plan promises: what it returns with no pass enabled.
Below(i)       == Outcome(SubSeq(asked, 1, i - 1))
PromisedResult == Collected(Outcome(asked), call.want)

\* Operator i is a node filter that reaches an expansion below it.
MeetsExpand(i) ==
    /\ IsOn(asked[i], "filter", "nodes")
    /\ \E j \in 1..(i - 1) :
          /\ asked[j].op = "expand"
          /\ \A k \in (j + 1)..(i - 1) :
                IsOn(asked[k], "filter", "nodes") \/ IsOn(asked[k], "project", "nodes")
Prunes == "traversal_pruning" \in call.on /\ \E i \in DOMAIN asked : MeetsExpand(i)

\* The columns that operator i names are there, those of a pattern's where in the
\* source, its predicates are an error for no row, and it does not take the first 0
\* rows of a sort.
AtomsOf(o) ==
    CASE o.op = "filter" -> o.pred [] o.op = "match" -> {c.atom : c \in o.where} [] OTHER -> {}
SideOf(o) == IF o.op = "match" THEN "nodes" ELSE o.of
Named(o)  == IF o.op = "project" THEN o.cols ELSE UNION {a.cols : a \in AtomsOf(o)}
Careful(i) ==
    LET o == asked[i]
    IN /\ \A a \in AtomsOf(o) : a.fails = {}
       /\ o.op \in {"filter", "project", "match"} /\ HasFrame(Below(i), SideOf(o)) =>
             Named(o) \subseteq Frame(Below(i), SideOf(o)).cols
       /\ o.op = "match" => Named(o) \subseteq Columns["nodes"]
       /\ o.op = "limit" /\ i > 1 => o.n > 0 \/ asked[i - 1].op \notin {"sort", "limit"}

\* A query that names columns where they are, with predicates that are no error for
\* any row, returns with the passes what it returns without, an error included;
\* unless a node filter reaches an expansion, or a sort is cut to 0 rows.
CarefulPlansKeepTheirResult ==
    result # NotYet /\ ~Prunes /\ (\A i \in DOMAIN asked : Careful(i)) =>
        result = PromisedResult

\* Whatever it names and whatever its predicates do, a query that returns something
\* both with the passes and without returns the same; unless a node filter reaches
\* an expansion.
AnswersAgree ==
    Ok(result) /\ Ok(PromisedResult) /\ ~Prunes => result = PromisedResult

\* A node filter that became part of an expansion's pre_filter, where it keeps the
\* search from going through what it rejects, adds no node to what the query asks
\* for but the nodes that the expansion starts from.
PruningAddsOnlyTheFrontier ==
    LET last == Len(asked)
    IN /\ last > 1 /\ MeetsExpand(last) /\ asked[last - 1].op = "expand"
       /\ ~\E i \in 1..(last - 1) : MeetsExpand(i)
       /\ call.want = "nodes" /\ Ok(result) /\ Ok(PromisedResult)
       => ToSet(result.items) \subseteq
            ToSet(PromisedResult.items) \cup ToSet(Frame(Below(last - 1), "nodes").items)

\* What the optimizer says of its passes: whatever passes are enabled, a query
\* returns what it returns without.
PassesPreserveSemantics == result # NotYet => result = PromisedResult
=============================================================================
