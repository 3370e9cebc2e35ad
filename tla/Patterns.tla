------------------------------ MODULE Patterns ------------------------------
(***************************************************************************)
(* The operators of the executor that look along edges row by row: pattern *)
(* matching, the aggregation of a node's neighbors, and traversals.        *)
(*                                                                         *)
(* A pattern is [steps, labels]: steps of [from, edge, types, dir, to,     *)
(* optional, min, max], edge Null for a step that names none, and the      *)
(* label that some aliases ask for.  A binding maps aliases to local node  *)
(* numbers and edge rows, or to Null.                                      *)
(***************************************************************************)
EXTENDS Expressions

-----------------------------------------------------------------------------
(* Patterns. *)

SingleHop(g, i, step) ==
    LET fits(s) == SelectSeq(s, LAMBDA p : EdgeRows(g)[p.row]["_type"] \in step.types)
        ahead == IF step.dir \in {"out", "both"} THEN fits(Slice(g.edges.out, i)) ELSE <<>>
        back  == IF step.dir \in {"in", "both"} THEN fits(Slice(g.edges.in, i)) ELSE <<>>
    IN ahead \o back

\* Depth first over simple paths; a node is put out where it is first met.
Collect(g, step, from) ==
    LET numbers == DOMAIN g.edges.ids
        met[i \in numbers, depth \in 0..step.max, visited \in SUBSET numbers] ==
          LET onward == SelectSeq(SingleHop(g, i, step), LAMBDA c : c.to \notin visited)
          IN (IF depth >= step.min THEN <<[to |-> i, row |-> Null]>> ELSE <<>>)
             \o IF depth = step.max THEN <<>>
                ELSE FlattenSeq([k \in DOMAIN onward |->
                                   met[onward[k].to, depth + 1, visited \cup {onward[k].to}]])
    IN WithNew(<<>>, met[from, 0, {from}])
Candidates(g, i, step) ==
    IF step.min = 1 /\ step.max = 1 THEN SingleHop(g, i, step) ELSE Collect(g, step, i)

MatchesConstraint(g, i, alias, pattern) ==
    alias \in DOMAIN pattern.labels =>
        pattern.labels[alias] \in ToSet(Label(g, g.edges.ids[i]))

\* Mutant of Bindable: an alias that is met again stands for what is met last.
BindableAgain(row, alias, v) == TRUE
\* An alias that is met again must stand for the same element.
Bindable(row, alias, v) == alias \in DOMAIN row => row[alias] = v
Bind(row, alias, v)     == [a \in DOMAIN row \cup {alias} |-> IF a = alias THEN v ELSE row[a]]
BindStep(row, step, node, edge) ==
    LET named == Bind(row, step.to, node)
    IN IF ~Bindable(row, step.to, node) THEN <<>>
       ELSE IF step.edge = Null THEN <<named>>
       ELSE IF Bindable(named, step.edge, edge) THEN <<Bind(named, step.edge, edge)>> ELSE <<>>
\* A candidate of several hops binds no edge.
BindCandidate(row, step, c) ==
    IF step.edge # Null /\ c.row = Null THEN <<>> ELSE BindStep(row, step, c.to, c.row)

StepRow(g, pattern, step, row) ==
    LET fitting == SelectSeq(Candidates(g, row[step.from], step),
                             LAMBDA c : MatchesConstraint(g, c.to, step.to, pattern))
        found   == FlattenSeq([i \in DOMAIN fitting |-> BindCandidate(row, step, fitting[i])])
        without == IF step.optional THEN BindStep(row, step, Null, Null) ELSE <<>>
    IN IF row[step.from] = Null \/ found = <<>> THEN without ELSE found

Steps(g, pattern, seeds) ==
    LET stepped(step, rows) ==
          IF rows = <<>> THEN Ok(rows)
          ELSE IF \E i \in DOMAIN rows : step.from \notin DOMAIN rows[i] THEN Err("InvalidConfig")
          ELSE Ok(FlattenSeq([i \in DOMAIN rows |-> StepRow(g, pattern, step, rows[i])]))
        after[k \in 0..Len(pattern.steps)] ==
          IF k = 0 THEN Ok(seeds) ELSE Then(after[k - 1], LAMBDA rows : stepped(pattern.steps[k], rows))
    IN after[Len(pattern.steps)]

PatternError(pattern) ==
    IF \E k \in DOMAIN pattern.steps :
          pattern.steps[k].min = 0 \/ pattern.steps[k].max < pattern.steps[k].min
    THEN "InvalidConfig"
    ELSE IF \E k \in DOMAIN pattern.steps : pattern.steps[k].edge # Null /\ pattern.steps[k].max > 1
    THEN "UnsupportedOperation"
    ELSE IF pattern.steps = <<>> THEN "InvalidConfig" ELSE "ok"

\* where: on every binding it is a boolean, or the whole match fails.
Where(g, rows, e) ==
    LET held  == [i \in DOMAIN rows |-> EvaluatePatternExpr(e, g, rows[i])]
    IN IF e = Null THEN Ok(rows)
       ELSE IF FirstError(held) # "ok" THEN Err(FirstError(held))
       ELSE IF \E i \in DOMAIN rows : held[i].value.kind # "Bool" THEN Err("TypeMismatch")
       ELSE Ok(Picked(rows, {i \in DOMAIN rows : held[i].value.v}))

\* Every column of every alias becomes a column of the answer.
NodeAliases(pattern) == UNION {{s.from, s.to} : s \in ToSet(pattern.steps)}
EdgeAliases(pattern) == {s.edge : s \in ToSet(pattern.steps)} \ {Null}
Materialized(g, pattern, rows) ==
    LET fields(a) == IF a \in NodeAliases(pattern) THEN Names(g.nodes.data) ELSE Names(g.edges.data)
        errors == UNION {{ReadField(g, row, a, f).status : f \in fields(a)} :
                           row \in ToSet(rows), a \in NodeAliases(pattern) \cup EdgeAliases(pattern)}
                    \ {"ok"}
    IN IF NodeAliases(pattern) \cap EdgeAliases(pattern) # {} THEN Err("InvalidConfig")
       ELSE IF errors # {} THEN Err(CHOOSE e \in errors : TRUE)
       ELSE Ok(rows)

PatternMatch(g, anchors, pattern, where) ==
    LET first == pattern.steps[1].from
        seeds == SelectSeq(anchors, LAMBDA x :
                    InEdges(g, x) /\ MatchesConstraint(g, LocalOf(g.edges.ids, x), first, pattern))
        bound == Steps(g, pattern,
                       [i \in DOMAIN seeds |-> first :> LocalOf(g.edges.ids, seeds[i])])
        kept  == Where(g, bound.value, where)
    IN IF PatternError(pattern) # "ok" THEN Err(PatternError(pattern))
       ELSE IF bound.status # "ok" THEN bound
       ELSE IF kept.status # "ok" THEN kept
       ELSE Materialized(g, pattern, kept.value)

-----------------------------------------------------------------------------
(* Aggregation of neighbors.  agg is [agg, expr, name]: name Null for the   *)
(* name of the aggregate itself.                                            *)

EmptyAggregate(agg) ==
    CASE agg \in {"count", "sum"}          -> Val("Int", 0)
      [] agg \in {"mean", "first", "last"} -> NullVal
      [] agg = "list"                      -> Val("List", <<>>)

\* A mean is left as the sum and the number of terms.
Reduced(agg, values) ==
    LET kinds == {values[i].kind : i \in DOMAIN values}
        total == FoldLeft(LAMBDA sum, x : sum + x.v, 0, values)
    IN IF agg \in {"sum", "mean"} /\ ~(kinds \subseteq {"Int", "Float"}) THEN Err("TypeMismatch")
       ELSE IF values = <<>> THEN Ok(EmptyAggregate(agg))
       ELSE Ok(CASE agg = "count" -> Val("Int", Len(values))
                 [] agg = "sum"   -> Val(IF "Float" \in kinds THEN "Float" ELSE "Int", total)
                 [] agg = "mean"  -> Val("Float", <<total, Len(values)>>)
                 [] agg = "list"  -> Val("List", values)
                 [] agg = "first" -> Head(values)
                 [] agg = "last"  -> Last(values))

InferType(g, expr) ==
    LET column(c) == IF c \in Names(g.edges.data) THEN Ok(TypeOf(g.edges.data, c))
                     ELSE IF c \in Names(g.nodes.data)
                     THEN Ok(TypeOf(g.nodes.data, c)) ELSE Err("ColumnNotFound")
        wider(l, r) == Ok(IF "Float64" \in {l, r} THEN "Float64" ELSE "Int64")
        type[p \in Places] ==
          LET e == At(expr, p)
          IN CASE e.op = "col"         -> column(e.name)
               [] e.op = "literal"     -> Ok([Null |-> "Utf8", String |-> "Utf8", Int |-> "Int64",
                                              Float |-> "Float64", Bool |-> "Boolean",
                                              List |-> "List"][e.value.kind])
               [] e.op = "binary_op"   -> IF e.by \in Arithmetic
                                          THEN Binary(type[Append(p, "left")], type[Append(p, "right")], wider)
                                          ELSE Ok("Boolean")
               [] e.op = "unary_op"    -> type[Append(p, "expr")]
               [] e.op = "cast"        -> Ok(e.type)
               [] e.op = "pattern_col" -> Err("UnsupportedOperation")
               [] OTHER                -> Ok("Boolean")
    IN type[<<>>]

Buildable == [Int8 |-> {"Int"}, Int64 |-> {"Int"}, Float64 |-> {"Int", "Float"},
              Utf8 |-> {"String"}, Boolean |-> {"Bool"}, List |-> {"List"}]
Listed == {"Utf8", "Int64", "Float64"}
\* A value of an Int8 column is cut to its width.
Stored(type, x) == IF x.kind = "Null" THEN Null
                   ELSE IF type = "Int8" THEN ((x.v + 128) % 256) - 128
                   ELSE IF type = "List" THEN [i \in DOMAIN x.v |-> x.v[i].v] ELSE x.v

\* The new column goes last, also when the frame has one of the name.  A read by
\* name finds the first.
AppendColumn(nodes, name, type, values) ==
    LET d == nodes.data
    IN IF type \notin DOMAIN Buildable THEN Err("UnsupportedOperation")
       ELSE IF \E i \in DOMAIN values : values[i].kind \notin Buildable[type] \cup {"Null"}
       THEN Err("TypeMismatch")
       ELSE NodesFrom([fields |-> Append(d.fields, [name |-> name, type |-> type, nullable |-> TRUE]),
                       rows |-> [r \in DOMAIN d.rows |->
                           [c \in DOMAIN d.rows[r] \cup {name} |->
                               IF c \in DOMAIN d.rows[r] THEN d.rows[r][c] ELSE Stored(type, values[r])]]])

AggregateForNode(g, x, t, a) ==
    LET rows    == SelectSeq(OutOf(g, x), LAMBDA p : EdgeRows(g)[p.row]["_type"] = t)
        results == [i \in DOMAIN rows |-> EvaluateNeighborExpr(a.expr, g, rows[i].row)]
        values  == [i \in DOMAIN results |-> results[i].value]
    IN IF FirstError(results) # "ok" THEN Err(FirstError(results))
       ELSE Reduced(a.agg, SelectSeq(values, LAMBDA v : v # NullVal))

\* A count is the out degree that structural_features finds for the type.
AggregateNeighbors(g, anchors, t, a) ==
    LET ids      == Column(anchors.data, "_id")
        name     == IF a.name = Null THEN a.agg ELSE a.name
        inferred == InferType(g, a.expr)
        type     == CASE a.agg = "count" -> Ok("Int64")
                      [] a.agg = "mean"  -> Ok("Float64")
                      [] a.agg = "list"  -> IF inferred.status # "ok" THEN inferred
                                            ELSE Ok(IF inferred.value \in Listed THEN "List" ELSE "Nested")
                      [] OTHER           -> inferred
        features == StructuralFeatures(g, t)
        counts   == [i \in DOMAIN ids |->
                        Ok(Val("Int", IF HasNode(features.value, ids[i])
                           THEN features.value.data.rows[features.value.index[ids[i]]]["out_degree"]
                           ELSE 0))]
        results  == IF a.agg = "count" THEN counts
                    ELSE [i \in DOMAIN ids |-> AggregateForNode(g, ids[i], t, a)]
    IN IF type.status # "ok" THEN type
       ELSE IF a.agg = "count" /\ features.status # "ok" THEN features
       ELSE IF FirstError(results) # "ok" THEN Err(FirstError(results))
       ELSE AppendColumn(anchors, name, type.value, [i \in DOMAIN results |-> results[i].value])

-----------------------------------------------------------------------------
(* Traverse: one step of a fixed sequence after the other, each from what   *)
(* the one before it led to.                                                *)

Traversed(g, steps, start, stopAt) ==
    LET further(s, step) ==
          LET dir   == IF step.dir = "none" THEN "both" ELSE step.dir
              met   == UNION {ToSet(SingleHop(g, LocalOf(g.edges.ids, x), [step EXCEPT !.dir = dir])) :
                                x \in {x \in s.frontier : InEdges(g, x)}}
              found == {g.edges.ids[p.to] : p \in met}
              all   == s.visited \cup found
          IN IF s.over \/ found = {} THEN [s EXCEPT !.over = TRUE]
             ELSE [frontier |-> found, visited |-> all, rows |-> s.rows \cup {p.row : p \in met},
                   over |-> stopAt # Null /\ Cardinality(all) >= stopAt]
    IN FoldLeft(further, [frontier |-> start, visited |-> start, rows |-> {}, over |-> FALSE], steps)
Traverse(g, start, steps, stopAt) ==
    LET s == Traversed(g, steps, start, stopAt)
    IN NewGraph(NodesIn(g.nodes, s.visited), EdgesAt(g.edges, s.rows))

-----------------------------------------------------------------------------
(* What a match is compared with: the ways to stand an element for every    *)
(* alias so that each step is an edge, or a simple path of its length.      *)

SimplePathsOf(g, step, i, length) ==
    LET longer(path) == {Append(path, c.to) :
                            c \in {c \in ToSet(SingleHop(g, Last(path), step)) : c.to \notin ToSet(path)}}
        paths[k \in 0..length] == IF k = 0 THEN {<<i>>} ELSE UNION {longer(path) : path \in paths[k - 1]}
    IN paths[length]
LeadsTo(g, step, i, j) ==
    IF step.max = 1 THEN \E c \in ToSet(SingleHop(g, i, step)) : c.to = j
    ELSE \E k \in step.min..step.max : \E path \in SimplePathsOf(g, step, i, k) : Last(path) = j
IsMatch(g, pattern, anchors, where, b) ==
    /\ g.edges.ids[b[pattern.steps[1].from]] \in ToSet(anchors)
    /\ \A a \in NodeAliases(pattern) : MatchesConstraint(g, b[a], a, pattern)
    /\ \A s \in ToSet(pattern.steps) :
          IF s.edge = Null THEN LeadsTo(g, s, b[s.from], b[s.to])
          ELSE \E c \in ToSet(SingleHop(g, b[s.from], s)) : c.to = b[s.to] /\ c.row = b[s.edge]
    /\ where # Null => EvaluatePatternExpr(where, g, b).value = Bool(TRUE)
Matches(g, pattern, anchors, where) ==
    LET bindings == [NodeAliases(pattern) \cup EdgeAliases(pattern) ->
                        DOMAIN g.edges.ids \cup DOMAIN EdgeRows(g)]
    IN {b \in bindings :
          /\ \A a \in NodeAliases(pattern) : b[a] \in DOMAIN g.edges.ids
          /\ \A a \in EdgeAliases(pattern) : b[a] \in DOMAIN EdgeRows(g)
          /\ IsMatch(g, pattern, anchors, where, b)}
\* When the last step is optional, a way for the other aliases that none for all of
\* them extends leaves the rest null, and the condition is put to that.
MatchesOrNulls(g, pattern, anchors, where) ==
    LET shorter == [pattern EXCEPT !.steps = Front(@)]
        aliases(p) == NodeAliases(p) \cup EdgeAliases(p)
        all     == Matches(g, pattern, anchors, Null)
        alone   == {b \in Matches(g, shorter, anchors, Null) :
                      ~\E m \in all : \A a \in DOMAIN b : m[a] = b[a]}
        filled  == {[a \in aliases(pattern) |-> IF a \in DOMAIN b THEN b[a] ELSE Null] : b \in alone}
    IN {b \in all \cup filled : where # Null => EvaluatePatternExpr(where, g, b).value = Bool(TRUE)}
=============================================================================
