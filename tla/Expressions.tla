----------------------------- MODULE Expressions -----------------------------
(***************************************************************************)
(* Expressions and what they come to on a row.  The executor evaluates     *)
(* them on a node or edge row, on a neighbor with the edge that led to it, *)
(* and on the elements that a pattern binds: one evaluation, in which only *)
(* the columns are read differently.  bfs has a smaller evaluator of its   *)
(* own, which answers false where the executor fails.                      *)
(*                                                                         *)
(* A value is [kind, v].  Strings are numbers, as ids are; a float is the  *)
(* number it is equal to.                                                  *)
(***************************************************************************)
EXTENDS Frames

Val(kind, v) == [kind |-> kind, v |-> v]
NullVal      == Val("Null", 0)
Bool(b)      == Val("Bool", b)

(* Expressions.  Their serialized form is not modelled.                    *)

Col(c)            == [op |-> "col", name |-> c]
Lit(kind, v)      == [op |-> "literal", value |-> Val(kind, v)]
Cmp(l, by, r)     == [op |-> "binary_op", left |-> l, by |-> by, right |-> r]
Both(l, r)        == [op |-> "and", left |-> l, right |-> r]
Either(l, r)      == [op |-> "or", left |-> l, right |-> r]
Not(e)            == [op |-> "not", expr |-> e]
Neg(e)            == [op |-> "unary_op", expr |-> e]
Cast(e, type)     == [op |-> "cast", expr |-> e, type |-> type]
Has(e, item)      == [op |-> "list_contains", left |-> e, right |-> item]
Matching(e, by, p) == [op |-> "string_op", left |-> e, by |-> by, right |-> p]
PatternCol(a, f)  == [op |-> "pattern_col", alias |-> a, field |-> f]

\* A part of an expression has a place: the way to it from the whole.
Places   == Seq({"left", "right", "expr"})
At(e, p) == LET part[q \in Places] == IF q = <<>> THEN e ELSE part[Front(q)][Last(q)] IN part[p]

-----------------------------------------------------------------------------
(* Operations on values. *)

Comparable(l, r) ==
    (l.kind = r.kind /\ l.kind # "List") \/ {l.kind, r.kind} = {"Int", "Float"}
Order(l, r) == IF l.kind = "Bool" THEN (IF l.v = r.v THEN 0 ELSE IF r.v THEN -1 ELSE 1)
               ELSE l.v - r.v

\* Equality is that of the tagged values: an int never equals a float, and null
\* equals null.  An order is false beside a null, and fails on other kinds.
Compared(l, by, r) ==
    IF by = "Eq" THEN Ok(Bool(l.kind = r.kind /\ l.v = r.v))
    ELSE IF by = "NotEq" THEN Ok(Bool(~(l.kind = r.kind /\ l.v = r.v)))
    ELSE IF "Null" \in {l.kind, r.kind} THEN Ok(Bool(FALSE))
    ELSE IF ~Comparable(l, r) THEN Err("TypeMismatch")
    ELSE Ok(Bool(CASE by = "Gt"   -> Order(l, r) > 0
                   [] by = "GtEq" -> Order(l, r) >= 0
                   [] by = "Lt"   -> Order(l, r) < 0
                   [] by = "LtEq" -> Order(l, r) <= 0))

Arithmetic == {"Add", "Sub", "Mul", "Div"}
Size(a)        == IF a < 0 THEN -a ELSE a
Quotient(a, b) ==
    LET q == Size(a) \div Size(b) IN IF (a < 0) # (b < 0) THEN -q ELSE q
Calculated(l, by, r) ==
    LET v == CASE by = "Add" -> l.v + r.v
               [] by = "Sub" -> l.v - r.v
               [] by = "Mul" -> l.v * r.v
               [] by = "Div" -> Quotient(l.v, r.v)
    IN IF ~({l.kind, r.kind} \subseteq {"Int", "Float"}) THEN Err("TypeMismatch")
       ELSE IF by = "Div" /\ r.v = 0 /\ l.kind = "Int" /\ r.kind = "Int" THEN Err("panic")
       ELSE Ok(Val(IF "Float" \in {l.kind, r.kind} THEN "Float" ELSE "Int", v))

Combined(l, by, r) == IF by \in Arithmetic THEN Calculated(l, by, r) ELSE Compared(l, by, r)

CastTo(x, type) ==
    CASE x.kind = "Null" -> Ok(x)
      [] x.kind \in {"Int", "Float"} /\ type = "Int64"   -> Ok(Val("Int", x.v))
      [] x.kind \in {"Int", "Float"} /\ type = "Float64" -> Ok(Val("Float", x.v))
      [] x.kind = "String" /\ type = "Utf8"    -> Ok(x)
      [] x.kind = "Bool"   /\ type = "Boolean" -> Ok(x)
      [] OTHER -> Err("InvalidCast")

\* The strings 1, 2 and 3 stand for a, ab and b.
StringMatches(by, s, p) ==
    \/ s = p
    \/ by \in {"Contains", "StartsWith"} /\ <<s, p>> = <<2, 1>>
    \/ by \in {"Contains", "EndsWith"} /\ <<s, p>> = <<2, 3>>

-----------------------------------------------------------------------------
(* Reading.                                                                *)

\* The executor knows fewer types than the frames may hold.
Kind == [Utf8 |-> "String", Int8 |-> "Int", Int64 |-> "Int", Int32 |-> "Int",
         Float64 |-> "Float", Boolean |-> "Bool", List |-> "List"]
Strings(v) == LET s == SelectSeq(v, LAMBDA x : x # Null) IN [i \in DOMAIN s |-> Val("String", s[i])]
Cell(type, v) ==
    IF v = Null THEN NullVal
    ELSE IF type = "List" THEN Val("List", Strings(v)) ELSE Val(Kind[type], v)
ReadCell(b, row, c) ==
    IF c \notin Names(b) THEN Err("ColumnNotFound")
    ELSE IF b.rows[row][c] # Null /\ TypeOf(b, c) = "Int32" THEN Err("UnsupportedOperation")
    ELSE Ok(Cell(TypeOf(b, c), b.rows[row][c]))

\* A field of what a pattern has bound.  The side it is read from is the one that
\* has such a column, whatever the alias stands for.
ReadField(g, binding, alias, f) ==
    LET bound  == binding[alias]
        onNode == f \in Names(g.nodes.data)
        onEdge == f \in Names(g.edges.data)
    IN IF alias \notin DOMAIN binding THEN Err("InvalidConfig")
       ELSE IF bound = Null THEN Ok(NullVal)
       ELSE IF onNode /\ onEdge THEN Err("InvalidConfig")
       ELSE IF ~onNode /\ ~onEdge THEN Err("ColumnNotFound")
       ELSE IF bound \notin (IF onNode THEN DOMAIN g.edges.ids ELSE DOMAIN EdgeRows(g))
       THEN Err("InvalidConfig")
       ELSE IF onNode THEN ReadCell(g.nodes.data, g.nodes.index[g.edges.ids[bound]], f)
       ELSE ReadCell(g.edges.data, bound, f)

-----------------------------------------------------------------------------
(* Evaluation on a place: a row of a batch, an edge row with its neighbor,  *)
(* or a binding.                                                            *)

OnRow(b, row)        == [at |-> "row", batch |-> b, row |-> row]
OnNeighbor(g, row)   == [at |-> "neighbor", graph |-> g, row |-> row]
OnBinding(g, bound)  == [at |-> "pattern", graph |-> g, row |-> bound]

\* A column that the edges and the nodes both have is the edge's.
ReadColumn(place, c) ==
    CASE place.at = "row"     -> ReadCell(place.batch, place.row, c)
      [] place.at = "pattern" -> Err("UnsupportedOperation")
      [] OTHER ->
            LET g == place.graph
            IN IF c \in Names(g.edges.data) THEN ReadCell(g.edges.data, place.row, c)
               ELSE ReadCell(g.nodes.data, g.nodes.index[EdgeRows(g)[place.row]["_dst"]], c)

Binary(l, r, f(_, _)) ==
    IF l.status # "ok" THEN l ELSE IF r.status # "ok" THEN r ELSE f(l.value, r.value)

\* What the operators of one operand and of two come to for their values.
OnOne(e, x) ==
    CASE e.op = "cast" -> CastTo(x, e.type)
      [] e.op = "not" /\ x.kind = "Bool" -> Ok(Bool(~x.v))
      [] e.op = "unary_op" /\ x.kind \in {"Int", "Float"} -> Ok(Val(x.kind, -x.v))
      [] OTHER -> Err("TypeMismatch")
OnTwo(e, l, r) ==
    CASE e.op = "binary_op" -> Combined(l, e.by, r)
      [] e.op = "and" /\ l.kind = "Bool" /\ r.kind = "Bool" -> Ok(Bool(l.v /\ r.v))
      [] e.op = "or" /\ l.kind = "Bool" /\ r.kind = "Bool" -> Ok(Bool(l.v \/ r.v))
      [] e.op = "list_contains" /\ l.kind = "List" -> Ok(Bool(r \in ToSet(l.v)))
      [] e.op = "string_op" /\ l.kind = "String" /\ r.kind = "String" -> Ok(Bool(StringMatches(e.by, l.v, r.v)))
      [] OTHER -> Err("TypeMismatch")
\* What an expression comes to for what its operands do, as far as it has them.
Applied(e, left, right, one, place) ==
    CASE e.op = "literal" -> Ok(e.value)
      [] e.op = "col"     -> ReadColumn(place, e.name)
      [] e.op = "pattern_col" -> IF place.at = "pattern"
                                 THEN ReadField(place.graph, place.row, e.alias, e.field)
                                 ELSE Err("UnsupportedOperation")
      [] e.op \in {"not", "unary_op", "cast"} -> Then(one, LAMBDA x : OnOne(e, x))
      [] OTHER -> Binary(left, right, LAMBDA l, r : OnTwo(e, l, r))
Evaluate(expr, place) ==
    LET value[p \in Places] == Applied(At(expr, p), value[Append(p, "left")], value[Append(p, "right")],
                                       value[Append(p, "expr")], place)
    IN value[<<>>]

\* The three evaluators of the executor: on a row of a batch, on an edge row with the
\* neighbor it leads to, and on what a pattern has bound.
EvaluateExpr(e, b, row)          == Evaluate(e, OnRow(b, row))
EvaluateNeighborExpr(e, g, row)  == Evaluate(e, OnNeighbor(g, row))
EvaluatePatternExpr(e, g, bound) == Evaluate(e, OnBinding(g, bound))

-----------------------------------------------------------------------------
(* The evaluator of bfs. *)

EvalValue(e, b, row) ==
    CASE e.op = "literal" -> IF e.value.kind = "List" THEN NullVal ELSE e.value
      [] e.op = "col"     -> IF e.name \in Names(b) /\ TypeOf(b, e.name) # "List"
                             THEN Cell(TypeOf(b, e.name), b.rows[row][e.name]) ELSE NullVal
      [] OTHER            -> NullVal
EvalCmp(l, by, r) ==
    LET holds(x) == CASE by = "Eq"   -> x = 0
                      [] by = "NotEq" -> x # 0
                      [] by = "Gt"   -> x > 0
                      [] by = "GtEq" -> x >= 0
                      [] by = "Lt"   -> x < 0
                      [] by = "LtEq" -> x <= 0
                      [] OTHER       -> FALSE
    IN IF "Null" \in {l.kind, r.kind} \/ ~Comparable(l, r) THEN FALSE
       ELSE IF l.kind = "Bool" THEN by \in {"Eq", "NotEq"} /\ holds(Order(l, r))
       ELSE holds(Order(l, r))
EvalListContains(e, b, row) ==
    LET item == EvalValue(e.right, b, row)
    IN /\ e.left.op = "col" /\ item.kind = "String"
       /\ e.left.name \in Names(b) /\ TypeOf(b, e.left.name) = "List"
       /\ item.v \in ToSet(b.rows[row][e.left.name])

EvalBool(expr, b, row) ==
    LET holds[p \in Places] ==
          LET e == At(expr, p)
          IN CASE e.op = "literal"       -> e.value.kind = "Bool" /\ e.value.v
               [] e.op = "and"           -> holds[Append(p, "left")] /\ holds[Append(p, "right")]
               [] e.op = "or"            -> holds[Append(p, "left")] \/ holds[Append(p, "right")]
               [] e.op = "not"           -> ~holds[Append(p, "expr")]
               [] e.op = "binary_op"     -> EvalCmp(EvalValue(e.left, b, row), e.by, EvalValue(e.right, b, row))
               [] e.op = "list_contains" -> EvalListContains(e, b, row)
               [] OTHER                  -> FALSE
    IN holds[<<>>]

-----------------------------------------------------------------------------
(* What the two are compared on: rows without nulls, and expressions whose  *)
(* operands have one kind.                                                  *)

Plain(expr, b, row) ==
    LET atom(x)   == \/ x.op = "literal" /\ x.value.kind \notin {"Null", "List"}
                     \/ x.op = "col" /\ x.name \in Names(b) /\ b.rows[row][x.name] # Null
        kindOf(x) == IF x.op = "literal" THEN x.value.kind ELSE Kind[TypeOf(b, x.name)]
        equality  == {"Eq", "NotEq"}
        plain[p \in Places] ==
          LET e == At(expr, p)
          IN CASE e.op = "literal"       -> e.value.kind = "Bool"
               [] e.op \in {"and", "or"} -> plain[Append(p, "left")] /\ plain[Append(p, "right")]
               [] e.op = "not"           -> plain[Append(p, "expr")]
               [] e.op = "binary_op"     -> /\ atom(e.left) /\ atom(e.right)
                                            /\ kindOf(e.left) = kindOf(e.right) /\ kindOf(e.left) # "List"
                                            /\ e.by \notin Arithmetic
                                            /\ kindOf(e.left) = "Bool" => e.by \in equality
               [] e.op = "list_contains" -> /\ atom(e.left) /\ e.left.op = "col" /\ kindOf(e.left) = "List"
                                            /\ atom(e.right) /\ kindOf(e.right) = "String"
               [] OTHER                  -> FALSE
    IN plain[<<>>]
=============================================================================
