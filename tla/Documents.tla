----------------------------- MODULE Documents -----------------------------
(***************************************************************************)
(* The text format .gf.  A text is a sequence of items, as the grammar     *)
(* tells them apart; the parser makes a document of it, and the frames are *)
(* built from the document, with column types that are inferred from its   *)
(* values.  The writer makes a text from a graph.                          *)
(*                                                                         *)
(* Labels, types and column names are identifiers in every instance.       *)
(***************************************************************************)
EXTENDS Schemas

CONSTANTS NotIdent,     \* ids that the grammar does not read
          Unreadable,   \* values whose literal the parser refuses
          NameOrder     \* the names of the columns, as they sort

-----------------------------------------------------------------------------
(* Dates. *)

IsLeap(y) == (y % 4 = 0 /\ y % 100 # 0) \/ y % 400 = 0
DaysInMonth(y, m) == IF m = 2 THEN (IF IsLeap(y) THEN 29 ELSE 28) ELSE IF m \in {4, 6, 9, 11} THEN 30 ELSE 31
\* Days from 1970-01-01, in years that begin in March and eras of 400 of them.
DaysFromCivil(y, m, d) ==
    LET year == IF m <= 2 THEN y - 1 ELSE y
        era  == (IF year >= 0 THEN year ELSE year - 399) \div 400
        yoe  == year - era * 400
        doy  == (153 * (m + IF m > 2 THEN -3 ELSE 9) + 2) \div 5 + d - 1
        doe  == yoe * 365 + yoe \div 4 - yoe \div 100 + doy
    IN era * 146097 + doe - 719468
DateError(v) == IF v[2] \notin 1..12 THEN "ParseError"
                ELSE IF v[3] \notin 1..DaysInMonth(v[1], v[2]) THEN "ParseError" ELSE "ok"
ParseDate(v) == Unless(DateError(v), Ok(DaysFromCivil(v[1], v[2], v[3])))
\* A time is kept as days and seconds.
ParseDatetime(v) ==
    Then(ParseDate(v), LAMBDA days :
         IF v[4] > 23 \/ v[5] > 59 \/ v[6] > 59 THEN Err("ParseError")
         ELSE Ok(<<days, v[4] * 3600 + v[5] * 60 + v[6]>>))

-----------------------------------------------------------------------------
(* Parsing. *)

LiteralReads(value) ==
    LET reads[p \in Seq(Nat)] ==
          LET x == Item(value, p)
          IN IF x.kind = "List" THEN \A i \in DOMAIN x.v : reads[Append(p, i)] ELSE x \notin Unreadable
    IN reads[<<>>]
\* Of two pairs with one name the later stays.
AsMap(pairs) ==
    [n \in {pairs[i][1] : i \in DOMAIN pairs} |->
        pairs[Max({i \in DOMAIN pairs : pairs[i][1] = n})][2]]
PairsRead(pairs) == \A i \in DOMAIN pairs : LiteralReads(pairs[i][2])

\* A field says each of its directives once.
FieldReads(f) ==
    /\ IsInjective([i \in DOMAIN f.directives |-> f.directives[i].kind])
    /\ \A i \in DOMAIN f.directives :
          f.directives[i].kind = "default" => LiteralReads(f.directives[i].value)
ParseField(f) ==
    LET said(kind) == {i \in DOMAIN f.directives : f.directives[i].kind = kind}
    IN [name |-> f.name, type |-> IF f.type = <<"List">> THEN <<"List", "Any">> ELSE f.type,
        unique |-> said("unique") # {},
        default |-> IF said("default") = {} THEN Null
                    ELSE f.directives[CHOOSE i \in said("default") : TRUE].value]

ItemReads(t) ==
    CASE t.item = "node" -> /\ t.id \notin NotIdent /\ PairsRead(t.pairs)
                            /\ t.between = "|" \/ Len(t.labels) <= 1
      [] t.item = "edge" -> {t.left, t.right} \cap NotIdent = {} /\ PairsRead(t.pairs)
      [] t.item \in {"node_schema", "edge_schema"} -> \A i \in DOMAIN t.fields : FieldReads(t.fields[i])
      [] t.item = "namespace" -> \A i \in DOMAIN t.pairs : t.pairs[i][2].kind = "String"
      [] OTHER -> TRUE

\* Mutant of ParseEdge: an arrow without a head is read as one that leads out.
ParseEdgeWithHead(t) ==
    LET edge(src, dst, dir) == [src |-> src, dst |-> dst, type |-> t.type, dir |-> dir,
                                props |-> AsMap(t.pairs)]
    IN CASE t.arrow \in {"out", "none"} -> <<edge(t.left, t.right, 0)>>
         [] t.arrow = "in"   -> <<edge(t.right, t.left, 1)>>
         [] t.arrow = "both" -> <<edge(t.left, t.right, 0), edge(t.right, t.left, 1)>>

\* An edge that is written from right to left is turned round; one of both
\* directions becomes two.
ParseEdge(t) ==
    LET edge(src, dst, dir) == [src |-> src, dst |-> dst, type |-> t.type, dir |-> dir,
                                props |-> AsMap(t.pairs)]
    IN CASE t.arrow = "out"  -> <<edge(t.left, t.right, 0)>>
         [] t.arrow = "in"   -> <<edge(t.right, t.left, 1)>>
         [] t.arrow = "both" -> <<edge(t.left, t.right, 0), edge(t.right, t.left, 1)>>
         [] t.arrow = "none" -> <<edge(t.left, t.right, 3)>>

\* f and then g where both have a value, as a later declaration replaces one.
Over(g, f) == [x \in DOMAIN f \cup DOMAIN g |-> IF x \in DOMAIN g THEN g[x] ELSE f[x]]
ParseItem(doc, t) ==
    LET fields == [i \in DOMAIN t.fields |-> ParseField(t.fields[i])]
    IN CASE t.item = "node" ->
              [doc EXCEPT !.nodes = Append(@, [id |-> t.id, labels |-> t.labels, props |-> AsMap(t.pairs)])]
         [] t.item = "edge" -> [doc EXCEPT !.edges = @ \o ParseEdge(t)]
         [] t.item = "node_schema" ->
              [doc EXCEPT !.schema.nodes = Over(t.label :> [fields |-> fields, extends |-> t.extends], @)]
         [] t.item = "edge_schema" -> [doc EXCEPT !.schema.edges = Over(t.type :> fields, @)]
         [] t.item = "meta"   -> [doc EXCEPT !.meta = Over(AsMap(t.pairs), @)]
         [] t.item = "import" -> [doc EXCEPT !.imports = Append(@, t.path)]
         [] OTHER -> doc
EmptyDocument == [nodes |-> <<>>, edges |-> <<>>, imports |-> <<>>, meta |-> <<>>,
                  schema |-> [nodes |-> <<>>, edges |-> <<>>]]
Parse(text) ==
    IF \A i \in DOMAIN text : ItemReads(text[i]) THEN Ok(FoldLeft(ParseItem, EmptyDocument, text))
    ELSE Err("ParseError")

-----------------------------------------------------------------------------
(* Inference of the column types. *)

MergeTypes(l, r) ==
    IF l = r THEN Ok(l)
    ELSE IF {l, r} = {"Int64", "Float64"} THEN Ok("Float64")
    ELSE IF {l, r} = {"List<Int64>", "List<Float64>"} THEN Ok("List<Float64>")
    ELSE Err("TypeInferenceFailed")
\* The common type of several, Null of none.
Merge2(acc, t) == IF acc.status # "ok" THEN acc ELSE IF t.status # "ok" THEN t
                  ELSE IF acc.value = "none" THEN t ELSE MergeTypes(acc.value, t.value)

ValueTypes == [String |-> "Utf8", Int |-> "Int64", Float |-> "Float64", Bool |-> "Boolean",
               Date |-> "Date32", DateTime |-> "Timestamp"]
NotNull(values) == SelectSeq(values, LAMBDA x : x.kind # "Null")
ValueType(value) ==
    LET type[p \in Seq(Nat)] ==
          LET x     == Item(value, p)
              items == Ascending({i \in DOMAIN x.v : x.v[i].kind # "Null"})
              item  == FoldLeft(LAMBDA acc, i : Merge2(acc, type[Append(p, i)]), Ok("none"), items)
          IN CASE x.kind = "Object" -> Err("UnsupportedOperation")
               [] x.kind = "List"   -> IF items = <<>> THEN Err("CannotInferType")
                                       ELSE IF item.status # "ok" THEN item ELSE Ok(ListOf(item.value))
               [] OTHER -> Ok(ValueTypes[x.kind])
    IN type[<<>>]

\* A column with nothing but nulls has the type that is declared for it, if the
\* declarations agree.
ColumnType(values, declared) ==
    Then(FoldLeft(LAMBDA acc, x : Merge2(acc, ValueType(x)), Ok("none"), NotNull(values)), LAMBDA type :
         IF type # "none" THEN Ok(type)
         ELSE IF declared = Null THEN Err("CannotInferType")
         ELSE IF ~ValidType(declared) THEN Err("SchemaMismatch") ELSE Ok(ToArrow(declared)))

DeclaredIn(fieldSets, column) ==
    LET types == {f.type : f \in {f \in UNION fieldSets : f.name = column}}
    IN IF Cardinality(types) = 1 THEN CHOOSE t \in types : TRUE ELSE Null
DeclaredNodeType(resolved, column) ==
    IF \E l \in DOMAIN resolved : resolved[l].status # "ok" THEN Null
    ELSE DeclaredIn({ToSet(resolved[l].value) : l \in DOMAIN resolved}, column)
DeclaredEdgeType(schema, column) == DeclaredIn({ToSet(schema.edges[t]) : t \in DOMAIN schema.edges}, column)

-----------------------------------------------------------------------------
(* Building the frames. *)

Accepts == [Utf8 |-> {"String"}, Int64 |-> {"Int"}, Float64 |-> {"Int", "Float"}, Boolean |-> {"Bool"},
            Date32 |-> {"Date"}, Timestamp |-> {"DateTime"}, List |-> {"List"}]
       @@ [t \in {"List<Int64>", "List<Float64>", "List<Boolean>"} |-> {"List"}]
BuildCell(type, x) ==
    IF x.kind = "Null" THEN Ok(Null)
    ELSE IF x.kind \notin Accepts[type] THEN Err("TypeMismatch")
    ELSE CASE x.kind = "Date"     -> ParseDate(x.v)
           [] x.kind = "DateTime" -> ParseDatetime(x.v)
           [] x.kind = "List"     -> Ok([i \in DOMAIN x.v |-> IF x.v[i].kind = "Null" THEN Null ELSE x.v[i].v])
           [] OTHER               -> Ok(x.v)

\* The user columns of some declarations: their names as they first appear.
Prop(d, column)  == IF column \in DOMAIN d.props THEN d.props[column] ELSE NullVal
ColumnNames(decls) ==
    WithNew(<<>>, FlattenSeq([i \in DOMAIN decls |->
                     SelectSeq(NameOrder, LAMBDA n : n \in DOMAIN decls[i].props)]))
BuildColumn(type, values) ==
    IF type \notin DOMAIN Accepts THEN Err("UnsupportedOperation")
    ELSE Collected([i \in DOMAIN values |-> BuildCell(type, values[i])])
Assembled(decls, names, types, columns, reserved, reservedCell(_, _)) ==
    LET nullable(n) == \E i \in DOMAIN decls : Prop(decls[i], n).kind = "Null"
        cell(i, c)  == IF c \in ToSet(names) THEN columns[LocalOf(names, c)][i] ELSE reservedCell(decls[i], c)
    IN [fields |-> reserved \o [k \in DOMAIN names |-> [name |-> names[k], type |-> types[k],
                                                        nullable |-> nullable(names[k])]],
        rows   |-> [i \in DOMAIN decls |->
                      [c \in {reserved[k].name : k \in DOMAIN reserved} \cup ToSet(names) |-> cell(i, c)]]]
BuildColumns(decls, names, reserved, reservedCell(_, _), declared(_)) ==
    LET values(n) == [i \in DOMAIN decls |-> Prop(decls[i], n)]
    IN Then(Collected([k \in DOMAIN names |-> ColumnType(values(names[k]), declared(names[k]))]), LAMBDA types :
       Then(Collected([k \in DOMAIN names |-> BuildColumn(types[k], values(names[k]))]), LAMBDA columns :
            Ok(Assembled(decls, names, types, columns, reserved, reservedCell))))
BuildBatch(decls, reserved, reservedCell(_, _), declared(_)) ==
    BuildColumns(decls, ColumnNames(decls), reserved, reservedCell, declared)

Required(name, type) == [name |-> name, type |-> type, nullable |-> FALSE]
NodeFields == <<Required("_id", "Utf8"), Required("_label", "List")>>
EdgeFields == <<Required("_src", "Utf8"), Required("_dst", "Utf8"), Required("_type", "Utf8"),
                Required("_direction", "Int8")>>

\* Properties must match what the labels that are declared say of them.
PropsError(d, fields) ==
    IF \E f \in ToSet(fields) : f.name \in DOMAIN d.props /\ ~MatchesType(d.props[f.name], f.type)
    THEN "TypeMismatch" ELSE "ok"
NodeDeclError(resolved, d) ==
    LET known    == SelectSeq(d.labels, LAMBDA l : l \in DOMAIN resolved)
        error(l) == [status |-> IF resolved[l].status # "ok" THEN resolved[l].status ELSE PropsError(d, resolved[l].value)]
    IN FirstError([i \in DOMAIN known |-> error(known[i])])
EdgeDeclError(schema, d) ==
    IF d.type \in DOMAIN schema.edges THEN PropsError(d, schema.edges[d.type]) ELSE "ok"

ToNodeFrame(decls, resolved) ==
    LET errors == [i \in DOMAIN decls |-> [status |-> NodeDeclError(resolved, decls[i])]]
    IN Unless(FirstError(errors),
              Then(BuildBatch(decls, NodeFields, LAMBDA d, c : IF c = "_id" THEN d.id ELSE d.labels,
                              LAMBDA n : DeclaredNodeType(resolved, n)), NodesFrom))
ToEdgeFrame(doc) ==
    LET errors == [i \in DOMAIN doc.edges |-> [status |-> EdgeDeclError(doc.schema, doc.edges[i])]]
        cell(d, c) == CASE c = "_src" -> d.src [] c = "_dst" -> d.dst [] c = "_type" -> d.type
                        [] c = "_direction" -> d.dir
    IN Unless(FirstError(errors),
              Then(BuildBatch(doc.edges, EdgeFields, cell, LAMBDA n : DeclaredEdgeType(doc.schema, n)), EdgesFrom))
ToGraphFrame(doc) ==
    LET schema == IF DOMAIN doc.schema.nodes = {} /\ DOMAIN doc.schema.edges = {} THEN Null ELSE doc.schema
    IN Then(ToNodeFrame(doc.nodes, ResolvedFields(doc.schema)), LAMBDA nodes :
       Then(ToEdgeFrame(doc), LAMBDA edges : NewWithSchema(nodes, edges, schema, TRUE)))
ReadGf(text) == Then(Parse(text), ToGraphFrame)

-----------------------------------------------------------------------------
(* Writing.  Nulls are left out, and so is the schema.  Of a list the null  *)
(* items are left out, and a list of anything but strings is not expected.  *)

WriteCell(type, v) ==
    CASE type = "Utf8"                         -> Ok(Val("String", v))
      [] type \in {"Int8", "Int32", "Int64"}   -> Ok(Val("Int", v))
      [] type = "Float64"                      -> Ok(Val("Float", v))
      [] type = "Boolean"                      -> Ok(Val("Bool", v))
      [] type = "List"                         -> Ok(Val("List", Strings(v)))
      [] type \in {"List<Int64>", "List<Float64>", "List<Boolean>", "Nested"} -> Err("panic")
      [] OTHER                                 -> Err("TypeMismatch")
\* The pairs of a row, one result for each.
WriteRow(b, row, reserved) ==
    LET cols == SelectSeq(b.fields, LAMBDA f : f.name \notin ToSet(reserved) /\ row[f.name] # Null)
    IN [i \in DOMAIN cols |-> [name |-> cols[i].name] @@ WriteCell(cols[i].type, row[cols[i].name])]
PairsOf(cells) == [i \in DOMAIN cells |-> <<cells[i].name, cells[i].value>>]

Arrow == <<"out", "in", "both", "none">>
WriteGf(g) ==
    LET nb == g.nodes.data  eb == g.edges.data
        nodes == [r \in DOMAIN nb.rows |-> WriteRow(nb, nb.rows[r], NodeReserved)]
        edges == [r \in DOMAIN eb.rows |-> WriteRow(eb, eb.rows[r], EdgeReserved)]
        node(r) == [item |-> "node", id |-> nb.rows[r]["_id"], labels |-> nb.rows[r]["_label"],
                    between |-> " ", pairs |-> PairsOf(nodes[r])]
        edge(r) == [item |-> "edge", left |-> eb.rows[r]["_src"], right |-> eb.rows[r]["_dst"],
                    type |-> eb.rows[r]["_type"], arrow |-> Arrow[eb.rows[r]["_direction"] + 1],
                    pairs |-> PairsOf(edges[r])]
    IN Unless(FirstError(FlattenSeq(nodes \o edges)),
              Ok([r \in DOMAIN nb.rows |-> node(r)] \o [r \in DOMAIN eb.rows |-> edge(r)]))
=============================================================================
