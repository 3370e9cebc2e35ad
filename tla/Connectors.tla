------------------------------ MODULE Connectors ------------------------------
(***************************************************************************)
(* The sources of graphs.  A connector to a file and the Flight service    *)
(* filter, project and expand a whole graph with the query engine; the     *)
(* connectors to Neo4j, ArangoDB and SPARQL send a query that says the     *)
(* same and leave it to the backend.                                       *)
(*                                                                         *)
(* A request is [among, columns, predicate, batchSize]: the labels or the  *)
(* types to load, the columns, and a condition, each Null for any.  An     *)
(* expansion is [ids, types, hops, dir, predicate], types Null for any.    *)
(***************************************************************************)
EXTENDS Files

-----------------------------------------------------------------------------
(* Requests. *)

ValidateBatchSize(n) == IF n = 0 THEN "InvalidConfig" ELSE "ok"
ValidateHops(n)      == IF n = 0 THEN "InvalidConfig" ELSE "ok"

\* What is asked of one of several values, nothing when none is named.
AnyOf(values, predicate(_)) ==
    IF values = <<>> THEN Lit("Bool", FALSE)
    ELSE FoldLeft(LAMBDA e, v : Either(e, predicate(v)), predicate(Head(values)), Tail(values))
LabelsToPredicate(labels) ==
    IF labels = Null THEN Null ELSE AnyOf(labels, LAMBDA l : Has(Col("_label"), Lit("String", l)))
TypesToPredicate(types) ==
    IF types = Null THEN Null ELSE AnyOf(types, LAMBDA t : Cmp(Col("_type"), "Eq", Lit("String", t)))
\* Mutant of IdsToPredicate: only the first id is asked for.
FirstIdToPredicate(ids) == Cmp(Col("_id"), "Eq", Lit("String", Head(ids)))
IdsToPredicate(ids) == AnyOf(ids, LAMBDA x : Cmp(Col("_id"), "Eq", Lit("String", x)))

-----------------------------------------------------------------------------
(* On a graph at hand. *)

\* A filter by an expression, which is a boolean on every row or fails.
Mask(b, e) ==
    LET held == [r \in DOMAIN b.rows |-> EvaluateExpr(e, b, r)]
    IN Then(Collected(held), LAMBDA values :
            IF \E r \in DOMAIN values : values[r].kind # "Bool" THEN Err("TypeMismatch")
            ELSE Ok([r \in DOMAIN values |-> values[r].v]))
Filtered(frame, e, filter(_, _)) ==
    IF e = Null THEN Ok(frame) ELSE Then(Mask(frame.data, e), LAMBDA mask : filter(frame, mask))

LoadFrom(frame, among, request, filter(_, _), select(_, _)) ==
    Then(Filtered(frame, among, filter), LAMBDA some :
         Then(Filtered(some, request.predicate, filter), LAMBDA kept :
              IF request.columns = Null THEN Ok(kept) ELSE select(kept, request.columns)))
LoadNodesFromGraph(g, request) ==
    LoadFrom(g.nodes, LabelsToPredicate(request.among), request, FilterNodes, SelectNodes)
LoadEdgesFromGraph(g, request) ==
    LoadFrom(g.edges, TypesToPredicate(request.among), request, FilterEdges, SelectEdges)

\* An expansion is what Hops says of it, with rows in place of numbers.
H(NodeCount, Types) == INSTANCE Hops
Sides == <<"out", "in", "both", "none">>
HopsQuery(g, seeds, x) ==
    LET types == DOMAIN g.edges.types
    IN [edges    |-> [r \in DOMAIN EdgeRows(g) |->
                        [src  |-> g.nodes.index[EdgeRows(g)[r]["_src"]],
                         dst  |-> g.nodes.index[EdgeRows(g)[r]["_dst"]],
                         dir  |-> Sides[EdgeRows(g)[r]["_direction"] + 1], type |-> EdgeRows(g)[r]["_type"]]],
        frontier |-> SelectSeq([r \in DOMAIN IdsOf(g) |-> r], LAMBDA r : IdsOf(g)[r] \in seeds),
        types    |-> IF x.types = Null THEN types ELSE x.types, hops |-> x.hops, dir |-> x.dir,
        passes   |-> DOMAIN IdsOf(g), fails |-> {}, plan |-> "plain", stop |-> 0]
FoundGraph(g, found) ==
    NewGraph(NodesIn(g.nodes, {IdsOf(g)[n] : n \in found.nodes}), EdgesAt(g.edges, found.rows))
ExpandFrontier(g, seeds, x) ==
    FoundGraph(g, H(Len(IdsOf(g)), DOMAIN g.edges.types)!Expanded(HopsQuery(g, seeds, x)))

\* A condition is put to what has been reached.
ExpandGraph(g, x) ==
    IF x.ids = <<>> THEN Subgraph(g, {})
    ELSE Then(Filtered(g.nodes, IdsToPredicate(x.ids), FilterNodes), LAMBDA seeds :
         Then(ExpandFrontier(g, DOMAIN seeds.index, x), LAMBDA expanded :
              IF x.predicate = Null THEN Ok(expanded)
              ELSE Then(Filtered(expanded.nodes, x.predicate, FilterNodes),
                        LAMBDA kept : Subgraph(expanded, DOMAIN kept.index))))

-----------------------------------------------------------------------------
(* The connector to a file. *)

InferFormat(extension) == IF extension \in {"gf", "gfb"} THEN Ok(extension) ELSE Err("InvalidConfig")
FileGraph(extension, disk) == Load(extension, disk, [nodes |-> Null, edges |-> Null])
GfConnect(extension, disk, error, answer(_)) ==
    Then(InferFormat(extension), LAMBDA format :
         Unless(error, Then(FileGraph(format, disk), answer)))
GfLoadNodes(extension, disk, request) ==
    GfConnect(extension, disk, ValidateBatchSize(request.batchSize), LAMBDA g : LoadNodesFromGraph(g, request))
GfLoadEdges(extension, disk, request) ==
    GfConnect(extension, disk, ValidateBatchSize(request.batchSize), LAMBDA g : LoadEdgesFromGraph(g, request))
GfExpand(extension, disk, x) ==
    GfConnect(extension, disk, ValidateHops(x.hops), LAMBDA g : ExpandGraph(g, x))
\* The writes to the disk that a write comes to.
GfWrite(extension, g) == IF extension = "gfb" THEN SaveWrites("gfb", g) ELSE Err("UnsupportedOperation")

-----------------------------------------------------------------------------
(* The queries of the other connectors.  config is [dialect, linked,        *)
(* template, expandTemplate]: whether there is a backend, and for SPARQL    *)
(* the placeholders of its templates.                                       *)

CompileError(expr, reserved) ==
    LET error[p \in Places] ==
          LET e == At(expr, p)
          IN CASE e.op = "literal"                  -> "ok"
               [] e.op = "col"                      -> IF e.name \in reserved THEN "TypeMismatch" ELSE "ok"
               [] e.op \in {"cast", "pattern_col"}  -> "UnsupportedOperation"
               [] e.op \in {"not", "unary_op"}      -> error[Append(p, "expr")]
               [] OTHER -> IF error[Append(p, "left")] # "ok" THEN error[Append(p, "left")]
                           ELSE error[Append(p, "right")]
    IN error[<<>>]
PredicateError(e, reserved) == IF e = Null THEN "ok" ELSE CompileError(e, reserved)

TemplateError(config, template) ==
    IF config.dialect = "sparql" /\ ~({"projection", "filters"} \subseteq template)
    THEN "InvalidConfig" ELSE "ok"
\* A condition on a node names no column of edges, nor the other way.
LoadQueryError(config, request, reserved) ==
    FirstError(<<[status |-> PredicateError(request.predicate, ToSet(reserved))],
                 [status |-> TemplateError(config, config.template)]>>)

\* What the text of an expression asks for.  The direction of an edge is written
\* as a constant.  SPARQL asks a variable of several values to be equal to an item,
\* which one of them is, when the list contains it.
Compiled(config, expr) ==
    LET direction == IF config.dialect = "sparql" THEN Lit("String", "out") ELSE Lit("Int", 0)
        text[p \in Places] ==
          LET e == At(expr, p)
          IN CASE e.op = "literal" -> e
               [] e.op = "col"     -> IF e.name = "_direction" THEN direction ELSE e
               [] e.op \in {"not", "unary_op"} -> [e EXCEPT !.expr = text[Append(p, "expr")]]
               [] OTHER -> [e EXCEPT !.left = text[Append(p, "left")], !.right = text[Append(p, "right")]]
    IN text[<<>>]

\* The columns that come back; SPARQL brings none that is not asked for.
QueryColumns(config, b, request, reserved) ==
    IF request.columns # Null THEN WithNew(reserved, request.columns)
    ELSE IF config.dialect = "sparql" THEN reserved ELSE WithNew(reserved, Named(b))

\* The backend: the rows for which the text is true, in whatever order.
BackendRows(config, b, among, request) ==
    LET asks(e, r) == e = Null \/ EvaluateExpr(Compiled(config, e), b, r).value = Bool(TRUE)
    IN {r \in DOMAIN b.rows :
          /\ among = Null \/ EvaluateExpr(among, b, r).value = Bool(TRUE)
          /\ asks(request.predicate, r)}
\* A page of them.  A column that a row does not have is null.
Page(config, b, order, skip, request, reserved) ==
    LET columns == QueryColumns(config, b, request, reserved)
        cell(r, c) == IF c = "_direction" THEN 0 ELSE IF c \in Names(b) THEN b.rows[r][c] ELSE Null
        field(c) == IF c \in Names(b) THEN FieldOf(b, c) ELSE [name |-> c, type |-> "Utf8", nullable |-> TRUE]
        asked   == SubSeq(order, skip + 1, Min({skip + request.batchSize, Len(order)}))
    IN [fields |-> [i \in DOMAIN columns |-> field(columns[i])],
        rows   |-> [k \in DOMAIN asked |-> [c \in ToSet(columns) |-> cell(asked[k], c)]]]

\* finish_node_pages and finish_edge_pages.
FinishPages(pages, concat(_)) ==
    IF pages = <<>> THEN Err("ConnectorError")
    ELSE IF Len(pages) = 1 THEN Ok(pages[1]) ELSE concat(pages)

\* A load from a database that nobody changes, which has its rows in the order of
\* the batch; Paging has the others.  foreign are the columns of the other frame.
LoadFromDatabase(config, b, among, request, reserved, foreign, from(_), concat(_)) ==
    LET order  == Ascending(BackendRows(config, b, among, request))
        last   == Len(order) \div request.batchSize
        frames == [k \in 1..(last + 1) |->
                     from(Page(config, b, order, (k - 1) * request.batchSize, request, reserved))]
    IN Unless(ValidateBatchSize(request.batchSize),
       Unless(LoadQueryError(config, request, foreign),
              IF config.linked THEN Then(Collected(frames), LAMBDA pages : FinishPages(pages, concat))
              ELSE Err("ConnectorError")))

\* One query, which only needs nodes to start from.
ExpandQueryError(config, x) ==
    IF ValidateHops(x.hops) # "ok" THEN ValidateHops(x.hops)
    ELSE IF x.ids = <<>> THEN "InvalidConfig"
    ELSE IF config.dialect = "sparql" /\ config.expandTemplate = Null THEN "UnsupportedOperation"
    ELSE IF PredicateError(x.predicate, ToSet(EdgeReserved)) # "ok"
    THEN PredicateError(x.predicate, ToSet(EdgeReserved))
    ELSE IF TemplateError(config, config.expandTemplate) # "ok" THEN "InvalidConfig"
    ELSE IF ~config.linked THEN "ConnectorError" ELSE "ok"
\* The backend: paths, no relationship twice on one, that start at a node of x.ids.
\* The last steps of all of them, over the rows given.
StepsFrom(g, rows, x, dir) ==
    {[row |-> r, to |-> EdgeRows(g)[r]["_dst"]] :
        r \in {r \in rows : dir # "in" /\ EdgeRows(g)[r]["_src"] = x}}
    \cup {[row |-> r, to |-> EdgeRows(g)[r]["_src"]] :
        r \in {r \in rows : dir # "out" /\ EdgeRows(g)[r]["_dst"] = x}}
LastSteps(g, rows, id, dir, hops) ==
    LET steps[left \in SUBSET rows, x \in ToSet(IdsOf(g)), k \in 0..hops] ==
          LET here == StepsFrom(g, left, x, dir)
          IN IF k = 0 THEN {} ELSE here \cup UNION {steps[left \ {s.row}, s.to, k - 1] : s \in here}
    IN steps[rows, id, hops]
\* The ends of the paths.  Cypher types every relationship of a path, AQL the last
\* one.  The condition is on the end: in Cypher it stands before the MATCH that
\* names the end, and is refused.  A range of hops over any predicate, as the text
\* for SPARQL has it, no endpoint reads.
ExpandAnswer(config, g, x) ==
    LET typed == {r \in DOMAIN EdgeRows(g) : x.types = Null \/ EdgeRows(g)[r]["_type"] \in x.types}
        rows  == IF config.dialect = "neo4j" THEN typed ELSE DOMAIN EdgeRows(g)
        steps == UNION {LastSteps(g, rows, id, x.dir, x.hops) : id \in ToSet(x.ids) \cap ToSet(IdsOf(g))}
        holds(id) == \/ x.predicate = Null
                     \/ EvaluateExpr(Compiled(config, x.predicate), g.nodes.data,
                                     g.nodes.index[id]).value = Bool(TRUE)
    IN Unless(ExpandQueryError(config, x),
              IF config.dialect = "sparql" \/ (config.dialect = "neo4j" /\ x.predicate # Null)
              THEN Err("ConnectorError")
              ELSE Ok({s.to : s \in {s \in steps : s.row \in typed /\ holds(s.to)}}))
\* No connector to a database writes.
DatabaseWrite(g) == Err("UnsupportedOperation")
=============================================================================
