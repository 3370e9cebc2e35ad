------------------------------- MODULE Frames -------------------------------
(***************************************************************************)
(* The immutable frames.  A batch is a table: its fields, and for each row *)
(* a function from column names to values.  A NodeFrame keeps beside its   *)
(* batch an index from ids to rows, an EdgeFrame the numbers of the nodes  *)
(* it names, an index from types to rows and the adjacency in compressed   *)
(* rows, and a GraphFrame is one of each.  Every operation makes a new     *)
(* frame: it rebuilds these indexes from the rows, or takes over the old   *)
(* ones where the code clones them.                                        *)
(*                                                                         *)
(* Ids are numbers, which sort as the ids do; rows, nodes and positions    *)
(* are counted from 1.                                                     *)
(***************************************************************************)
EXTENDS Integers, FiniteSets, SequencesExt

CONSTANT Null   \* a missing value

NodeReserved == <<"_id", "_label">>
EdgeReserved == <<"_src", "_dst", "_type", "_direction">>
\* The columns a caller may name that begin with an underscore.
Underscored  == ToSet(NodeReserved) \cup ToSet(EdgeReserved) \cup {"_hidden"}

Ok(v)  == [status |-> "ok", value |-> v]
Err(e) == [status |-> e, value |-> Null]
FirstError(results) ==
    LET bad == {i \in DOMAIN results : results[i].status # "ok"}
    IN IF bad = {} THEN "ok" ELSE results[Min(bad)].status
\* What goes on from a result only where there is no error.
Unless(error, result) == IF error = "ok" THEN result ELSE Err(error)
Then(result, f(_))    == IF result.status = "ok" THEN f(result.value) ELSE result
Collected(results) ==
    Unless(FirstError(results), Ok([i \in DOMAIN results |-> results[i].value]))

-----------------------------------------------------------------------------
(* Batches. *)

Names(b)      == {b.fields[i].name : i \in DOMAIN b.fields}
FieldOf(b, c) == b.fields[CHOOSE i \in DOMAIN b.fields : b.fields[i].name = c]
TypeOf(b, c)  == FieldOf(b, c).type
Column(b, c)  == [r \in DOMAIN b.rows |-> b.rows[r][c]]

\* The numbers of S in order; SetToSortSeq is slow on more than a few.
Ascending(S) ==
    [i \in 1..Cardinality(S) |-> CHOOSE x \in S : Cardinality({y \in S : y <= x}) = i]
Picked(s, positions) ==
    LET at == Ascending(positions) IN [i \in DOMAIN at |-> s[at[i]]]
\* Those of s that pass, in their order (SelectSeq, by their positions).
Those(s, passes(_)) == Picked(s, {i \in DOMAIN s : passes(s[i])})
FilterRows(b, mask) == [b EXCEPT !.rows = Picked(@, {r \in DOMAIN mask : mask[r]})]

\* The names of s that are new to acc, in their order.
WithNew(acc, s) == FoldLeft(LAMBDA a, x : IF x \in ToSet(a) THEN a ELSE Append(a, x), acc, s)

\* select: the reserved columns, then the named ones as they are asked for.
Select(b, cols, reserved) ==
    LET final == WithNew(reserved, cols)
    IN IF ~(ToSet(cols) \subseteq Names(b)) THEN Err("ColumnNotFound")
       ELSE Ok([fields |-> [i \in DOMAIN final |-> FieldOf(b, final[i])],
                rows   |-> [r \in DOMAIN b.rows |-> [c \in ToSet(final) |-> b.rows[r][c]]]])

\* concat: every column of every batch, null in the rows of one that lacks it.
MergedField(bs, c) ==
    LET having == {i \in DOMAIN bs : c \in Names(bs[i])}
    IN [name |-> c, type |-> TypeOf(bs[CHOOSE i \in having : TRUE], c),
        nullable |-> having # DOMAIN bs \/ \E i \in having : FieldOf(bs[i], c).nullable]
Concat(bs, reserved) ==
    LET names  == FoldLeft(LAMBDA acc, b : WithNew(acc, [i \in DOMAIN b.fields |-> b.fields[i].name]),
                           reserved, bs)
        padded(b) == [r \in DOMAIN b.rows |->
                        [c \in ToSet(names) |-> IF c \in Names(b) THEN b.rows[r][c] ELSE Null]]
    IN IF bs = <<>> THEN Err("InvalidConfig")
       ELSE IF \E c \in ToSet(names), i, j \in DOMAIN bs :
                  c \in Names(bs[i]) \cap Names(bs[j]) /\ TypeOf(bs[i], c) # TypeOf(bs[j], c)
       THEN Err("TypeMismatch")
       ELSE Ok([fields |-> [i \in DOMAIN names |-> MergedField(bs, names[i])],
                rows   |-> FlattenSeq([i \in DOMAIN bs |-> padded(bs[i])])])

-----------------------------------------------------------------------------
(* Node frames. *)

IdIndex(b) ==
    [x \in ToSet(Column(b, "_id")) |-> Max({r \in DOMAIN b.rows : b.rows[r]["_id"] = x})]
NodesOf(b) == [data |-> b, index |-> IdIndex(b)]

HiddenNames(b, reserved) == (Names(b) \cap Underscored) \ ToSet(reserved)

NodeSchemaError(b) ==
    IF ~(ToSet(NodeReserved) \subseteq Names(b)) THEN "MissingReservedColumn"
    ELSE IF TypeOf(b, "_id") # "Utf8" \/ TypeOf(b, "_label") # "List" THEN "ReservedColumnType"
    ELSE IF \E r \in DOMAIN b.rows :
                \/ b.rows[r]["_id"] = Null \/ b.rows[r]["_label"] = Null
                \/ Null \in ToSet(b.rows[r]["_label"])
    THEN "ReservedColumnType"
    ELSE IF HiddenNames(b, NodeReserved) # {} THEN "ReservedColumnName"
    ELSE "ok"

NodesFrom(b) ==
    Unless(NodeSchemaError(b),
           IF IsInjective(Column(b, "_id")) THEN Ok(NodesOf(b)) ELSE Err("DuplicateNodeId"))

HasNode(nodes, x)       == x \in DOMAIN nodes.index
FilterNodes(nodes, mask) ==
    IF Len(mask) # Len(nodes.data.rows) THEN Err("LengthMismatch")
    ELSE Ok(NodesOf(FilterRows(nodes.data, mask)))
NodesIn(nodes, S) == NodesOf(FilterRows(nodes.data, [r \in DOMAIN nodes.data.rows |->
                                                        nodes.data.rows[r]["_id"] \in S]))
SelectNodes(nodes, cols) ==
    Then(Select(nodes.data, cols, NodeReserved), LAMBDA b : Ok([data |-> b, index |-> nodes.index]))
SliceNodes(nodes, offset, n) ==
    IF offset + n > Len(nodes.data.rows) THEN Err("panic")
    ELSE Ok(NodesOf([nodes.data EXCEPT !.rows = SubSeq(@, offset + 1, offset + n)]))
GatherRows(nodes, rows) ==
    IF \E i \in DOMAIN rows : rows[i] \notin DOMAIN nodes.data.rows THEN Err("InvalidConfig")
    ELSE Ok([nodes.data EXCEPT !.rows = [i \in DOMAIN rows |-> @[rows[i]]]])
ConcatNodes(frames) ==
    IF Len(frames) = 1 THEN Ok(frames[1])
    ELSE Then(Concat([i \in DOMAIN frames |-> frames[i].data], NodeReserved),
              LAMBDA b : IF IsInjective(Column(b, "_id")) THEN Ok(NodesOf(b)) ELSE Err("DuplicateNodeId"))
\* intersect and difference.
CombineNodes(left, right, common) ==
    IF left.data.fields # right.data.fields THEN Err("SchemaMismatch")
    ELSE Ok(NodesIn(left, {x \in DOMAIN left.index : HasNode(right, x) = common}))

-----------------------------------------------------------------------------
(* Compressed sparse rows. *)

CsrOrder(a, b) ==
    \/ a[1] < b[1]
    \/ a[1] = b[1] /\ (a[2] < b[2] \/ (a[2] = b[2] /\ a[3] < b[3]))

\* Of rows that lead from from[r] to to[r]; build_reverse swaps the two.
Csr(from, to, n) ==
    LET entries == {<<from[r], to[r], r>> : r \in DOMAIN from}
        before(e)  == Cardinality({x \in entries : CsrOrder(x, e)})
        sorted     == [p \in DOMAIN from |-> CHOOSE e \in entries : before(e) = p - 1]
        degree(i)  == Cardinality({r \in DOMAIN from : from[r] = i})
        offsets[i \in 0..n] == IF i = 0 THEN 0 ELSE offsets[i - 1] + degree(i)
    IN [offsets   |-> [i \in 1..(n + 1) |-> offsets[i - 1]],
        neighbors |-> [p \in DOMAIN sorted |-> sorted[p][2]],
        edgeIds   |-> [p \in DOMAIN sorted |-> sorted[p][3]]]

\* The neighbours of node i with the rows that lead to them.
Slice(csr, i) ==
    IF i \notin 1..(Len(csr.offsets) - 1) THEN <<>>
    ELSE [p \in 1..(csr.offsets[i + 1] - csr.offsets[i]) |->
            [to  |-> csr.neighbors[csr.offsets[i] + p],
             row |-> csr.edgeIds[csr.offsets[i] + p]]]

-----------------------------------------------------------------------------
(* Edge frames. *)

LocalIds(b) ==
    WithNew(<<>>, FlattenSeq([r \in DOMAIN b.rows |-> <<b.rows[r]["_src"], b.rows[r]["_dst"]>>]))
LocalOf(ids, x)     == CHOOSE i \in DOMAIN ids : ids[i] = x
Endpoints(b, ids, c) == [r \in DOMAIN b.rows |-> LocalOf(ids, b.rows[r][c])]
TypeIndex(b) ==
    [t \in ToSet(Column(b, "_type")) |->
        Ascending({r \in DOMAIN b.rows : b.rows[r]["_type"] = t})]

\* The incoming rows are indexed when they are first asked for, which shows nowhere.
EdgesOf(b) ==
    LET ids == LocalIds(b)
        src == Endpoints(b, ids, "_src")
        dst == Endpoints(b, ids, "_dst")
    IN [data |-> b, ids |-> ids, types |-> TypeIndex(b),
        out |-> Csr(src, dst, Len(ids)), in |-> Csr(dst, src, Len(ids))]

EdgeSchemaError(b) ==
    LET strings == {"_src", "_dst", "_type"}
    IN IF ~(ToSet(EdgeReserved) \subseteq Names(b)) THEN "MissingReservedColumn"
       ELSE IF (\E c \in strings : TypeOf(b, c) # "Utf8") \/ TypeOf(b, "_direction") # "Int8"
       THEN "ReservedColumnType"
       ELSE IF \E c \in ToSet(EdgeReserved) : Null \in ToSet(Column(b, c)) THEN "ReservedColumnType"
       ELSE IF \E d \in ToSet(Column(b, "_direction")) : d \notin 0..3 THEN "InvalidDirection"
       ELSE IF HiddenNames(b, EdgeReserved) # {} THEN "ReservedColumnName"
       ELSE "ok"
EdgesFrom(b) == Unless(EdgeSchemaError(b), Ok(EdgesOf(b)))

RowsOfType(edges, t) == IF t \in DOMAIN edges.types THEN ToSet(edges.types[t]) ELSE {}
\* Mutant of FilterEdges: the indexes are taken over from the frame that is filtered.
FilterEdgesKeepsIndexes(edges, mask) ==
    IF Len(mask) # Len(edges.data.rows) THEN Err("LengthMismatch")
    ELSE Ok([edges EXCEPT !.data = FilterRows(@, mask)])
FilterEdges(edges, mask) ==
    IF Len(mask) # Len(edges.data.rows) THEN Err("LengthMismatch")
    ELSE Ok(EdgesOf(FilterRows(edges.data, mask)))
EdgesAt(edges, rows) == EdgesOf(FilterRows(edges.data, [r \in DOMAIN edges.data.rows |-> r \in rows]))
FilterByTypes(edges, ts) == EdgesAt(edges, UNION {RowsOfType(edges, t) : t \in ts})
SelectEdges(edges, cols) ==
    Then(Select(edges.data, cols, EdgeReserved), LAMBDA b : Ok([edges EXCEPT !.data = b]))
ConcatEdges(frames) ==
    IF Len(frames) = 1 THEN Ok(frames[1])
    ELSE Then(Concat([i \in DOMAIN frames |-> frames[i].data], EdgeReserved), LAMBDA b : Ok(EdgesOf(b)))

-----------------------------------------------------------------------------
(* Graph frames. *)

Unchecked(nodes, edges) == [nodes |-> nodes, edges |-> edges, schema |-> Null]
Dangles(nodes, edges) ==
    \E r \in DOMAIN edges.data.rows, c \in {"_src", "_dst"} :
        ~HasNode(nodes, edges.data.rows[r][c])
NewGraph(nodes, edges) ==
    IF Dangles(nodes, edges) THEN Err("DanglingEdge") ELSE Ok(Unchecked(nodes, edges))

IdsOf(g)       == Column(g.nodes.data, "_id")
EdgeRows(g)    == g.edges.data.rows
Label(g, x)    == g.nodes.data.rows[g.nodes.index[x]]["_label"]
InEdges(g, x)  == x \in ToSet(g.edges.ids)

\* The neighbours of a node that has edges, by id, with the rows.
Led(g, csr, x) ==
    LET s == Slice(csr, LocalOf(g.edges.ids, x))
    IN [p \in DOMAIN s |-> [to |-> g.edges.ids[s[p].to], row |-> s[p].row]]
OutOf(g, x) == IF InEdges(g, x) THEN Led(g, g.edges.out, x) ELSE <<>>
InTo(g, x)  == IF InEdges(g, x) THEN Led(g, g.edges.in, x) ELSE <<>>
To(s)       == [p \in DOMAIN s |-> s[p].to]

Neighbors(g, x, dir) ==
    IF ~HasNode(g.nodes, x) THEN Err("NodeNotFound")
    ELSE Ok(CASE dir = "out" -> To(OutOf(g, x))
              [] dir = "in"  -> To(InTo(g, x))
              [] OTHER       -> WithNew(<<>>, To(OutOf(g, x)) \o To(InTo(g, x))))
Degree(g, x, dir) ==
    IF ~HasNode(g.nodes, x) THEN Err("NodeNotFound")
    ELSE Ok(IF dir = "out" THEN Len(OutOf(g, x)) ELSE Len(InTo(g, x)))

Induced(g, nodes) ==
    NewGraph(nodes, EdgesAt(g.edges, {r \in DOMAIN EdgeRows(g) :
        HasNode(nodes, EdgeRows(g)[r]["_src"]) /\ HasNode(nodes, EdgeRows(g)[r]["_dst"])}))
Subgraph(g, S) == Induced(g, NodesIn(g.nodes, S))
SubgraphByLabel(g, l) == Subgraph(g, {x \in ToSet(IdsOf(g)) : l \in ToSet(Label(g, x))})
SubgraphByEdgeType(g, t) ==
    LET edges == FilterByTypes(g.edges, {t})
    IN NewGraph(NodesIn(g.nodes, UNION {{r["_src"], r["_dst"]} : r \in ToSet(edges.data.rows)}), edges)

\* Both adjacencies, whatever the direction of a row.
KHopSubgraph(g, root, k) ==
    LET around(S) == UNION {ToSet(To(OutOf(g, x)) \o To(InTo(g, x))) : x \in S}
        visited[d \in 0..k] == IF d = 0 THEN {root} ELSE visited[d - 1] \cup around(visited[d - 1])
    IN IF ~HasNode(g.nodes, root) THEN Err("NodeNotFound") ELSE Subgraph(g, visited[k])

\* Rows grouped by their source, by local number.
ToCoo(g) ==
    FlattenSeq([i \in DOMAIN g.edges.ids |->
        LET s == Slice(g.edges.out, i) IN [p \in DOMAIN s |-> <<i, s[p].to>>]])

\* The kernel gets the position of each node, -1 where it has none, the two
\* indexes and a mask over the rows, and counts.
DegreeColumns == <<"out_degree", "in_degree", "total_degree">>
AllowedRows(g, t) == IF t = Null THEN DOMAIN EdgeRows(g) ELSE RowsOfType(g.edges, t)
StructuralFeatures(g, t) ==
    LET count(s) == Cardinality({p \in DOMAIN s : s[p].row \in AllowedRows(g, t)})
        values(x) == <<count(OutOf(g, x)), count(InTo(g, x)), count(OutOf(g, x)) + count(InTo(g, x))>>
        added == [i \in 1..3 |-> [name |-> DegreeColumns[i], type |-> "Int64", nullable |-> FALSE]]
        wide(row) == [c \in DOMAIN row \cup ToSet(DegreeColumns) |->
                        IF c \in DOMAIN row THEN row[c]
                        ELSE values(row["_id"])[CHOOSE i \in 1..3 : DegreeColumns[i] = c]]
        d == g.nodes.data
    IN IF ToSet(DegreeColumns) \cap Names(d) # {} THEN Err("SchemaMismatch")
       ELSE NodesFrom([fields |-> d.fields \o added,
                       rows |-> [r \in DOMAIN d.rows |-> wide(d.rows[r])]])
=============================================================================
