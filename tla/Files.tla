-------------------------------- MODULE Files --------------------------------
(***************************************************************************)
(* Graphs in files: the binary format .gfb, a pair of parquet files, the   *)
(* text format .gf, and nodes from csv.  A file is the sequence of the     *)
(* blocks that have been written to it, or Null; a save first empties the  *)
(* file, and may be cut off after any of its blocks.                       *)
(***************************************************************************)
EXTENDS Documents

CONSTANTS BatchRows,   \* rows that a parquet reader puts in a batch
          Begins       \* for each id, the ids whose text it begins with

ASSUME BatchRowsAssumption == BatchRows \in Nat \ {0}

-----------------------------------------------------------------------------
(* .gfb: magic, version, header, schema, nodes, edges, index and footer.   *)

Magic == [block |-> "magic"]
MajorVersion == 1
MinorVersion == 0

Encoded(name, by, data) == [block |-> name, by |-> by, data |-> data]
Named(b) == [i \in DOMAIN b.fields |-> b.fields[i].name]
NodeLabels(b) == UNION {ToSet(b.rows[r]["_label"]) : r \in DOMAIN b.rows}

\* options is [compression, schema].
WriteGfb(g, options) ==
    LET nb == g.nodes.data  eb == g.edges.data
        header == [block |-> "header", version |-> <<MajorVersion, MinorVersion>>,
                   nodes |-> Len(nb.rows), edges |-> Len(eb.rows), hasSchema |-> options.schema # Null,
                   compression |-> options.compression, nodeColumns |-> Named(nb), edgeColumns |-> Named(eb),
                   labels |-> NodeLabels(nb), types |-> DOMAIN g.edges.types]
        index  == [x \in DOMAIN g.nodes.index |-> g.nodes.index[x] - 1]
    IN <<Magic, [block |-> "version", version |-> <<MajorVersion, MinorVersion>>], header,
         [block |-> "schema", data |-> options.schema],
         Encoded("nodes", options.compression, nb), Encoded("edges", options.compression, eb),
         Encoded("index", options.compression, index), [block |-> "footer", offsets |-> <<3, 4, 5, 6, 7, 8>>]>>

\* What both readers see to; the tail of a file that was cut off is no footer.
EnvelopeError(file) ==
    IF Len(file) < 3 THEN "ParseError"
    ELSE IF file[1] # Magic THEN "ParseError"
    ELSE IF file[2].version[1] # MajorVersion THEN "UnsupportedOperation"
    ELSE IF Last(file).block # "footer" THEN "ParseError" ELSE "ok"
\* A reader that is older than the file refuses it; an inspection does not.
FooterError(file) ==
    LET at == Last(file).offsets
    IN IF file[2].version[2] > MinorVersion THEN "UnsupportedOperation"
       ELSE IF \E i \in 1..(Len(at) - 1) : at[i] >= at[i + 1] THEN "ParseError"
       ELSE IF Last(at) > Len(file) THEN "ParseError" ELSE "ok"

InspectGfb(file) ==
    LET header == file[Last(file).offsets[1]]
    IN IF file = Null THEN Err("IoError")
       ELSE Unless(EnvelopeError(file), Ok([version |-> file[2].version, nodes |-> header.nodes, edges |-> header.edges,
                labels |-> header.labels, types |-> header.types, hasSchema |-> header.hasSchema,
                compression |-> header.compression]))

Decoded(block, by) == IF block.by = by THEN Ok(block.data) ELSE Err("IoError")
GfbError(file) ==
    LET at     == Last(file).offsets
        header == file[at[1]]
        of(i)  == Decoded(file[at[i]], header.compression)
    IN IF EnvelopeError(file) # "ok" THEN EnvelopeError(file)
       ELSE IF FooterError(file) # "ok" THEN FooterError(file)
       ELSE IF header.version # file[2].version THEN "SchemaMismatch"
       ELSE IF header.compression \notin {"none", "zstd", "lz4"} THEN "UnsupportedOperation"
       ELSE IF header.hasSchema # (file[at[2]].data # Null) THEN "SchemaMismatch"
       ELSE IF FirstError(<<of(3), of(4)>>) # "ok" THEN FirstError(<<of(3), of(4)>>)
       ELSE IF Len(of(3).value.rows) # header.nodes \/ Len(of(4).value.rows) # header.edges
       THEN "SchemaMismatch"
       ELSE IF of(5).status # "ok" THEN of(5).status
       ELSE IF Cardinality(DOMAIN of(5).value) # header.nodes THEN "SchemaMismatch" ELSE "ok"

\* select on what is asked for; Null asks for everything.
Projected(frame, columns, declared, select(_, _)) ==
    Then(frame, LAMBDA f :
         IF columns = Null THEN Ok(f)
         ELSE IF ~(ToSet(columns) \subseteq ToSet(declared)) THEN Err("ColumnNotFound")
         ELSE select(f, columns))
GraphOf(nodes, edges) == Then(nodes, LAMBDA n : Then(edges, LAMBDA e : NewGraph(n, e)))
\* The schema that a file may hold is not read.
ReadGfb(file, columns) ==
    LET at     == Last(file).offsets
        header == file[at[1]]
    IN IF file = Null THEN Err("IoError")
       ELSE Unless(GfbError(file), GraphOf(
              Projected(NodesFrom(file[at[3]].data), columns.nodes, header.nodeColumns, SelectNodes),
              Projected(EdgesFrom(file[at[4]].data), columns.edges, header.edgeColumns, SelectEdges)))

-----------------------------------------------------------------------------
(* Parquet: a file is complete when it has been closed.                     *)

WriteParquet(b) == <<[block |-> "rows", batch |-> b], [block |-> "footer"]>>

\* The columns stay in the order of the file.
ProjectedBatch(b, columns, reserved) ==
    LET asked == ToSet(reserved) \cup ToSet(columns)
    IN IF columns = Null THEN Ok(b)
       ELSE IF ~(asked \subseteq Names(b)) THEN Err("ColumnNotFound")
       ELSE Ok([fields |-> SelectSeq(b.fields, LAMBDA f : f.name \in asked),
                rows   |-> [r \in DOMAIN b.rows |-> [c \in asked |-> b.rows[r][c]]]])
Batches(b) ==
    [k \in 1..((Len(b.rows) + BatchRows - 1) \div BatchRows) |->
        [b EXCEPT !.rows = SubSeq(@, (k - 1) * BatchRows + 1, Min({k * BatchRows, Len(@)}))]]

\* No rows, no batch, and so no frame.
ReadParquet(file, columns, reserved, from(_), concat(_)) ==
    IF file = Null \/ Len(file) < 2 THEN Err("IoError")
    ELSE Then(ProjectedBatch(file[1].batch, columns, reserved), LAMBDA b :
         Then(Collected([k \in DOMAIN Batches(b) |-> from(Batches(b)[k])]), LAMBDA frames :
              IF frames = <<>> THEN Err("ParseError") ELSE concat(frames)))
ReadParquetGraph(nodeFile, edgeFile, columns) ==
    GraphOf(ReadParquet(nodeFile, columns.nodes, NodeReserved, NodesFrom, ConcatNodes),
            ReadParquet(edgeFile, columns.edges, EdgeReserved, EdgesFrom, ConcatEdges))

-----------------------------------------------------------------------------
(* Nodes from csv.  The table has the types that were inferred; options is  *)
(* [label, idCol, prefix, columns, overrides].                              *)

Digits(v)        == 50 + v                  \* the string that spells a number
RowId(prefix, i) == 100 * prefix + i - 1    \* the prefix with the number of the row

\* A column of numbers can be read as text, one of text not as numbers.
OverriddenCell(from, to, v) ==
    IF v = Null \/ from = to \/ {from, to} = {"Int64", "Float64"} THEN Ok(v)
    ELSE IF to = "Utf8" THEN Ok(Digits(v)) ELSE Err("InvalidConfig")
Overridden(b, overrides) ==
    LET type(f) == IF f.name \in DOMAIN overrides THEN overrides[f.name] ELSE f.type
        cell(r, c) == OverriddenCell(TypeOf(b, c), type(FieldOf(b, c)), b.rows[r][c])
        bad == {cell(r, c).status : r \in DOMAIN b.rows, c \in Names(b)} \ {"ok"}
    IN IF ~(DOMAIN overrides \subseteq Names(b)) THEN Err("ColumnNotFound")
       ELSE IF bad # {} THEN Err("InvalidConfig")
       ELSE Ok([fields |-> [i \in DOMAIN b.fields |-> [b.fields[i] EXCEPT !.type = type(b.fields[i])]],
                rows   |-> [r \in DOMAIN b.rows |-> [c \in Names(b) |-> cell(r, c).value]]])

\* What a projection reads of the file.
CsvColumns(b, o) ==
    IF o.columns = Null THEN Named(b)
    ELSE WithNew(<<>>, (IF o.idCol # Null THEN <<o.idCol>> ELSE IF "_id" \in Names(b) THEN <<"_id">> ELSE <<>>)
                       \o (IF o.label = Null THEN <<"_label">> ELSE <<>>) \o o.columns)
AsText(b, c) ==
    IF Null \in ToSet(Column(b, c)) THEN Err("ReservedColumnType")
    ELSE Ok([r \in DOMAIN b.rows |-> IF TypeOf(b, c) = "Utf8" THEN b.rows[r][c] ELSE Digits(b.rows[r][c])])
CsvIds(b, o) ==
    LET c == IF o.idCol # Null THEN o.idCol ELSE "_id"
    IN IF c \in Names(b) THEN AsText(b, c)
       ELSE IF o.idCol # Null THEN Err("ColumnNotFound")
       ELSE Ok([r \in DOMAIN b.rows |-> RowId(o.prefix, r)])
CsvLabels(b, o) ==
    LET text == AsText(b, "_label")
    IN IF o.label # Null THEN Ok([r \in DOMAIN b.rows |-> <<o.label>>])
       ELSE IF "_label" \notin Names(b) THEN Err("MissingReservedColumn")
       ELSE IF text.status # "ok" THEN text
       ELSE Ok([r \in DOMAIN b.rows |-> <<text.value[r]>>])

ReadCsvNodes(table, o) ==
    LET b      == Overridden(table, o.overrides).value
        ids    == CsvIds(b, o)
        labels == CsvLabels(b, o)
        user   == SelectSeq(WithNew(<<>>, IF o.columns = Null THEN Named(b) ELSE o.columns),
                            LAMBDA c : c \notin ToSet(NodeReserved))
    IN IF Overridden(table, o.overrides).status # "ok" THEN Overridden(table, o.overrides)
       ELSE IF ~(ToSet(CsvColumns(b, o)) \subseteq Names(b)) THEN Err("ColumnNotFound")
       ELSE IF ids.status # "ok" THEN ids ELSE IF labels.status # "ok" THEN labels
       ELSE IF ToSet(user) \cap Underscored # {} THEN Err("ReservedColumnName")
       ELSE NodesFrom(
              [fields |-> NodeFields \o [i \in DOMAIN user |-> FieldOf(b, user[i])],
               rows   |-> [r \in DOMAIN b.rows |-> [c \in ToSet(NodeReserved) \cup ToSet(user) |->
                             CASE c = "_id" -> ids.value[r] [] c = "_label" -> labels.value[r]
                               [] OTHER -> b.rows[r][c]]]])

-----------------------------------------------------------------------------
(* Saving and loading.  A save is a sequence of writes: to empty a file, or *)
(* to add a block to it.                                                    *)

Empty(path)      == [path |-> path, block |-> Null]
Writes(path, blocks) == <<Empty(path)>> \o [i \in DOMAIN blocks |-> [path |-> path, block |-> blocks[i]]]

\* The writes of a save, none of which is made when the graph cannot be put out.
SaveWrites(format, g) ==
    LET text == WriteGf(g)
    IN CASE format = "gf"  -> IF text.status = "ok" THEN Ok(Writes("gf", text.value)) ELSE text
         [] format = "gfb" -> Ok(Writes("gfb", WriteGfb(g, [compression |-> "zstd", schema |-> Null])))
         [] format = "parquet" -> Ok(Writes("nodes", WriteParquet(g.nodes.data))
                                     \o Writes("edges", WriteParquet(g.edges.data)))
Write(disk, w) ==
    [disk EXCEPT ![w.path] = IF w.block = Null THEN <<>> ELSE Append(@, w.block)]

\* What a text may end with when it is cut off in the middle of an item: nothing
\* that can be read, or an edge to an id that the last one begins with.
Torn(path, block) ==
    IF path # "gf" \/ block = Null THEN {}
    ELSE {<<[item |-> "node", id |-> id, labels |-> <<>>, between |-> "|", pairs |-> <<>>]>> : id \in NotIdent}
         \cup (IF block.item = "edge" /\ block.pairs = <<>>
               THEN {<<[block EXCEPT !.right = id]>> : id \in Begins[block.right]} ELSE {})
Cut(disk, w) == {disk} \cup {[disk EXCEPT ![w.path] = @ \o t] : t \in Torn(w.path, w.block)}

Load(format, disk, columns) ==
    CASE format = "gf"      -> IF disk.gf = Null THEN Err("IoError") ELSE ReadGf(disk.gf)
      [] format = "gfb"     -> ReadGfb(disk.gfb, columns)
      [] format = "parquet" -> ReadParquetGraph(disk.nodes, disk.edges, columns)
=============================================================================
