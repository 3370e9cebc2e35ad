------------------------------- MODULE Schemas -------------------------------
(***************************************************************************)
(* Declared labels and edge types.  A schema is [nodes, edges]: a label has *)
(* [fields, extends], a type its fields, and a field is [name, type,       *)
(* unique, default].  A declared type is the sequence of its constructors, *)
(* as in <<"Optional", "List", "Int">>.                                    *)
(***************************************************************************)
EXTENDS Expressions

-----------------------------------------------------------------------------
(* Types. *)

\* A list of labels has the type List; of other lists the frames read no items.
ListTypes == [Utf8 |-> "List", Int64 |-> "List<Int64>", Float64 |-> "List<Float64>",
              Boolean |-> "List<Boolean>"]
ListOf(type) == IF type \in DOMAIN ListTypes THEN ListTypes[type] ELSE "Nested"
Scalar == [String |-> "Utf8", Any |-> "Utf8", Int |-> "Int64", Float |-> "Float64",
           Bool |-> "Boolean", Date |-> "Date32", DateTime |-> "Timestamp", Duration |-> "Duration"]

ValidType(t) == \A i \in 2..Len(t) : t[i] = "Optional" => t[i - 1] \notin {"List", "Optional"}
Nullable(t)  == Head(t) = "Optional"
ToArrow(t) ==
    LET arrow[i \in DOMAIN t] == CASE t[i] = "Optional" -> arrow[i + 1]
                                   [] t[i] = "List"     -> ListOf(arrow[i + 1])
                                   [] OTHER             -> Scalar[t[i]]
    IN arrow[1]

\* A value in the lists of a value has a place: its number in each of them.
Item(value, p) == LET item[q \in Seq(Nat)] == IF q = <<>> THEN value ELSE item[Front(q)].v[Last(q)] IN item[p]
MatchesType(value, type) ==
    LET matches[p \in Seq(Nat), k \in DOMAIN type] ==
          LET x == Item(value, p)
          IN IF x.kind = "Null" THEN type[k] = "Optional"
             ELSE IF type[k] = "Optional" THEN matches[p, k + 1]
             ELSE IF x.kind = "List"
             THEN /\ type[k] = "List"
                  /\ \A i \in DOMAIN x.v : x.v[i].kind = "Null" \/ matches[Append(p, i), k + 1]
             ELSE type[k] \in {x.kind, "Any"}
    IN matches[<<>>, 1]
DefaultFits(f) == f.default = Null \/ MatchesType(f.default, f.type)

-----------------------------------------------------------------------------
(* The fields of a label: those of its ancestors, in their order, with what *)
(* it says of them itself, then its own.                                    *)

\* Mutant of Merged: what an ancestor says of uniqueness is forgotten.
MergedOwnUnique(parent, child) ==
    LET default == IF child.default = Null THEN parent.default ELSE child.default
    IN IF parent.type # child.type THEN Err("SchemaMismatch") ELSE Ok([child EXCEPT !.default = default])
Merged(parent, child) ==
    LET default == IF child.default = Null THEN parent.default ELSE child.default
    IN IF parent.type # child.type THEN Err("SchemaMismatch")
       ELSE Ok([child EXCEPT !.unique = parent.unique \/ @, !.default = default])

FieldError(f) == IF ~ValidType(f.type) THEN "SchemaMismatch"
                 ELSE IF ~DefaultFits(f) THEN "TypeMismatch" ELSE "ok"
WithField(acc, f) ==
    LET at  == {i \in DOMAIN acc.value : acc.value[i].name = f.name}
        one == Merged(acc.value[Min(at)], f)
    IN IF acc.status # "ok" THEN acc
       ELSE IF FieldError(f) # "ok" THEN Err(FieldError(f))
       ELSE IF at = {} THEN Ok(Append(acc.value, f))
       ELSE IF one.status # "ok" THEN one
       ELSE Ok([acc.value EXCEPT ![Min(at)] = one.value])

\* The fields of each declared label.  The stack holds the labels that are being resolved.
ResolvedFields(schema) ==
    LET labels == DOMAIN schema.nodes \cup {schema.nodes[l].extends : l \in DOMAIN schema.nodes}
        resolved[l \in labels, stack \in SUBSET labels] ==
          LET s         == schema.nodes[l]
              inherited == IF s.extends = Null THEN Ok(<<>>) ELSE resolved[s.extends, stack \cup {l}]
          IN IF l \in stack THEN Err("CircularInheritance")
             ELSE IF l \notin DOMAIN schema.nodes THEN Err("SchemaMismatch")
             ELSE FoldLeft(WithField, inherited, s.fields)
    IN [l \in DOMAIN schema.nodes |-> resolved[l, {}]]

-----------------------------------------------------------------------------
(* What validate_graph has against a graph.  A field of a wrong type is not *)
(* looked at further; a unique value is remembered for each label that a    *)
(* row lists, also where it lists the same one twice.                       *)

Said(error, places) == IF places = {} THEN {} ELSE {error}

\* What a label, or a type, says of a row that has it.
FieldErrors(b, row, f) ==
    LET required == f.default = Null /\ ~Nullable(f.type)
    IN IF f.name \notin Names(b) THEN (IF required THEN {"MissingRequired"} ELSE {})
       ELSE IF ~ValidType(f.type) \/ TypeOf(b, f.name) # ToArrow(f.type) THEN {"TypeMismatch"}
       ELSE IF required /\ b.rows[row][f.name] = Null THEN {"MissingRequired"} ELSE {}
\* said is a sequence of pairs of a row and a label or type.
ErrorsOf(b, said, fields(_)) ==
    LET value(i, f) == b.rows[said[i][1]][f.name]
        typed(f)    == f.name \in Names(b) /\ ValidType(f.type) /\ TypeOf(b, f.name) = ToArrow(f.type)
        clash(i, j) == /\ i < j /\ said[i][2] = said[j][2]
                       /\ \E f \in {f \in fields(said[i][2]) : f.unique /\ typed(f)} :
                             value(i, f) # Null /\ value(i, f) = value(j, f)
    IN UNION {UNION {FieldErrors(b, said[i][1], f) : f \in fields(said[i][2])} : i \in DOMAIN said}
       \cup Said("UniqueViolation", {i \in DOMAIN said : \E j \in DOMAIN said : clash(i, j)})

ValidateNodes(resolved, b) ==
    LET broken == {l \in DOMAIN resolved : resolved[l].status # "ok"}
        said   == FlattenSeq([r \in DOMAIN b.rows |->
                     [i \in DOMAIN b.rows[r]["_label"] |-> <<r, b.rows[r]["_label"][i]>>]])
        known  == SelectSeq(said, LAMBDA s : s[2] \in DOMAIN resolved \ broken)
    IN IF resolved = <<>> THEN {}
       ELSE Said("TypeMismatch", broken) \cup ErrorsOf(b, known, LAMBDA l : ToSet(resolved[l].value))
            \cup Said("UndefinedNodeLabel", ToSet(said) \ ToSet(known))

ValidateEdges(schema, b) ==
    LET said  == [r \in DOMAIN b.rows |-> <<r, b.rows[r]["_type"]>>]
        known == SelectSeq(said, LAMBDA s : s[2] \in DOMAIN schema.edges)
    IN IF DOMAIN schema.edges = {} THEN {}
       ELSE ErrorsOf(b, known, LAMBDA t : ToSet(schema.edges[t]))
            \cup Said("UndefinedEdgeType", ToSet(said) \ ToSet(known))

ValidateGraph(schema, nodes, edges) ==
    ValidateNodes(ResolvedFields(schema), nodes.data) \cup ValidateEdges(schema, edges.data)

NewWithSchema(nodes, edges, schema, validate) ==
    IF Dangles(nodes, edges) THEN Err("DanglingEdge")
    ELSE IF validate /\ schema # Null /\ ValidateGraph(schema, nodes, edges) # {}
    THEN Err("SchemaValidation")
    ELSE Ok([nodes |-> nodes, edges |-> edges, schema |-> schema])
=============================================================================
