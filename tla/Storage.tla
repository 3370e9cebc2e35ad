-------------------------------- MODULE Storage --------------------------------
(***************************************************************************)
(* Graphs on a disk: saves, each of which is a sequence of writes, crashes *)
(* that cut a save short, and loads by others at any time.  Every format   *)
(* has a path of its own, parquet one for each frame.                      *)
(***************************************************************************)
EXTENDS Files

CONSTANTS
    Formats,      \* the formats in use
    SaveGraphs,   \* the graphs that are saved
    Projections,  \* the columns that are loaded: [nodes, edges], Null for all
    MaxSaves      \* bound: saves

VARIABLES
    disk,     \* the blocks of each file, Null where there is none
    saving,   \* the save that is under way: [format, todo]
    saves,    \* history: the saves begun, each [format, graph]
    saved,    \* history: for each format the graph that its file, or files, hold in full, or Null
    read      \* the last load: [format, columns, result]

vars == <<disk, saving, saves, saved, read>>

Paths == {"gf", "gfb", "nodes", "edges"}
NotSaving == [format |-> "none", todo |-> <<>>]
NotRead   == [format |-> "none", columns |-> Null, result |-> Err("none")]

-----------------------------------------------------------------------------

\* A graph that a format cannot express is refused before anything is written.
Save(format, g) ==
    LET writes == SaveWrites(format, g)
    IN /\ saving = NotSaving /\ Len(saves) < MaxSaves
       /\ saves' = Append(saves, [format |-> format, graph |-> g])
       /\ saving' = IF writes.status = "ok" THEN [format |-> format, todo |-> writes.value] ELSE saving
       /\ read' = NotRead
       /\ UNCHANGED <<disk, saved>>

WriteBlock ==
    LET rest == Tail(saving.todo)
    IN /\ saving.todo # <<>>
       /\ disk' = Write(disk, Head(saving.todo))
       /\ saving' = IF rest = <<>> THEN NotSaving ELSE [saving EXCEPT !.todo = rest]
       /\ saved' = [saved EXCEPT ![saving.format] = IF rest = <<>> THEN Last(saves).graph ELSE Null]
       /\ read' = NotRead
       /\ UNCHANGED saves

\* The save ends in the middle of its next write.
Crash ==
    /\ saving.todo # <<>>
    /\ disk' \in Cut(disk, Head(saving.todo))
    /\ saving' = NotSaving
    /\ read' = NotRead
    /\ UNCHANGED <<saves, saved>>

ReadBack(format, columns) ==
    /\ read' = [format |-> format, columns |-> columns, result |-> Load(format, disk, columns)]
    /\ UNCHANGED <<disk, saving, saves, saved>>

Init ==
    /\ disk = [p \in Paths |-> Null] /\ saving = NotSaving /\ saves = <<>>
    /\ saved = [f \in Formats |-> Null] /\ read = NotRead
Next ==
    \/ \E f \in Formats, g \in SaveGraphs : Save(f, g)
    \/ WriteBlock \/ Crash
    \/ \E f \in Formats, columns \in Projections : ReadBack(f, columns)

-----------------------------------------------------------------------------
(* Properties. *)

\* What the text format puts out and reads again as it was: at most one label, ids
\* and values that the grammar reads, and edges that lead out or have no direction.
TextKeeps(g) ==
    /\ \A r \in DOMAIN g.nodes.data.rows : Len(g.nodes.data.rows[r]["_label"]) <= 1
    /\ ToSet(IdsOf(g)) \cap NotIdent = {}
    /\ \A b \in {g.nodes.data, g.edges.data} : \A f \in ToSet(b.fields) :
          \A v \in ToSet(Column(b, f.name)) : v # Null /\ f.type = "Utf8" => Val("String", v) \notin Unreadable
    /\ \A r \in DOMAIN EdgeRows(g) : EdgeRows(g)[r]["_direction"] \in {0, 3}

\* The same rows in the same order.  A gf file keeps no null, so a column of nothing
\* but nulls is not there again.
SameRows(got, b) ==
    /\ DOMAIN got.rows = DOMAIN b.rows /\ Names(got) \subseteq Names(b)
    /\ \A r \in DOMAIN b.rows, c \in Names(b) :
          IF c \in Names(got) THEN got.rows[r][c] = b.rows[r][c] ELSE b.rows[r][c] = Null
ComesBack(g) ==
    /\ read.result.status = "ok"
    /\ SameRows(read.result.value.nodes.data, g.nodes.data)
    /\ SameRows(read.result.value.edges.data, g.edges.data)
\* The pairs of nodes that edges of each type join, whatever their direction.
Joined(g) == {<<{row["_src"], row["_dst"]}, row["_type"]>> : row \in ToSet(EdgeRows(g))}

\* Exactly the columns that were asked for, with the rows they had.
SameColumns(got, b, columns, reserved) ==
    LET asked == IF columns = Null THEN Names(b) ELSE ToSet(reserved) \cup ToSet(columns)
    IN Names(got) = asked /\ got.rows = [r \in DOMAIN b.rows |-> [c \in asked |-> b.rows[r][c]]]
NodesOfSave(g) == SameColumns(read.result.value.nodes.data, g.nodes.data, read.columns.nodes, NodeReserved)
EdgesOfSave(g) == SameColumns(read.result.value.edges.data, g.edges.data, read.columns.edges, EdgeReserved)

ReadsBack(g) ==
    CASE read.format = "gf" ->
            IF TextKeeps(g) THEN ComesBack(g)
            ELSE read.result.status = "ok" =>
                    /\ SameRows(read.result.value.nodes.data, g.nodes.data)
                    /\ Joined(read.result.value) = Joined(g)
      [] read.format = "parquet" /\ (IdsOf(g) = <<>> \/ EdgeRows(g) = <<>>) -> read.result.status = "ParseError"
      [] OTHER -> read.result.status = "ok" /\ NodesOfSave(g) /\ EdgesOfSave(g)

\* What a load returns.  Of a save that went through, the rows that were saved,
\* except that the text of a graph which text does not keep may be refused, or give
\* the nodes with other directions between them (GfRoundTrips), and that parquet
\* files without rows are refused.  Of a save that was cut short, or is under way, a gfb file gives
\* nothing, a pair of parquet files at most frames that have been saved, each as a
\* whole but perhaps by two saves, and no format a graph with an edge that has no
\* end.  What an inspection says of a gfb file is what is read from it.
LoadsReturnWhatWasSaved ==
    LET known == read.format # "none"
        ok    == read.result.status = "ok"
        ofParquet == {saves[i].graph : i \in {i \in DOMAIN saves : saves[i].format = "parquet"}}
    IN /\ known /\ saved[read.format] # Null => ReadsBack(saved[read.format])
       /\ read.format = "gfb" /\ saved["gfb"] = Null => ~ok
       /\ read.format = "parquet" /\ ok =>
             (\E g \in ofParquet : NodesOfSave(g)) /\ (\E g \in ofParquet : EdgesOfSave(g))
       /\ read.format = "gfb" /\ ok =>
             LET said == InspectGfb(disk.gfb)
             IN /\ said.status = "ok" /\ said.value.types = DOMAIN read.result.value.edges.types
                /\ <<said.value.nodes, said.value.edges>> =
                      <<Len(IdsOf(read.result.value)), Len(EdgeRows(read.result.value))>>
       /\ known /\ ok => ~Dangles(read.result.value.nodes, read.result.value.edges)

\* "The output is human-readable and round-trippable through `parse_gf`"
\* (gf_writer.rs:3): of a save that went through, a load is the graph again, each row
\* with its ends, its type and its direction.  The writer puts an edge that leads in
\* as `src <-[TYPE]- dst`, its source on the left; the parser takes the left of such
\* an arrow for the end it leads to, and makes two rows of an arrow that leads both
\* ways.
GfRoundTrips == read.format = "gf" /\ saved["gf"] # Null => ComesBack(saved["gf"])
=============================================================================
