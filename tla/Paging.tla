-------------------------------- MODULE Paging --------------------------------
(***************************************************************************)
(* A load from a database, page by page.  The queries for the pages are    *)
(* sent one after the other and name no order, so each is answered from    *)
(* the rows that the database has at that moment, in the order in which it *)
(* has them then, while others put rows in anywhere, remove and move them. *)
(*                                                                         *)
(* remote holds the rows that the query asks for, and nothing of the rest. *)
(* A row is told apart by its id, which is all that the check for double   *)
(* node ids needs.                                                         *)
(***************************************************************************)
EXTENDS Naturals, FiniteSets, SequencesExt

CONSTANTS
    Rows,         \* the rows there may be
    BatchSizes,   \* the sizes of a page that a caller asks for
    MaxChanges    \* bound: changes of the database during a load

VARIABLES
    remote,    \* the rows of the database, in its present order
    load,      \* the load: what is loaded, its batch size, skip, pages and status
    changed    \* history: what has been done to the database, each [kind, row]

vars == <<remote, load, changed>>

Begun(what, n) ==
    [what |-> what, batchSize |-> n, skip |-> 0, pages |-> <<>>, status |-> "loading", rows |-> <<>>]

TypeOK ==
    /\ remote \in Seq(Rows) /\ IsInjective(remote)
    /\ load \in [what : {"nodes", "edges"}, batchSize : BatchSizes, skip : Nat, pages : Seq(Seq(Rows)),
                 status : {"loading", "ok", "DuplicateNodeId", "ConnectorError", "InvalidConfig"},
                 rows : Seq(Rows)]
    /\ changed \in Seq([kind : {"insert", "remove", "move"}, row : Rows])

-----------------------------------------------------------------------------
(* The connector. *)

\* Mutant of Finished: the pages are put together without a look at the ids.
FinishedUnchecked(l, pages) ==
    [l EXCEPT !.pages = <<>>, !.status = "ok", !.rows = FlattenSeq(pages)]
\* finish_node_pages and finish_edge_pages: one page is the answer, several are
\* put together, and node ids must then be distinct.
Finished(l, pages) ==
    LET all == FlattenSeq(pages)
    IN IF l.what = "nodes" /\ Len(pages) > 1 /\ ~IsInjective(all)
       THEN [l EXCEPT !.pages = <<>>, !.status = "DuplicateNodeId"]
       ELSE [l EXCEPT !.pages = <<>>, !.status = "ok", !.rows = all]

Refuse ==
    /\ load.status = "loading" /\ load.batchSize = 0
    /\ load' = [load EXCEPT !.status = "InvalidConfig"]
    /\ UNCHANGED <<remote, changed>>

\* Mutant of NextPage: a full page is asked for again.
NextPageRepeats(l, page) == IF Len(page) < l.batchSize THEN Finished(l, Append(l.pages, page)) ELSE l
\* A page that is not full is the last one.
NextPage(l, page) ==
    IF Len(page) < l.batchSize THEN Finished(l, Append(l.pages, page))
    ELSE [l EXCEPT !.pages = Append(@, page), !.skip = @ + l.batchSize]
Answer(skip, n) == SubSeq(remote, skip + 1, Min({skip + n, Len(remote)}))
FetchPage ==
    /\ load.status = "loading" /\ load.batchSize > 0
    /\ load' = NextPage(load, Answer(load.skip, load.batchSize))
    /\ UNCHANGED <<remote, changed>>

\* An error of the backend drops the pages that have come.
FetchFails ==
    /\ load.status = "loading" /\ load.batchSize > 0
    /\ load' = [load EXCEPT !.status = "ConnectorError", !.pages = <<>>]
    /\ UNCHANGED <<remote, changed>>

-----------------------------------------------------------------------------
(* The database. *)

Change(kind, row, rows) ==
    /\ load.status = "loading" /\ Len(changed) < MaxChanges
    /\ remote' = rows
    /\ changed' = Append(changed, [kind |-> kind, row |-> row])
    /\ UNCHANGED load
\* A row comes in at any place, in front of the skip too.
InsertRow ==
    \E x \in Rows \ ToSet(remote), i \in 1..(Len(remote) + 1) : Change("insert", x, InsertAt(remote, i, x))
RemoveRow == \E i \in DOMAIN remote : Change("remove", remote[i], RemoveAt(remote, i))
\* A row is stored anew, or the database orders its rows another way.
MoveRow ==
    \E i, j \in DOMAIN remote :
        j # i /\ Change("move", remote[i], InsertAt(RemoveAt(remote, i), j, remote[i]))

Init ==
    /\ remote \in {s \in UNION {[1..n -> Rows] : n \in 0..Cardinality(Rows)} : IsInjective(s)}
    /\ \E what \in {"nodes", "edges"}, n \in BatchSizes : load = Begun(what, n)
    /\ changed = <<>>
Next == Refuse \/ FetchPage \/ FetchFails \/ InsertRow \/ RemoveRow \/ MoveRow
Spec == Init /\ [][Next]_vars /\ WF_vars(Refuse \/ FetchPage)

-----------------------------------------------------------------------------
(* Properties. *)

Loaded == load.status = "ok"
Touched == {changed[i].row : i \in DOMAIN changed}
Times(kinds) == Cardinality({i \in DOMAIN changed : changed[i].kind \in kinds})
\* The places of a row that comes again.
Repeats(s) == {i \in DOMAIN s : \E j \in DOMAIN s : i < j /\ s[i] = s[j]}

\* What the pages of load_nodes and load_edges come to while others change the
\* database, whose queries name no order.  Without a change they are its rows.
\* Otherwise they are rows that it has, or that a change was about; of the rows that
\* no change was about a removal or a move costs at most one, which is missing, and
\* an insertion none; and an insertion or a move makes at most one row come again,
\* which load_nodes refuses: it gives no node twice, and an error only then.
EachChangeCostsAtMostARow ==
    /\ Loaded =>
          /\ changed = <<>> => load.rows = remote
          /\ ToSet(load.rows) \subseteq ToSet(remote) \cup Touched
          /\ Cardinality((ToSet(remote) \ Touched) \ ToSet(load.rows)) <= Times({"remove", "move"})
          /\ Cardinality(Repeats(load.rows)) <= Times({"insert", "move"})
          /\ load.what = "nodes" => IsInjective(load.rows)
    /\ load.status = "DuplicateNodeId" => Times({"insert", "move"}) > 0

\* A load comes to an end, when the database answers and does not change for ever.
LoadEnds == <>(load.status # "loading")
=============================================================================
