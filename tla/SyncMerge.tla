----------------------------- MODULE SyncMerge -----------------------------
(* How a snapshot of another replica is merged into the local databases
   (src/aw-sync-rust/src/serialize.rs, conflict.rs).  Rows are matched by uuid
   and arbitrated by revision, (updated_at in milliseconds, device_id); the
   loser of a conflict is archived.

   A time stamp is a record [ms, iso]: the instant, and whether it was written
   as to_rfc3339 writes it ("...T...") or as rusqlite renders a DateTime column
   ("... ...").  Arbitration parses both; the cloud compares the text. *)
EXTENDS NoteTable, TodoTable

CONSTANTS
    Rank,             \* the order of device ids as strings; None is ""
    DayLength         \* instants per day

Sql(t) == [ms |-> t, iso |-> FALSE]
Iso(t) == [ms |-> t, iso |-> TRUE]

\* The order of the two texts: the date, then the separator, then the time.
TextLess(a, b) ==
    LET day(x) == x.ms \div DayLength
    IN  \/ day(a) < day(b)
        \/ day(a) = day(b) /\ ~a.iso /\ b.iso
        \/ day(a) = day(b) /\ a.iso = b.iso /\ a.ms < b.ms

\* Mutant: on equal times the incoming row always wins.
IncomingNewerOnTie(incoming, local) == incoming.updated.ms >= local.updated.ms

IncomingNewer(incoming, local) ==
    IF incoming.updated.ms # local.updated.ms
    THEN incoming.updated.ms > local.updated.ms
    ELSE Rank[incoming.dev] > Rank[local.dev]

Tied(a, b) == ~IncomingNewer(a, b) /\ ~IncomingNewer(b, a)

SameNote(a, b) ==
    /\ a.content = b.content
    /\ a.tags = b.tags
    /\ a.deleted = b.deleted

\* Neither the due date nor the priority is compared.
SameTodo(a, b) ==
    /\ a.text = b.text
    /\ a.completed = b.completed
    /\ a.deleted = b.deleted
    /\ a.subtasks = b.subtasks
    /\ a.list = b.list

\* What the two imports compare; only notes have a content.
Same(a, b) == IF "content" \in DOMAIN a THEN SameNote(a, b) ELSE SameTodo(a, b)

WithUuid(rows, u) == {i \in DOMAIN rows : rows[i].uuid = u}

(***************************************************************************)
(* One row against the index of local rows.                                *)
(***************************************************************************)
\* Mutant: deleted rows are left out of the index.
KnownLive(index, row) == \E i \in WithUuid(index, row.uuid) : ~index[i].deleted

Known(index, row) == WithUuid(index, row.uuid) # {}

\* The index is a map from uuids, filled in the order of the rows: of several
\* rows with one uuid the last is found.
LastOf(places) == CHOOSE i \in places : \A k \in places : k <= i

Local(index, row) == index[LastOf(WithUuid(index, row.uuid))]

Differs(index, row) == Known(index, row) /\ ~Same(Local(index, row), row)

Wins(index, row) ==
    Differs(index, row) /\ IncomingNewer(row, Local(index, row))

\* The rows after the import: UPDATE ... WHERE uuid for the winners, whatever
\* the row has become since the index was read, INSERT for the uuids that the
\* index does not know: the column is not UNIQUE.
Merged(rows, index, incoming) ==
    LET winner(u) == {k \in DOMAIN incoming :
                          incoming[k].uuid = u /\ Wins(index, incoming[k])}
    IN  [i \in DOMAIN rows |->
             IF winner(rows[i].uuid) = {} THEN rows[i]
             ELSE incoming[LastOf(winner(rows[i].uuid))]]
        \o Subsequence(incoming, {k \in DOMAIN incoming : ~Known(index, incoming[k])})

\* Mutant: the incoming row is archived in either case.
LoserIncoming(index, row, wins) == row

\* What goes to the trash: the index's row under a winner, the incoming row
\* when it is stale.
Loser(index, row, wins) == IF wins THEN Local(index, row) ELSE row

Archived(index, incoming) ==
    {[row |-> Loser(index, incoming[k], Wins(index, incoming[k])),
      restored |-> FALSE] :
         k \in {j \in DOMAIN incoming : Differs(index, incoming[j])}}

(***************************************************************************)
(* Whole databases.                                                        *)
(***************************************************************************)
ExportInbox(db) == [notes |-> db.notes, relations |-> db.relations]
ExportTodo(db) == [todos |-> db.todos, lists |-> db.lists]

\* Relations are appended unless an equal one is there; they name their notes
\* by the sender's row ids.
ImportInbox(db, index, export) ==
    [db EXCEPT !.notes = Merged(@, index, export.notes),
               !.relations = @ \cup export.relations]

\* The table of lists is replaced by the incoming one.
ImportTodo(db, index, export) ==
    [db EXCEPT !.todos = Merged(@, index, export.todos),
               !.lists = export.lists,
               !.nextList = Max({@} \cup {l + 1 : l \in DOMAIN export.lists})]

(***************************************************************************)
(* Restoring an archived row: an active row is left alone; a deleted one    *)
(* becomes active again with the content it has; a missing one is inserted  *)
(* as it was archived.  Of several rows with one uuid the first is asked    *)
(* and all are written.                                                     *)
(***************************************************************************)
Revived(rows, row, now) ==
    [i \in DOMAIN rows |->
        IF rows[i].uuid = row.uuid
        THEN [rows[i] EXCEPT !.deleted = FALSE, !.updated = now] ELSE rows[i]]

RestoredNotes(rows, row, now) ==
    IF Known(rows, row) THEN Revived(rows, row, now) ELSE Append(rows, row)

\* The INSERT names neither the subtasks nor the list.
RestoredTodos(rows, row, now) ==
    IF Known(rows, row) THEN Revived(rows, row, now)
    ELSE Append(rows, [row EXCEPT !.subtasks = <<>>, !.list = Inbox0])

\* Whether anything was restored: the entry is then marked.
Restorable(rows, row) ==
    \A i \in WithUuid(rows, row.uuid) :
        (\A k \in WithUuid(rows, row.uuid) : i <= k) => rows[i].deleted
=============================================================================
