-------------------------------- MODULE Sync --------------------------------
(* Replicas of the notes and todo databases that exchange snapshots over the
   LAN (src/aw-sync-rust/src/manager.rs, endpoints.rs, transport.rs) and rows
   with a cloud database (d1_sync.rs), while their users go on editing.

   A LAN cycle fetches the peer's snapshot without the manager's lock, merges
   it under the lock, and pushes the result without the lock; the peer merges
   what was pushed under its own lock, possibly after the sender gave up.  A
   merge reads an index of the local rows before its transaction begins, so
   the user can write in between.  A cloud cycle takes one table after the
   other; the user's holds the manager's lock from its first request to its
   last, the background thread's holds no lock.  Lists are left out: the todos
   are in the inbox, and the cloud's table of lists is not modelled. *)
EXTENDS SyncMerge

CONSTANTS
    Device,
    Uuid,             \* notes and todos that may be created
    Content,          \* what a note can say
    Text,             \* what a todo can say
    MaxClock, MaxEdits, MaxLosses, MaxCycles, MaxResets      \* bounds

ASSUME SyncAssumption ==
    /\ IsFiniteSet(Device)
    /\ Rank \in [Device \cup {None} -> Nat]
    /\ DayLength \in Nat \ {0} /\ MaxClock \in Nat
    /\ "fetch" \notin Device

VARIABLES
    clock,            \* the instant the devices' clocks show
    notesDb, todoDb,  \* by device: inbox.db, todo.db
    trash,            \* by device: the archived rows, [row, restored]
    lan,              \* by device: its LAN cycle
    net,              \* snapshots pushed and neither received nor lost
    job,              \* by device: the merge that holds the manager's lock
    d1,               \* by device: its cloud cycle
    cloud,            \* the D1 database: [notes, todos, seen]
    budget,           \* edits, losses, cycles and resets so far
    written,          \* history: every revision of a note
    used,             \* history: the uuids given to notes and todos
    gone,             \* history: revisions overwritten without an archive
    doubled           \* history: uuids that a merge inserted a second time

replicas == <<notesDb, todoDb, trash>>
exchanges == <<lan, net, job, d1>>
history == <<written, used, gone, doubled>>
vars == <<clock, replicas, exchanges, cloud, budget, history>>

Idle == [phase |-> "idle"]

\* The manager's mutex is free: no merge, no cloud cycle of the user's.
LockFree(d) == job[d] = Idle /\ (d1[d] # Idle => ~d1[d].locked)

\* Mutant: deleted rows are not exported.
SnapshotOfLive(d) ==
    [notes |-> [ExportInbox(notesDb[d]) EXCEPT
                    !.notes = SelectSeq(@, LAMBDA row : ~row.deleted)],
     todos |-> ExportTodo(todoDb[d])]

Snapshot(d) == [notes |-> ExportInbox(notesDb[d]), todos |-> ExportTodo(todoDb[d])]

Revision(row) == [uuid |-> row.uuid, content |-> row.content,
                  ms |-> row.updated.ms, dev |-> row.dev]

Revisions(rows) == {Revision(rows[i]) : i \in DOMAIN rows}

Init ==
    /\ clock = 0
    /\ notesDb = [d \in Device |-> EmptyNotes]
    /\ todoDb = [d \in Device |-> EmptyTodos]
    /\ trash = [d \in Device |-> {}]
    /\ lan = [d \in Device |-> Idle]
    /\ net = {}
    /\ job = [d \in Device |-> Idle]
    /\ d1 = [d \in Device |-> Idle]
    /\ cloud = [notes |-> <<>>, todos |-> <<>>,
                seen |-> [s \in Device \X {"notes", "todos"} |-> None]]
    /\ budget = [edits |-> 0, losses |-> 0, cycles |-> 0, resets |-> 0]
    /\ written = {}
    /\ used = {}
    /\ gone = {}
    /\ doubled = {}

Spend(what, max) ==
    /\ budget[what] < max
    /\ budget' = [budget EXCEPT ![what] = @ + 1]

\* Every exchange carries a flag, "clean": nothing but the exchange itself has
\* written to a replica or to the cloud since it began.
Soiled(x) == IF x = Idle THEN x ELSE [x EXCEPT !.clean = FALSE]
SoiledAll(f) == [d \in Device |-> Soiled(f[d])]

(***************************************************************************)
(* The users.  The routes of aw-inbox-rust do not take the manager's lock; *)
(* the trash does.  No row is written twice in the same millisecond.       *)
(***************************************************************************)
UserWrites(d, notes, todos, t) ==
    /\ Spend("edits", MaxEdits)
    /\ clock' = t
    /\ notesDb' = [notesDb EXCEPT ![d] = notes]
    /\ todoDb' = [todoDb EXCEPT ![d] = todos]
    /\ lan' = SoiledAll(lan)
    /\ net' = {Soiled(m) : m \in net}
    /\ job' = SoiledAll(job)
    /\ d1' = SoiledAll(d1)
    /\ written' = written \cup Revisions(notes.notes)
    /\ used' = used \cup {notes.notes[i].uuid : i \in NoteIds(notes)}
                    \cup {todos.todos[i].uuid : i \in TodoIds(todos)}
    /\ UNCHANGED <<cloud, gone, doubled>>

\* Time passes between writes, or does not.
Instant == {clock, clock + 1} \cap 0..MaxClock

WriteNote(d) ==
    \E t \in Instant :
        LET db == notesDb[d]
            put(new) == UserWrites(d, new, todoDb[d], t) /\ UNCHANGED trash
        IN  \/ \E u \in Uuid \ used, c \in Content :
                   put(CreateNote(db, u, c, {}, d, Sql(t)))
            \/ \E i \in NoteIds(db) :
                   /\ db.notes[i].updated.ms < t
                   /\ \/ \E c \in Content : put(UpdateNote(db, i, c, {}, d, Sql(t)))
                      \/ put(DeleteNote(db, i, d, Sql(t)))

WriteTodo(d) ==
    \E t \in Instant :
        LET db == todoDb[d]
            put(new) == UserWrites(d, notesDb[d], new, t) /\ UNCHANGED trash
        IN  \/ \E u \in Uuid \ used, x \in Text :
                   put(CreateTodo(db, u, x, None, <<>>, Inbox0, d, Sql(t)))
            \/ \E i \in TodoIds(db) :
                   /\ db.todos[i].updated.ms < t
                   /\ \/ put(UpdateTodo(db, i, [NoChange EXCEPT !.completed = TRUE],
                                        Sql(t)))
                      \/ put(DeleteTodo(db, i))

\* An entry is marked only when something was restored.
RestoreTrash(d) ==
    \E e \in trash[d], t \in Instant :
        LET isNote == "content" \in DOMAIN e.row
            rows == IF isNote THEN notesDb[d].notes ELSE todoDb[d].todos
        IN  /\ LockFree(d)
            /\ ~e.restored
            /\ Restorable(rows, e.row)
            /\ \A i \in WithUuid(rows, e.row.uuid) : rows[i].updated.ms < t
            /\ UserWrites(d,
                   IF isNote THEN [notesDb[d] EXCEPT
                                       !.notes = RestoredNotes(@, e.row, Iso(t))]
                             ELSE notesDb[d],
                   IF isNote THEN todoDb[d]
                             ELSE [todoDb[d] EXCEPT
                                       !.todos = RestoredTodos(@, e.row, Iso(t))], t)
            /\ trash' = [trash EXCEPT ![d] =
                             (@ \ {e}) \cup {[e EXCEPT !.restored = TRUE]}]

\* The user deletes an entry, or all of them.
DeleteTrash(d) ==
    \E es \in {{e} : e \in trash[d]} \cup ({trash[d]} \ {{}}) :
        /\ Spend("resets", MaxResets)
        /\ LockFree(d)
        /\ trash' = [trash EXCEPT ![d] = @ \ es]
        /\ gone' = gone \cup {Revision(e.row) : e \in {x \in es : "content" \in DOMAIN x.row}}
        /\ UNCHANGED <<clock, notesDb, todoDb, exchanges, cloud, written, used, doubled>>

\* The application is installed again: the business databases are gone, what
\* the other side and the cloud know about the device is not.
Reset(d) ==
    /\ Spend("resets", MaxResets)
    /\ LockFree(d)
    /\ notesDb' = [notesDb EXCEPT ![d] = EmptyNotes]
    /\ todoDb' = [todoDb EXCEPT ![d] = EmptyTodos]
    /\ lan' = [SoiledAll(lan) EXCEPT ![d] = Idle]
    /\ net' = {Soiled(m) : m \in net}
    /\ job' = SoiledAll(job)
    /\ d1' = [SoiledAll(d1) EXCEPT ![d] = Idle]
    /\ gone' = gone \cup Revisions(notesDb[d].notes)
                    \cup {[uuid |-> notesDb[d].notes[h.note].uuid, ms |-> 0,
                           content |-> h.content, dev |-> None] :
                              h \in notesDb[d].history}
    /\ UNCHANGED <<clock, trash, cloud, written, used, doubled>>

(***************************************************************************)
(* A merge: the index of one table, its transaction, then the next table.  *)
(***************************************************************************)
StartMerge(d, snap, of, clean) ==
    job' = [job EXCEPT ![d] = [phase |-> "notes", snap |-> snap, of |-> of,
                               index |-> notesDb[d].notes, clean |-> clean]]

\* The rows a merge overwrites although the index has another row for them,
\* which is the one it archives: they changed since the index was read, or
\* share their uuid with another row.
Overrun(rows, merged, index) ==
    {Revision(rows[i]) : i \in {k \in DOMAIN rows : /\ merged[k] # rows[k]
                                                   /\ rows[k] # Local(index, rows[k])}}

\* The uuids that a merge inserts, which were inserted since the index was read.
Doubled(rows, index, incoming) ==
    {u \in {incoming[k].uuid : k \in DOMAIN incoming} :
        WithUuid(index, u) = {} /\ WithUuid(rows, u) # {}}

\* What the merge archived is put into the trash.
PersistOutcome(d, archived) == trash' = [trash EXCEPT ![d] = @ \cup archived]

\* A merge that changed something soils every exchange but its own.
MergeNotes(d) ==
    LET j == job[d]
        new == ImportInbox(notesDb[d], j.index, j.snap.notes)
        soil == new.notes # notesDb[d].notes
    IN  /\ j.phase = "notes"
        /\ notesDb' = [notesDb EXCEPT ![d] = new]
        /\ PersistOutcome(d, Archived(j.index, j.snap.notes.notes))
        /\ gone' = gone \cup Overrun(notesDb[d].notes, new.notes, j.index)
        /\ doubled' = doubled \cup Doubled(notesDb[d].notes, j.index, j.snap.notes.notes)
        /\ job' = [e \in Device |->
                       IF e = d THEN [j EXCEPT !.phase = "todos",
                                               !.index = todoDb[d].todos]
                       ELSE IF soil THEN Soiled(job[e]) ELSE job[e]]
        /\ lan' = [e \in Device |->
                       IF soil /\ ~(e = d /\ j.of = "fetch") THEN Soiled(lan[e])
                                                             ELSE lan[e]]
        /\ net' = IF soil THEN {Soiled(m) : m \in net} ELSE net
        /\ d1' = IF soil THEN SoiledAll(d1) ELSE d1
        /\ UNCHANGED <<clock, todoDb, cloud, budget, written, used>>

MergeTodos(d) ==
    LET j == job[d]
        new == ImportTodo(todoDb[d], j.index, j.snap.todos)
        soil == new.todos # todoDb[d].todos
    IN  /\ j.phase = "todos"
        /\ todoDb' = [todoDb EXCEPT ![d] = new]
        /\ PersistOutcome(d, Archived(j.index, j.snap.todos.todos))
        /\ job' = [e \in Device |-> IF e = d THEN Idle
                                    ELSE IF soil THEN Soiled(job[e]) ELSE job[e]]
        /\ lan' = [e \in Device |->
                       IF e = d /\ j.of = "fetch"
                       THEN [phase |-> "push", peer |-> lan[d].peer, clean |-> j.clean]
                       ELSE IF soil THEN Soiled(lan[e]) ELSE lan[e]]
        /\ net' = IF soil THEN {Soiled(m) : m \in net} ELSE net
        /\ d1' = IF soil THEN SoiledAll(d1) ELSE d1
        /\ doubled' = doubled \cup Doubled(todoDb[d].todos, j.index, j.snap.todos.todos)
        /\ UNCHANGED <<clock, notesDb, cloud, budget, written, used, gone>>

(***************************************************************************)
(* The phases of a LAN cycle of d with p.                                  *)
(***************************************************************************)
FetchSnapshot(d, p) ==
    /\ p # d
    /\ Spend("cycles", MaxCycles)
    /\ lan[d] = Idle
    /\ LockFree(p)
    /\ lan' = [lan EXCEPT ![d] = [phase |-> "apply", peer |-> p,
                                  snap |-> Snapshot(p), clean |-> TRUE]]
    /\ UNCHANGED <<clock, replicas, net, job, d1, cloud, history>>

ApplyFetched(d) ==
    /\ lan[d].phase = "apply"
    /\ LockFree(d)
    /\ StartMerge(d, lan[d].snap, "fetch", lan[d].clean)
    /\ lan' = [lan EXCEPT ![d] = [phase |-> "merge", peer |-> lan[d].peer,
                                  clean |-> lan[d].clean]]
    /\ UNCHANGED <<clock, replicas, net, d1, cloud, budget, history>>

\* The result of the push is ignored: the cycle ends with "success" whether or
\* not it arrives.  One push of a device in flight is a bound of the model.
PushSnapshot(d) ==
    /\ lan[d].phase = "push"
    /\ LockFree(d)
    /\ \A m \in net : m.from # d
    /\ net' = net \cup {[phase |-> "sent", from |-> d, to |-> lan[d].peer,
                         snap |-> Snapshot(d), clean |-> lan[d].clean]}
    /\ lan' = [lan EXCEPT ![d] = Idle]
    /\ UNCHANGED <<clock, replicas, job, d1, cloud, budget, history>>

\* /push-to: the snapshot is pushed without a fetch before it.
PushTo(d, p) ==
    /\ p # d
    /\ Spend("cycles", MaxCycles)
    /\ LockFree(d)
    /\ \A m \in net : m.from # d
    /\ net' = net \cup {[phase |-> "sent", from |-> d, to |-> p,
                         snap |-> Snapshot(d), clean |-> FALSE]}
    /\ UNCHANGED <<clock, replicas, lan, job, d1, cloud, history>>

\* /push; a relayed snapshot that is handed to /apply is merged the same way.
ReceivePush(d) ==
    \E m \in net :
        /\ m.to = d
        /\ LockFree(d)
        /\ StartMerge(d, m.snap, m.from, m.clean)
        /\ net' = net \ {m}
        /\ UNCHANGED <<clock, replicas, lan, d1, cloud, budget, history>>

\* A request fails: of the fetch nothing is left, the push may be lost.
LanFails(d) ==
    /\ Spend("losses", MaxLosses)
    /\ \/ /\ lan[d].phase \in {"apply", "push"}
          /\ lan' = [lan EXCEPT ![d] = Idle]
          /\ UNCHANGED net
       \/ /\ \E m \in net : m.from = d /\ net' = net \ {m}
          /\ UNCHANGED lan
    /\ UNCHANGED <<clock, replicas, job, d1, cloud, history>>

\* The process dies in a merge: before the todos, or after the notes were
\* committed and before what they replaced was put into the trash, which is
\* another database.
Crash(d) ==
    LET j == job[d]
        new == ImportInbox(notesDb[d], j.index, j.snap.notes)
    IN  /\ Spend("losses", MaxLosses)
        /\ \/ /\ j.phase = "todos"
              /\ UNCHANGED <<notesDb, gone, doubled>>
           \/ /\ j.phase = "notes"
              /\ notesDb' = [notesDb EXCEPT ![d] = new]
              /\ gone' = gone \cup Overrun(notesDb[d].notes, new.notes, j.index) \cup
                     {Revision(e.row) :
                          e \in Archived(j.index, j.snap.notes.notes)}
              /\ doubled' = doubled \cup Doubled(notesDb[d].notes, j.index,
                                                 j.snap.notes.notes)
        /\ lan' = [SoiledAll(lan) EXCEPT ![d] = Idle]
        /\ net' = {Soiled(m) : m \in net}
        /\ job' = [SoiledAll(job) EXCEPT ![d] = Idle]
        /\ d1' = [SoiledAll(d1) EXCEPT ![d] = Idle]
        /\ UNCHANGED <<clock, todoDb, trash, cloud, written, used>>

(***************************************************************************)
(* A cloud cycle: push the rows since the checkpoint, pull the rows since  *)
(* the checkpoint, move the checkpoint to now; notes first, then todos.    *)
(***************************************************************************)
RowsOf(d, table) == IF table = "notes" THEN notesDb[d].notes ELSE todoDb[d].todos

Since(rows, since) ==
    Subsequence(rows, {i \in DOMAIN rows :
                          since = None \/ TextLess(since, rows[i].updated)})

\* Mutant: an empty table is not noticed.
ShouldFullPullYounger(rows, checkpoint) ==
    /\ checkpoint # None
    /\ rows # <<>>
    /\ \A i \in DOMAIN rows : TextLess(checkpoint, rows[i].created)

\* A local table that is empty, or younger than the checkpoint, was reset.
ShouldFullPull(rows, checkpoint) ==
    \/ rows = <<>>
    \/ checkpoint # None /\ \A i \in DOMAIN rows : TextLess(checkpoint, rows[i].created)

BeginTable(d, table, whole, locked, seen, clean) ==
    LET rows == RowsOf(d, table)
        since == IF whole \/ ShouldFullPull(rows, seen[d, table]) THEN None
                 ELSE seen[d, table]
    IN  [phase |-> "push", table |-> table, whole |-> whole, locked |-> locked,
         since |-> since, rows |-> Since(rows, since), index |-> <<>>,
         bare |-> rows = <<>>, clean |-> clean]

\* DELETE FROM sync_state WHERE device_id = ...
Forgotten(seen, d) == [s \in DOMAIN seen |-> IF s[1] = d THEN None ELSE seen[s]]

\* The user's cycle, which may be a full one, takes the lock; the background
\* thread's does not.  One at a time on a device is a bound of the model.  The
\* full sync first deletes the device's checkpoints.
CloudStart(d, whole, locked) ==
    /\ Spend("cycles", MaxCycles)
    /\ d1[d] = Idle
    /\ locked => LockFree(d)
    /\ LET seen == IF whole THEN Forgotten(cloud.seen, d) ELSE cloud.seen
       IN  /\ cloud' = [cloud EXCEPT !.seen = seen]
           /\ d1' = [d1 EXCEPT ![d] = BeginTable(d, "notes", whole, locked, seen, TRUE)]
    /\ UNCHANGED <<clock, replicas, lan, net, job, history>>

D1SyncNow(d) == CloudStart(d, FALSE, TRUE)
D1FullSync(d) == CloudStart(d, TRUE, TRUE)
BackgroundSync(d) == CloudStart(d, FALSE, FALSE)

\* The user resets the checkpoints of the device, without a cycle.
ClearCheckpoint(d) ==
    /\ Spend("resets", MaxResets)
    /\ LockFree(d)
    /\ cloud' = [cloud EXCEPT !.seen = Forgotten(@, d)]
    /\ d1' = SoiledAll(d1)
    /\ UNCHANGED <<clock, replicas, lan, net, job, history>>

\* ON CONFLICT DO UPDATE ... WHERE the texts say the row is newer.
Upsert(rows, row) ==
    LET newer(old) == \/ TextLess(old.updated, row.updated)
                      \/ old.updated = row.updated /\ Rank[row.dev] > Rank[old.dev]
    IN  IF ~Known(rows, row) THEN Append(rows, row)
        ELSE [i \in DOMAIN rows |->
                 IF rows[i].uuid = row.uuid /\ newer(rows[i]) THEN row ELSE rows[i]]

CloudPush(d) ==
    /\ d1[d].phase = "push"
    /\ d1[d].rows # <<>>
    /\ cloud' = [cloud EXCEPT ![d1[d].table] = Upsert(@, Head(d1[d].rows))]
    /\ d1' = [e \in Device |-> IF e = d THEN [d1[d] EXCEPT !.rows = Tail(@)]
                               ELSE IF cloud' # cloud THEN Soiled(d1[e]) ELSE d1[e]]
    /\ UNCHANGED <<clock, replicas, lan, net, job, budget, history>>

CloudPull(d) ==
    /\ d1[d].phase = "push"
    /\ d1[d].rows = <<>>
    /\ d1' = [d1 EXCEPT ![d].phase = "merge",
                        ![d].rows = Since(cloud[d1[d].table], d1[d].since),
                        ![d].index = RowsOf(d, d1[d].table)]
    /\ UNCHANGED <<clock, replicas, lan, net, job, cloud, budget, history>>

\* The rows are merged like a snapshot, but what the merge archives is only
\* counted: nobody writes it to the trash.
CloudMerge(d) ==
    LET c == d1[d]
        notes == Merged(notesDb[d].notes, c.index, c.rows)
        todos == Merged(todoDb[d].todos, c.index, c.rows)
    IN  /\ c.phase = "merge"
        /\ \/ /\ c.table = "notes"
              /\ notesDb' = [notesDb EXCEPT ![d].notes = notes]
              /\ gone' = gone \cup Overrun(notesDb[d].notes, notes, c.index) \cup
                     {Revision(a.row) : a \in Archived(c.index, c.rows)}
              /\ doubled' = doubled \cup Doubled(notesDb[d].notes, c.index, c.rows)
              /\ UNCHANGED todoDb
           \/ /\ c.table = "todos"
              /\ todoDb' = [todoDb EXCEPT ![d].todos = todos]
              /\ doubled' = doubled \cup Doubled(todoDb[d].todos, c.index, c.rows)
              /\ UNCHANGED <<notesDb, gone>>
        /\ lan' = SoiledAll(lan)
        /\ net' = {Soiled(m) : m \in net}
        /\ job' = SoiledAll(job)
        /\ d1' = [d1 EXCEPT ![d] = [@ EXCEPT !.phase = "mark", !.rows = <<>>,
                                            !.index = <<>>]]
        /\ UNCHANGED <<clock, trash, cloud, budget, written, used>>

\* The checkpoint is the time the cycle of the table ended.
CloudMark(d) ==
    LET c == d1[d]
    IN  /\ c.phase = "mark"
        /\ cloud' = [cloud EXCEPT !.seen = [@ EXCEPT ![<<d, c.table>>] = Iso(clock)]]
        /\ d1' = [d1 EXCEPT ![d] =
                      IF c.table = "notes"
                      THEN BeginTable(d, "todos", c.whole, c.locked, cloud.seen,
                                      c.clean)
                      ELSE Idle]
        /\ UNCHANGED <<clock, replicas, lan, net, job, budget, history>>

\* Any failing request ends the cycle where it is.
CloudFails(d) ==
    /\ d1[d] # Idle
    /\ Spend("losses", MaxLosses)
    /\ d1' = [d1 EXCEPT ![d] = Idle]
    /\ UNCHANGED <<clock, replicas, lan, net, job, cloud, history>>

LanStep(d) ==
    \/ MergeNotes(d) \/ MergeTodos(d)
    \/ ApplyFetched(d) \/ PushSnapshot(d) \/ ReceivePush(d)

CloudStep(d) == CloudPush(d) \/ CloudPull(d) \/ CloudMerge(d) \/ CloudMark(d)

Next ==
    \E d \in Device :
        \/ WriteNote(d) \/ WriteTodo(d)
        \/ RestoreTrash(d) \/ DeleteTrash(d) \/ Reset(d) \/ ClearCheckpoint(d)
        \/ \E p \in Device : FetchSnapshot(d, p) \/ PushTo(d, p)
        \/ LanStep(d) \/ LanFails(d) \/ Crash(d)
        \/ D1SyncNow(d) \/ D1FullSync(d) \/ BackgroundSync(d)
        \/ CloudStep(d) \/ CloudFails(d)

Spec == Init /\ [][Next]_vars

(***************************************************************************)
(* Properties.                                                             *)
(***************************************************************************)
Stamp == [ms : 0..MaxClock, iso : BOOLEAN]

RowsOK(rows, excused) ==
    /\ \A i \in DOMAIN rows : rows[i].updated \in Stamp /\ rows[i].uuid \in Uuid
    /\ \A i, k \in DOMAIN rows :
          rows[i].uuid = rows[k].uuid => i = k \/ rows[i].uuid \in excused

\* Every replica and the cloud hold rows, at most one per uuid, and an exchange
\* is in one of its phases.  The uuid column of a device's table is not UNIQUE:
\* the merges have to see to it, and two of them that overlap do not, which is
\* what "doubled" excuses.
SyncTypeOK ==
    /\ clock \in 0..MaxClock
    /\ \A d \in Device :
          /\ lan[d].phase \in {"idle", "apply", "merge", "push"}
          /\ job[d].phase \in {"idle", "notes", "todos"}
          /\ d1[d].phase \in {"idle", "push", "merge", "mark"}
          /\ \A e \in trash[d] : e.restored \in BOOLEAN
          /\ RowsOK(notesDb[d].notes, doubled)
          /\ RowsOK(todoDb[d].todos, doubled)
    /\ RowsOK(cloud.notes, {})
    /\ RowsOK(cloud.todos, {})

Kept(u, c) ==
    \E d \in Device :
        \/ \E i \in WithUuid(notesDb[d].notes, u) :
              \/ notesDb[d].notes[i].content = c
              \/ \E h \in notesDb[d].history : h.note = i /\ h.content = c
        \/ \E e \in trash[d] : "content" \in DOMAIN e.row /\ e.row.uuid = u
                                                          /\ e.row.content = c

\* No merge loses what a user wrote: every content a note has ever had is its
\* content somewhere, or in its history, or in a trash, except what "gone"
\* lists: the overwriting of a row edited after the index was read or of the
\* second row of a uuid, the losers of a merge with the cloud, a crash before
\* the trash is written, a reset.
NoEditLost ==
    \A r \in written : \/ Kept(r.uuid, r.content)
                       \/ \E g \in gone : g.uuid = r.uuid /\ g.content = r.content

Newest(u) ==
    CHOOSE r \in written :
        /\ r.uuid = u
        /\ \A s \in written : s.uuid = u =>
              \/ s.ms < r.ms
              \/ s.ms = r.ms /\ Rank[s.dev] <= Rank[r.dev]

\* Last writer wins: whatever snapshots arrive late, twice or over each other,
\* the newest revision of a note is the current row of some replica, unless it
\* is one of those in "gone".
NewestSurvives ==
    \A u \in {r.uuid : r \in written} :
        \/ Newest(u) \in gone
        \/ \E d \in Device : Newest(u) \in Revisions(notesDb[d].notes)

\* Both hold a row of the uuid, and the two rows are told apart by nothing.
Agree(mine, theirs, u, Alike(_, _)) ==
    WithUuid(mine, u) \cup WithUuid(theirs, u) # {} =>
        /\ WithUuid(mine, u) # {}
        /\ WithUuid(theirs, u) # {}
        /\ \A i \in WithUuid(mine, u), k \in WithUuid(theirs, u) :
              Alike(mine[i], theirs[k])

NotesAlike(x, y) == SameNote(x, y) \/ Tied(x, y)
TodosAlike(x, y) == SameTodo(x, y) \/ Tied(x, y)

\* The peer has merged what the cycle's device pushed.
PushMerged(d) == MergeTodos(d) /\ job[d].of \in Device

\* A LAN cycle that nothing interferes with leaves the two replicas with the
\* same notes and todos, deletions included, except for rows of one time and
\* one device, which neither side takes from the other, and for doubled rows.
CleanCycleAgrees ==
    [][\A d \in Device :
          PushMerged(d) /\ job[d].clean =>
              LET p == job[d].of
              IN  \A u \in Uuid \ doubled :
                     /\ Agree(notesDb'[d].notes, notesDb'[p].notes, u, NotesAlike)
                     /\ Agree(todoDb'[d].todos, todoDb'[p].todos, u, TodosAlike)
      ]_vars

\* What serialize.rs promises of a todo's deletion: a cycle that nothing
\* interferes with carries it to the other replica.
TodoDeletionTravels ==
    [][\A d \in Device :
          PushMerged(d) /\ job[d].clean =>
              LET p == job[d].of
              IN  \A i \in TodoIds(todoDb'[d]), k \in TodoIds(todoDb'[p]) :
                     todoDb'[d].todos[i].uuid = todoDb'[p].todos[k].uuid =>
                         todoDb'[d].todos[i].deleted = todoDb'[p].todos[k].deleted
      ]_vars

\* The cloud orders rows by their texts, the device by their times: the two
\* only agree between texts of one form.
CloudNotesAlike(x, y) == NotesAlike(x, y) \/ x.updated.iso # y.updated.iso
CloudTodosAlike(x, y) == TodosAlike(x, y) \/ x.updated.iso # y.updated.iso

\* A full cloud cycle that nothing interferes with leaves the device and the
\* cloud with the same rows: one that was asked for, and the one that a device
\* whose table is empty has to make although the cloud holds a checkpoint.
CleanFullSyncAgrees ==
    [][\A d \in Device :
          LET c == d1[d]
          IN  CloudMark(d) /\ c.clean /\ (c.whole \/ c.bare)
              => \A u \in Uuid \ doubled :
                    IF c.table = "notes"
                    THEN Agree(notesDb'[d].notes, cloud'.notes, u, CloudNotesAlike)
                    ELSE Agree(todoDb'[d].todos, cloud'.todos, u, CloudTodosAlike)
      ]_vars
=============================================================================
