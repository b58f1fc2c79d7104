------------------------------- MODULE Inbox -------------------------------
(* One device's notes and todos (src/aw-inbox-rust): every route of lib.rs
   that writes, over the two databases of NoteTable and TodoTable.  A handler
   runs in spawn_blocking and holds the mutex of its connection from its first
   read to its last write, and so does a whole batch request, whose
   instructions neither see nor undo each other's failures: one instruction is
   one action here.

   A write is stamped with the version it takes, which stands for its time. *)
EXTENDS NoteTable, TodoTable

CONSTANTS
    Content,          \* what a note can say
    TagSet,           \* the tag sets a note can be given
    Text,             \* the model values of a todo's text
    Due,              \* due dates
    ListName,         \* names of lists
    Device,           \* values of the device header, None without it
    MaxNotes, MaxNoteVersion, MaxRelations,
    MaxTodos, MaxTodoVersion, MaxLists, MaxSubtasks,
    MaxWrites         \* bounds

ASSUME InboxAssumption ==
    /\ {MaxNoteVersion, MaxTodoVersion} \subseteq Nat
    /\ \A ts \in TagSet : /\ IsFiniteSet(ts)
                          /\ \A t \in ts : t \in Seq(Range(t)) /\ None \notin Prefixes(t)

VARIABLES
    notesDb,          \* inbox.db
    todoDb,           \* todo.db
    written           \* history variable: every <<uuid, content, tags>> stored

vars == <<notesDb, todoDb, written>>

NoteArg == 1..MaxNotes
TodoArg == 1..MaxTodos
ListArg == {Inbox0} \cup 1..MaxLists

Stored(db) == {<<db.notes[i].uuid, db.notes[i].content, db.notes[i].tags>> :
                   i \in NoteIds(db)}

Writes == notesDb.version + Cardinality(notesDb.relations)
          + todoDb.version + todoDb.nextList

CommitNotes(db) ==
    /\ notesDb.version < MaxNoteVersion
    /\ Writes < MaxWrites
    /\ Len(db.notes) <= MaxNotes
    /\ Cardinality(db.relations) <= MaxRelations
    /\ notesDb' = db
    /\ written' = written \cup Stored(db)
    /\ UNCHANGED todoDb

CommitTodos(db) ==
    /\ todoDb.version < MaxTodoVersion
    /\ Writes < MaxWrites
    /\ Len(db.todos) <= MaxTodos
    /\ db.nextList <= MaxLists + 1
    /\ \A i \in TodoIds(db) : Len(db.todos[i].subtasks) <= MaxSubtasks
    /\ todoDb' = db
    /\ UNCHANGED <<notesDb, written>>

NoteNow == notesDb.version + 1
TodoNow == todoDb.version + 1
NewNote == Len(notesDb.notes) + 1        \* a uuid nobody else has
NewTodo == Len(todoDb.todos) + 1

Init ==
    /\ notesDb = EmptyNotes
    /\ todoDb = EmptyTodos
    /\ written = {}

(***************************************************************************)
(* Notes.                                                                  *)
(***************************************************************************)
CreateNoteRoute ==
    \E c \in Content, ts \in TagSet, d \in Device :
        CommitNotes(CreateNote(notesDb, NewNote, c, ts, d, NoteNow))

UpdateNoteRoute ==
    \E i \in NoteArg, c \in Content, ts \in TagSet, d \in Device :
        CommitNotes(UpdateNote(notesDb, i, c, ts, d, NoteNow))

DeleteNoteRoute ==
    \E i \in NoteArg, d \in Device : CommitNotes(DeleteNote(notesDb, i, d, NoteNow))

RestoreNoteRoute ==
    \E i \in NoteArg, d \in Device : CommitNotes(RestoreNote(notesDb, i, d, NoteNow))

CreateRelationRoute ==
    \E i, j \in NoteArg, kind \in {"Comment", "Reference"} :
        CommitNotes(AddRelation(notesDb, i, j, kind))

AddCommentRoute ==
    \E i \in NoteArg, c \in Content :
        CommitNotes(AddComment(notesDb, NewNote, i, c, {}, NoteNow))

\* The instructions that need the row first look it up, by uuid or by id.
BatchNoteRoute ==
    \E i \in NoteArg, u \in NoteArg \cup {None}, d \in Device :
        LET id == NoteRef(notesDb, i, u)
        IN  /\ id # None
            /\ \/ \E c \in Content \cup {None}, ts \in TagSet \cup {None} :
                      CommitNotes(BatchUpdateNote(notesDb, id, c, ts, d, NoteNow))
               \/ \E action \in {"add_tags", "remove_tags", "set_tags"}, ts \in TagSet :
                      CommitNotes(BatchNoteTags(notesDb, id, action, ts, d, NoteNow))

(***************************************************************************)
(* Todos and lists.  A request names lists that exist or the inbox.        *)
(***************************************************************************)
Lists == DOMAIN todoDb.lists \cup {Inbox0}

CreateTodoRoute ==
    \E x \in Text, due \in Due \cup {None}, l \in Lists, d \in Device :
        CommitTodos(CreateTodo(todoDb, NewTodo, x, due, <<>>, l, d, TodoNow))

UpdateTodoRoute ==
    \E i \in TodoArg, x \in Text \cup {None}, l \in Lists \cup {None},
       c \in BOOLEAN \cup {None} :
        CommitTodos(UpdateTodo(todoDb, i,
            [NoChange EXCEPT !.text = x, !.list = l, !.completed = c], TodoNow))

DeleteTodoRoute == \E i \in TodoArg : CommitTodos(DeleteTodo(todoDb, i))

RestoreTodoRoute == \E i \in TodoArg : CommitTodos(RestoreTodo(todoDb, i, TodoNow))

CreateListRoute == \E n \in ListName : CommitTodos(CreateList(todoDb, n))

UpdateListRoute ==
    \E l \in ListArg, n \in ListName : CommitTodos(UpdateList(todoDb, l, n))

DeleteListRoute == \E l \in ListArg : CommitTodos(DeleteList(todoDb, l))

BatchTodoRoute ==
    \E i \in TodoArg, u \in TodoArg \cup {None} :
        LET id == TodoRef(todoDb, i, u)
        IN  /\ id # None
            /\ \/ \E due \in Due \cup {None} :
                      CommitTodos(SetTodoDue(todoDb, id, due, TodoNow))
               \/ CommitTodos(BatchAddSubtask(todoDb, id, TodoNow))
               \/ \E s \in 1..MaxSubtasks :
                      CommitTodos(BatchRemoveSubtask(todoDb, id, s, TodoNow))
               \/ \E s \in 1..MaxSubtasks, done \in BOOLEAN :
                      CommitTodos(BatchSetSubtask(todoDb, id, s, done, TodoNow))
               \/ \E l \in Lists \cup {None}, n \in ListName \cup {None, "inbox"} :
                      CommitTodos(BatchMove(todoDb, id, l, n, TodoNow))

Next ==
    \/ CreateNoteRoute \/ UpdateNoteRoute \/ DeleteNoteRoute \/ RestoreNoteRoute
    \/ CreateRelationRoute \/ AddCommentRoute \/ BatchNoteRoute
    \/ CreateTodoRoute \/ UpdateTodoRoute \/ DeleteTodoRoute \/ RestoreTodoRoute
    \/ CreateListRoute \/ UpdateListRoute \/ DeleteListRoute \/ BatchTodoRoute

Spec == Init /\ [][Next]_vars

(***************************************************************************)
(* Properties.                                                             *)
(***************************************************************************)
\* The two databases are well formed, and no row carries a version that was
\* never handed out.
NoteType ==
    [uuid : Nat, content : Content, tags : SUBSET UNION TagSet, created : Nat,
     updated : Nat, version : 1..notesDb.version, dev : Device \cup {None}, deleted : BOOLEAN]

InboxTypeOK ==
    /\ notesDb.version \in 0..MaxNoteVersion
    /\ \A i \in NoteIds(notesDb) : notesDb.notes[i] \in NoteType
    /\ \A r \in notesDb.relations : {r.source, r.target} \subseteq NoteIds(notesDb)
    /\ todoDb.version \in 0..MaxTodoVersion
    /\ \A i \in TodoIds(todoDb) :
           /\ todoDb.todos[i].text \in Text
           /\ todoDb.todos[i].completedAt \in Nat \cup {None}

\* Nothing a client ever stored in a note is lost by the routes: it is the
\* note's content or a snapshot in its history, whatever sequence of updates,
\* deletions, restores and batch instructions followed.
NoContentLost ==
    \A w \in written :
        \/ w \in Stored(notesDb)
        \/ \E h \in notesDb.history :
               <<notesDb.notes[h.note].uuid, h.content, h.tags>> = w

\* A version names one state of one note: no two rows or snapshots that differ
\* share it, so a reader who kept a version can tell what it was.
VersionsNameOneRevision ==
    LET current == {[note |-> i, content |-> notesDb.notes[i].content,
                     tags |-> notesDb.notes[i].tags,
                     version |-> notesDb.notes[i].version] : i \in NoteIds(notesDb)}
        all == current \cup notesDb.history
    IN  \A r, s \in all : r.version = s.version => r = s

\* A todo that carries a completion time is completed and the other way round,
\* through updates, deletions and restores.
CompletedHasTime ==
    \A i \in TodoIds(todoDb) :
        todoDb.todos[i].completed <=> todoDb.todos[i].completedAt # None

\* Subtask ids stay unique when subtasks are removed and added again: the
\* instructions address a subtask by its id alone.
SubtaskIdsUnique ==
    \A i \in TodoIds(todoDb) :
        LET subs == todoDb.todos[i].subtasks
        IN  \A j, k \in DOMAIN subs : subs[j].id = subs[k].id => j = k

\* As long as requests name lists that exist, no todo, deleted or restored,
\* ever points to a list that does not.
ListRefsResolve ==
    \A i \in TodoIds(todoDb) :
        todoDb.todos[i].list \in DOMAIN todoDb.lists \cup {Inbox0}

\* The tag tree counts a path's notes as the query for that tag finds them,
\* unless a note carries two tags below the path: the tree adds tags up and
\* counts that note once for each, the query finds it once.  The flat list of
\* tags, which takes deleted notes too, lacks none of the tree.
TagTreeAgreesWithQuery ==
    \A p \in (UNION {Prefixes(t) : t \in UNION TagSet}) \ {<<>>} :
        LET found == NotesQuery(notesDb, p, {})
            below(i) == {t \in notesDb.notes[i].tags : IsPrefix(p, t)}
        IN  /\ p \in TagPaths(notesDb) <=> found # {}
            /\ TagCount(notesDb, p) >= Cardinality(found)
            /\ found # {} => \E t \in AllTags(notesDb) : IsPrefix(p, t)
            /\ (\A i \in found : Cardinality(below(i)) = 1)
                   => TagCount(notesDb, p) = Cardinality(found)

\* Whatever changes a row gives it a version above every version handed out
\* before; only the deletion of a list moves todos silently.
ChangesTakeNewVersion ==
    [][/\ \A i \in NoteIds(notesDb') :
              (i \in NoteIds(notesDb) => notesDb'.notes[i] # notesDb.notes[i])
                  => notesDb'.notes[i].version > notesDb.version
       /\ \A i \in TodoIds(todoDb') :
              (i \in TodoIds(todoDb) => todoDb'.todos[i] # todoDb.todos[i])
                  => \/ todoDb'.todos[i].version > todoDb.version
                     \/ todoDb'.todos[i] = [todoDb.todos[i] EXCEPT !.list = Inbox0]
      ]_vars
=============================================================================
