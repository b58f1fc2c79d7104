----------------------------- MODULE TodoTable -----------------------------
(* The todo database of aw-inbox-rust (src/aw-inbox-rust/src/db.rs), a file of
   its own with its own version counter, as a value, and its operations as
   functions from a database to a database; each is one transaction.

   A database is a record of
     todos    the rows, the id of a row being its position;
     lists    the rows of todo_lists, by id: a function to names;
     nextList the AUTOINCREMENT counter of todo_lists;
     version  sync_versions.global_version.
   Title, notes and tags are one model value, "text", and the due date and the
   priority are one, "due": they are only ever overwritten.  The other fields
   have rules of their own. *)
EXTENDS SqlNull, Subsequences, FiniteSetsExt, Functions

EmptyTodos ==
    [todos |-> <<>>, lists |-> <<>>, nextList |-> 1, version |-> 0]

TodoIds(db) == DOMAIN db.todos

Inbox0 == 0                   \* list_id 0: the inbox, which is no row

BumpTodos(db) == [db EXCEPT !.version = @ + 1]

\* list_id is stored as it is given: nothing checks that the list exists.
CreateTodo(db, uuid, text, due, subtasks, list, dev, at) ==
    [BumpTodos(db) EXCEPT !.todos = Append(@,
        [uuid |-> uuid, text |-> text, due |-> due, subtasks |-> subtasks,
         list |-> list, completed |-> FALSE, completedAt |-> None,
         created |-> at, updated |-> at, version |-> db.version + 1, dev |-> dev,
         deleted |-> FALSE])]

SetTodo(db, id, row) ==
    [BumpTodos(db) EXCEPT
        !.todos = [i \in DOMAIN @ |->
                       IF i = id THEN [row EXCEPT !.version = db.version + 1]
                                 ELSE @[i]]]

Or(new, old) == IF new = None THEN old ELSE new

\* Mutant: reopening a todo leaves its completion time.
UpdateKeepsTime(db, id, p, now) ==
    IF id \notin TodoIds(db) THEN db
    ELSE LET old == db.todos[id]
             completed == Or(p.completed, old.completed)
         IN  SetTodo(db, id,
                 [old EXCEPT !.completed = completed, !.updated = now,
                             !.completedAt = IF completed THEN now ELSE @])

\* The payload p holds None in the fields it leaves alone.  A missing row is
\* an error before the version is taken; a deleted row is updated like any.
UpdateTodo(db, id, p, now) ==
    IF id \notin TodoIds(db) THEN db
    ELSE LET old == db.todos[id]
             completed == Or(p.completed, old.completed)
         IN  SetTodo(db, id,
                 [old EXCEPT
                     !.text = Or(p.text, @), !.due = Or(p.due, @),
                     !.subtasks = Or(p.subtasks, @), !.list = Or(p.list, @),
                     !.completed = completed,
                     !.completedAt = IF completed = old.completed THEN @
                                     ELSE IF completed THEN now ELSE None,
                     !.updated = now])

NoChange == [text |-> None, due |-> None, subtasks |-> None, list |-> None,
             completed |-> None]

\* The deletion takes a version but leaves updated_at as it was.
DeleteTodo(db, id) ==
    IF id \in TodoIds(db)
    THEN SetTodo(db, id, [db.todos[id] EXCEPT !.deleted = TRUE])
    ELSE BumpTodos(db)

RestoreTodo(db, id, now) ==
    IF id \in TodoIds(db) /\ db.todos[id].deleted
    THEN SetTodo(db, id, [db.todos[id] EXCEPT !.deleted = FALSE, !.updated = now])
    ELSE BumpTodos(db)

SetTodoDue(db, id, due, now) ==
    SetTodo(db, id, [db.todos[id] EXCEPT !.due = due, !.updated = now])

(***************************************************************************)
(* Lists.  None of these takes a version.                                  *)
(***************************************************************************)
CreateList(db, name) ==
    [db EXCEPT !.nextList = @ + 1,
               !.lists = [l \in DOMAIN @ \cup {db.nextList} |->
                              IF l = db.nextList THEN name ELSE @[l]]]

UpdateList(db, list, name) ==
    IF list \in DOMAIN db.lists THEN [db EXCEPT !.lists[list] = name] ELSE db

\* Mutant: the deleted todos of the list are left out.
DeleteListLive(db, list) ==
    [db EXCEPT !.todos = [i \in DOMAIN @ |->
                   IF @[i].list = list /\ ~@[i].deleted
                   THEN [@[i] EXCEPT !.list = Inbox0] ELSE @[i]],
               !.lists = Restrict(@, DOMAIN @ \ {list})]

\* Every todo of the list goes back to the inbox, the deleted ones as well.
DeleteList(db, list) ==
    [db EXCEPT !.todos = [i \in DOMAIN @ |-> IF @[i].list = list
                                             THEN [@[i] EXCEPT !.list = Inbox0]
                                             ELSE @[i]],
               !.lists = Restrict(@, DOMAIN @ \ {list})]

\* 0 for the inbox, None when no list has the name.
ListByName(db, name) ==
    LET found == {l \in DOMAIN db.lists : db.lists[l] = name}
    IN  IF name = "inbox" THEN Inbox0
        ELSE IF found = {} THEN None ELSE CHOOSE l \in found : TRUE

(***************************************************************************)
(* Batch instructions.                                                     *)
(***************************************************************************)
TodoRef(db, id, uuid) ==
    LET found == IF uuid # None THEN {i \in TodoIds(db) : db.todos[i].uuid = uuid}
                                ELSE {id} \cap TodoIds(db)
    IN  IF found = {} THEN None ELSE CHOOSE i \in found : TRUE

WithSubtasks(db, id, subtasks, now) ==
    UpdateTodo(db, id, [NoChange EXCEPT !.subtasks = subtasks], now)

\* Mutant: the new subtask is numbered by the length of the list.
AddSubtaskByLength(db, id, now) ==
    LET subs == db.todos[id].subtasks
    IN  WithSubtasks(db, id, Append(subs, [id |-> Len(subs) + 1, done |-> FALSE]), now)

\* The new subtask takes the largest id plus one.
BatchAddSubtask(db, id, now) ==
    LET subs == db.todos[id].subtasks
        next == Max({0} \cup {subs[k].id : k \in DOMAIN subs}) + 1
    IN  WithSubtasks(db, id, Append(subs, [id |-> next, done |-> FALSE]), now)

BatchRemoveSubtask(db, id, sub, now) ==
    LET subs == db.todos[id].subtasks
        others == {k \in DOMAIN subs : subs[k].id # sub}
    IN  WithSubtasks(db, id, Subsequence(subs, others), now)

\* Every subtask with the id is set; none is an error.
BatchSetSubtask(db, id, sub, done, now) ==
    LET subs == db.todos[id].subtasks
    IN  IF \E k \in DOMAIN subs : subs[k].id = sub
        THEN WithSubtasks(db, id, [k \in DOMAIN subs |->
                 IF subs[k].id = sub THEN [subs[k] EXCEPT !.done = done]
                                     ELSE subs[k]], now)
        ELSE db

\* A list id is taken as it is, a name has to be found.
BatchMove(db, id, list, name, now) ==
    LET to == IF list # None THEN list
              ELSE IF name # None THEN ListByName(db, name) ELSE None
    IN  IF to = None THEN db
        ELSE UpdateTodo(db, id, [NoChange EXCEPT !.list = to], now)
=============================================================================
