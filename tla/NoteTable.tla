----------------------------- MODULE NoteTable -----------------------------
(* The notes database of aw-inbox-rust (src/aw-inbox-rust/src/db.rs) as a
   value, and its operations as functions from a database to a database.  Each
   runs in one SQLite transaction behind the mutex of its connection, so each
   is one step of the modules that use them (Inbox, Sync).

   A database is a record of
     notes      the rows; AUTOINCREMENT never reuses an id, so the id of a row
                is its position;
     history    the snapshots of note_history;
     relations  the rows of note_relations: [source, target, kind];
     version    sync_versions.global_version.
   Contents and device ids are model values, a tag is the sequence of its
   segments ("a/b" is <<"a", "b">>), a time is a number. *)
EXTENDS SqlNull, Naturals, Sequences, FiniteSets, SequencesExt

EmptyNotes == [notes |-> <<>>, history |-> {}, relations |-> {}, version |-> 0]

NoteIds(db) == DOMAIN db.notes

LiveNotes(db) == {i \in NoteIds(db) : ~db.notes[i].deleted}

\* Mutant: the counter is read without being incremented.
BumpForgets(db) == db

\* Every writing transaction starts by taking the next global version.
BumpNotes(db) == [db EXCEPT !.version = @ + 1]

CreateNote(db, uuid, content, tags, dev, at) ==
    [BumpNotes(db) EXCEPT !.notes = Append(@,
        [uuid |-> uuid, content |-> content, tags |-> tags, created |-> at,
         updated |-> at, version |-> db.version + 1, dev |-> dev,
         deleted |-> FALSE])]

\* Mutant: the snapshot skips deleted rows, which can be updated all the same.
HistoryOfLive(db, id) ==
    {[note |-> i, content |-> db.notes[i].content, tags |-> db.notes[i].tags,
      version |-> db.notes[i].version] : i \in {id} \cap LiveNotes(db)}

\* INSERT INTO note_history SELECT ... FROM notes WHERE id = ?
HistoryRow(db, id) ==
    {[note |-> i, content |-> db.notes[i].content, tags |-> db.notes[i].tags,
      version |-> db.notes[i].version] : i \in {id} \cap NoteIds(db)}

\* The history row is written before the row it preserves is overwritten.
UpdateNote(db, id, content, tags, dev, now) ==
    [BumpNotes(db) EXCEPT
        !.history = @ \cup HistoryRow(db, id),
        !.notes = [i \in DOMAIN @ |->
            IF i # id THEN @[i]
            ELSE [@[i] EXCEPT !.content = content, !.tags = tags,
                              !.updated = now, !.version = db.version + 1,
                              !.dev = dev]]]

\* DELETE and restore overwrite a row only when its deleted flag differs; the
\* snapshot and the version are taken in any case.
SetDeleted(db, id, flag, dev, now) ==
    [BumpNotes(db) EXCEPT !.notes = [i \in DOMAIN @ |->
        IF i # id \/ @[i].deleted = flag THEN @[i]
        ELSE [@[i] EXCEPT !.deleted = flag, !.updated = now,
                          !.version = db.version + 1, !.dev = dev]]]

DeleteNote(db, id, dev, now) ==
    [SetDeleted(db, id, TRUE, dev, now) EXCEPT
        !.history = @ \cup HistoryRow(db, id)]

\* Mutant: the restored row keeps the version of its deletion.
RestoreKeepsVersion(db, id, dev, now) ==
    [BumpNotes(db) EXCEPT !.notes = [i \in DOMAIN @ |->
        IF i # id THEN @[i] ELSE [@[i] EXCEPT !.deleted = FALSE, !.updated = now]]]

RestoreNote(db, id, dev, now) == SetDeleted(db, id, FALSE, dev, now)

\* Both ends must exist, deleted or not.
AddRelation(db, source, target, kind) ==
    IF {source, target} \subseteq NoteIds(db)
    THEN [db EXCEPT !.relations =
             @ \cup {[source |-> source, target |-> target, kind |-> kind]}]
    ELSE db

\* A comment is a note without a device and a relation to its target, written
\* in one transaction.
AddComment(db, uuid, target, content, tags, now) ==
    IF target \in NoteIds(db)
    THEN LET made == CreateNote(db, uuid, content, tags, None, now)
         IN  AddRelation(made, Len(made.notes), target, "Comment")
    ELSE db

(***************************************************************************)
(* Reads.                                                                  *)
(***************************************************************************)
\* A query for a tag finds it and everything below it, at segment boundaries.
HasTag(note, tag) == \E t \in note.tags : IsPrefix(tag, t)

NotesQuery(db, tag, excluded) ==
    {i \in LiveNotes(db) : /\ tag = None \/ HasTag(db.notes[i], tag)
                           /\ \A x \in excluded : ~HasTag(db.notes[i], x)}

\* Mutant: deleted notes count as well.
ExactCountAll(db, tag) == Cardinality({i \in NoteIds(db) : tag \in db.notes[i].tags})

\* How many live notes carry exactly this tag.
ExactCount(db, tag) == Cardinality({i \in LiveNotes(db) : tag \in db.notes[i].tags})

UsedTags(db) == UNION {db.notes[i].tags : i \in LiveNotes(db)}

\* The flat list of tags looks at the deleted notes as well.
AllTags(db) == UNION {db.notes[i].tags : i \in NoteIds(db)}

\* The nodes of the tag tree: every non-empty prefix of a tag in use, counted
\* by adding up the tags below it.
TagPaths(db) == {p \in UNION {Prefixes(t) : t \in UsedTags(db)} : p # <<>>}

TagCount(db, path) ==
    FoldFunction(+, 0, [t \in {u \in UsedTags(db) : IsPrefix(path, u)} |->
                            ExactCount(db, t)])

(***************************************************************************)
(* Batch instructions: each one looks its note up by uuid or id, reads it  *)
(* and calls the operations above; one that fails leaves the others alone. *)
(***************************************************************************)
\* The uuid, when given, decides alone; None when there is no such row.
NoteRef(db, id, uuid) ==
    LET found == IF uuid # None THEN {i \in NoteIds(db) : db.notes[i].uuid = uuid}
                                ELSE {id} \cap NoteIds(db)
    IN  IF found = {} THEN None ELSE CHOOSE i \in found : TRUE

MergeTags(base, add) == base \cup add
SubtractTags(base, remove) == base \ remove

BatchUpdateNote(db, id, content, tags, dev, now) ==
    UpdateNote(db, id,
               IF content = None THEN db.notes[id].content ELSE content,
               IF tags = None THEN db.notes[id].tags ELSE tags, dev, now)

BatchNoteTags(db, id, action, tags, dev, now) ==
    UpdateNote(db, id, db.notes[id].content,
               CASE action = "add_tags"    -> MergeTags(db.notes[id].tags, tags)
                 [] action = "remove_tags" -> SubtractTags(db.notes[id].tags, tags)
                 [] action = "set_tags"    -> tags,
               dev, now)
=============================================================================
