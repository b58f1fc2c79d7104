---------------------------- MODULE InboxProofs ----------------------------
(***************************************************************************)
(* Theorems about Inbox, for any contents, tags, texts, lists and devices  *)
(* and any bounds.                                                         *)
(***************************************************************************)
EXTENDS Inbox, OrderLemmas

-----------------------------------------------------------------------------
(* The notes database, and what every operation on it does                 *)

AnyTags == {ts \in SUBSET UNION TagSet : IsFiniteSet(ts)}

AnyNote ==
    [uuid : Nat, content : Content, tags : AnyTags, created : Nat,
     updated : Nat, version : Nat, dev : Device \cup {None}, deleted : BOOLEAN]

AnySnapshot ==
    [note : Nat, content : Content, tags : AnyTags, version : Nat]

AnyRelation == [source : Nat, target : Nat, kind : {"Comment", "Reference"}]

NoteDb == [notes : Seq(AnyNote), history : SUBSET AnySnapshot,
           relations : SUBSET AnyRelation, version : Nat]

\* The state of a row that a snapshot of it preserves.
Current(db, i) ==
    [note |-> i, content |-> db.notes[i].content, tags |-> db.notes[i].tags,
     version |-> db.notes[i].version]

\* Versions never run ahead of the counter, snapshots and relations belong to
\* notes, and two states that differ have different versions.
NotesOK(db) ==
    /\ db \in NoteDb
    /\ \A i \in NoteIds(db) : db.notes[i].version \in 1..db.version
    /\ \A h \in db.history : h.note \in NoteIds(db) /\ h.version <= db.version
    /\ \A r \in db.relations : r.source \in NoteIds(db) /\ r.target \in NoteIds(db)
    /\ \A r, s \in {Current(db, i) : i \in NoteIds(db)} \cup db.history :
          r.version = s.version => r = s

\* At most one row changes, under a new version; what it said is still there
\* or in the history; the history grows by states the rows were in.
NoteStep(db, new) ==
    /\ new \in NoteDb
    /\ new.version \in {db.version, db.version + 1}
    /\ NoteIds(db) \subseteq NoteIds(new)
    /\ db.history \subseteq new.history
    /\ new.history \subseteq db.history \cup {Current(db, i) : i \in NoteIds(db)}
    /\ \A i \in NoteIds(db) :
          /\ new.notes[i].uuid = db.notes[i].uuid
          /\ \/ /\ new.notes[i].content = db.notes[i].content
                /\ new.notes[i].tags = db.notes[i].tags
             \/ Current(db, i) \in new.history
    /\ \A i \in NoteIds(new) :
          \/ i \in NoteIds(db) /\ new.notes[i] = db.notes[i]
          \/ new.notes[i].version = db.version + 1 /\ new.version = db.version + 1
    /\ \A i, j \in NoteIds(new) :
          new.notes[i].version = db.version + 1 /\ new.notes[j].version = db.version + 1
             => i = j
    /\ \A r \in new.relations : r.source \in NoteIds(new) /\ r.target \in NoteIds(new)

\* The rows an update and a change of the deleted flag leave.
UpdatedRow(old, content, tags, dev, now, version) ==
    [old EXCEPT !.content = content, !.tags = tags, !.updated = now,
                !.version = version, !.dev = dev]

FlaggedRow(old, flag, dev, now, version) ==
    IF old.deleted = flag THEN old
    ELSE [old EXCEPT !.deleted = flag, !.updated = now, !.version = version, !.dev = dev]

\* A database that differs from db in the row id, the history and the version.
WithRow(db, id, row, history) ==
    [notes |-> [i \in NoteIds(db) |-> IF i = id THEN row ELSE db.notes[i]],
     history |-> history, relations |-> db.relations, version |-> db.version + 1]

\* Tags that a request gives are finitely many, and so are those of a note.
LEMMA GivenTags == \A ts \in TagSet : ts \in AnyTags
BY InboxAssumption DEF AnyTags

LEMMA TagsTogether ==
  ASSUME NEW base \in AnyTags, NEW ts \in AnyTags
  PROVE  MergeTags(base, ts) \in AnyTags /\ SubtractTags(base, ts) \in AnyTags
<1>1. IsFiniteSet(base) /\ IsFiniteSet(ts)
  BY DEF AnyTags
<1>2. IsFiniteSet(base \cup ts) /\ IsFiniteSet(base \ ts)
  BY <1>1, FS_Union, FS_Difference
<1> QED
  BY <1>2 DEF AnyTags, MergeTags, SubtractTags

\* What a value of NoteDb is made of.
LEMMA NoteDbParts ==
  ASSUME NEW db \in NoteDb
  PROVE  /\ db = [notes |-> db.notes, history |-> db.history,
                  relations |-> db.relations, version |-> db.version]
         /\ db.notes \in Seq(AnyNote) /\ db.version \in Nat
         /\ Len(db.notes) \in Nat /\ NoteIds(db) = 1..Len(db.notes)
         /\ \A i \in NoteIds(db) : db.notes[i] \in AnyNote
         /\ db.history \in SUBSET AnySnapshot
         /\ db.relations \in SUBSET AnyRelation
<1>1. /\ db.notes \in Seq(AnyNote) /\ db.version \in Nat
      /\ db.history \in SUBSET AnySnapshot
      /\ db.relations \in SUBSET AnyRelation
      /\ db = [notes |-> db.notes, history |-> db.history,
               relations |-> db.relations, version |-> db.version]
  BY DEF NoteDb
<1> QED
  BY <1>1, Positions DEF NoteIds

\* The counter moves and nothing else does.  (The records an EXCEPT builds on
\* are named first: the provers reduce an EXCEPT on a constant.)
LEMMA BumpNotesResult ==
  ASSUME NEW db, NEW n, NEW h, NEW r, NEW v,
         db = [notes |-> n, history |-> h, relations |-> r, version |-> v]
  PROVE  BumpNotes(db) = [notes |-> n, history |-> h, relations |-> r, version |-> v + 1]
BY DEF BumpNotes

\* A new row, the next version, and nothing else.
LEMMA CreateNoteResult ==
  ASSUME NEW db, NEW n, NEW h, NEW r, NEW v,
         db = [notes |-> n, history |-> h, relations |-> r, version |-> v],
         NEW uuid, NEW content, NEW tags, NEW dev, NEW at
  PROVE  CreateNote(db, uuid, content, tags, dev, at) =
           [notes |-> Append(n, [uuid |-> uuid, content |-> content, tags |-> tags,
                                 created |-> at, updated |-> at, version |-> v + 1,
                                 dev |-> dev, deleted |-> FALSE]),
            history |-> h, relations |-> r, version |-> v + 1]
<1> DEFINE row == [uuid |-> uuid, content |-> content, tags |-> tags, created |-> at,
                   updated |-> at, version |-> v + 1, dev |-> dev, deleted |-> FALSE]
           m == Append(n, row)
<1>1. PICK x : x = BumpNotes(db)
  OBVIOUS
<1>2. x = [notes |-> n, history |-> h, relations |-> r, version |-> v + 1]
  BY <1>1, BumpNotesResult
<1>3. db.version = v /\ x.notes = n
  BY <1>2
<1>4. CreateNote(db, uuid, content, tags, dev, at) = [x EXCEPT !.notes = Append(@, row)]
  BY <1>1 DEF CreateNote
<1>5. CreateNote(db, uuid, content, tags, dev, at) = [x EXCEPT !.notes = m]
  BY <1>3, <1>4
<1> HIDE DEF m
<1>6. [x EXCEPT !.notes = m] = [notes |-> m, history |-> h, relations |-> r,
                                version |-> v + 1]
  BY <1>2
<1> QED
  BY <1>5, <1>6 DEF m

\* The row with the id, a snapshot of it, the next version, and nothing else.
LEMMA UpdateNoteResult ==
  ASSUME NEW db \in NoteDb, NEW id, NEW content, NEW tags, NEW dev, NEW now
  PROVE  UpdateNote(db, id, content, tags, dev, now) =
            WithRow(db, id,
                    UpdatedRow(db.notes[id], content, tags, dev, now, db.version + 1),
                    db.history \cup HistoryRow(db, id))
<1> DEFINE row(i) == UpdatedRow(db.notes[i], content, tags, dev, now, db.version + 1)
           m == [i \in NoteIds(db) |-> IF i = id THEN row(id) ELSE db.notes[i]]
           k == db.history \cup HistoryRow(db, id)
<1>1. PICK x : x = BumpNotes(db)
  OBVIOUS
<1>2. PICK n, h, r, v : db = [notes |-> n, history |-> h, relations |-> r, version |-> v]
  BY NoteDbParts
<1>3. x = [notes |-> n, history |-> h, relations |-> r, version |-> v + 1]
  BY <1>1, <1>2, BumpNotesResult
<1>4. /\ db.version = v /\ db.notes = n /\ db.history = h /\ db.relations = r
      /\ x.notes = n /\ x.history = h
  BY <1>2, <1>3
<1>5. UpdateNote(db, id, content, tags, dev, now)
         = [x EXCEPT !.history = k,
                     !.notes = [i \in NoteIds(db) |->
                                   IF i # id THEN db.notes[i] ELSE row(i)]]
  BY <1>1, <1>4, Zenon DEF UpdateNote, UpdatedRow, NoteIds
<1>6. [i \in NoteIds(db) |-> IF i # id THEN db.notes[i] ELSE row(i)] = m
  <2> HIDE DEF row
  <2> QED
    OBVIOUS
<1> HIDE DEF m, k
<1>7. PICK y : y = [x EXCEPT !.history = k]
  OBVIOUS
<1>8. y = [notes |-> n, history |-> k, relations |-> r, version |-> v + 1]
  BY <1>3, <1>7
<1>9. [x EXCEPT !.history = k, !.notes = m] = [y EXCEPT !.notes = m]
  BY <1>7
<1>10. [y EXCEPT !.notes = m] = [notes |-> m, history |-> k, relations |-> r,
                                 version |-> v + 1]
  BY <1>8
<1>11. UpdateNote(db, id, content, tags, dev, now) =
          [notes |-> m, history |-> k, relations |-> db.relations,
           version |-> db.version + 1]
  BY <1>4, <1>5, <1>6, <1>9, <1>10, Zenon
<1> QED
  BY <1>11 DEF m, k, WithRow

\* The row with the id when its flag differs, the next version, and nothing else.
LEMMA SetDeletedResult ==
  ASSUME NEW db \in NoteDb, NEW id, NEW flag, NEW dev, NEW now
  PROVE  SetDeleted(db, id, flag, dev, now) =
            WithRow(db, id, FlaggedRow(db.notes[id], flag, dev, now, db.version + 1),
                    db.history)
<1> DEFINE changed(i) == [db.notes[i] EXCEPT !.deleted = flag, !.updated = now,
                                             !.version = db.version + 1, !.dev = dev]
           m == [i \in NoteIds(db) |->
                    IF i = id THEN FlaggedRow(db.notes[id], flag, dev, now, db.version + 1)
                    ELSE db.notes[i]]
<1>1. PICK x : x = BumpNotes(db)
  OBVIOUS
<1>2. PICK n, h, r, v : db = [notes |-> n, history |-> h, relations |-> r, version |-> v]
  BY NoteDbParts
<1>3. x = [notes |-> n, history |-> h, relations |-> r, version |-> v + 1]
  BY <1>1, <1>2, BumpNotesResult
<1>4. /\ db.version = v /\ db.notes = n /\ db.history = h /\ db.relations = r
      /\ x.notes = n
  BY <1>2, <1>3
<1>5. SetDeleted(db, id, flag, dev, now)
         = [x EXCEPT !.notes = [i \in NoteIds(db) |->
                IF i # id \/ db.notes[i].deleted = flag THEN db.notes[i] ELSE changed(i)]]
  BY <1>1, <1>4, Zenon DEF SetDeleted, NoteIds
<1>6. [i \in NoteIds(db) |->
          IF i # id \/ db.notes[i].deleted = flag THEN db.notes[i] ELSE changed(i)] = m
  <2>1. FlaggedRow(db.notes[id], flag, dev, now, db.version + 1)
           = IF db.notes[id].deleted = flag THEN db.notes[id] ELSE changed(id)
    BY DEF FlaggedRow
  <2> HIDE DEF changed
  <2> QED
    BY <2>1
<1> HIDE DEF m
<1>7. [x EXCEPT !.notes = m] = [notes |-> m, history |-> h, relations |-> r,
                                version |-> v + 1]
  BY <1>3
<1>8. SetDeleted(db, id, flag, dev, now) =
          [notes |-> m, history |-> db.history, relations |-> db.relations,
           version |-> db.version + 1]
  BY <1>4, <1>5, <1>6, <1>7, Zenon
<1> QED
  BY <1>8 DEF m, WithRow

\* A deletion archives the row it found.
LEMMA DeleteNoteResult ==
  ASSUME NEW db \in NoteDb, NEW id, NEW dev, NEW now
  PROVE  DeleteNote(db, id, dev, now) =
            WithRow(db, id, FlaggedRow(db.notes[id], TRUE, dev, now, db.version + 1),
                    db.history \cup HistoryRow(db, id))
<1> DEFINE k == db.history \cup HistoryRow(db, id)
           row == FlaggedRow(db.notes[id], TRUE, dev, now, db.version + 1)
<1>1. PICK x : x = SetDeleted(db, id, TRUE, dev, now)
  OBVIOUS
<1>2. x = WithRow(db, id, row, db.history)
  BY <1>1, SetDeletedResult
<1> HIDE DEF row
<1>3. x.history = db.history
  BY <1>2 DEF WithRow
<1>4. DeleteNote(db, id, dev, now) = [x EXCEPT !.history = k]
  BY <1>1, <1>3 DEF DeleteNote
<1> HIDE DEF k
<1>5. PICK n, r, v : x = [notes |-> n, history |-> db.history, relations |-> r, version |-> v]
                     /\ WithRow(db, id, row, k) =
                           [notes |-> n, history |-> k, relations |-> r, version |-> v]
  BY <1>2 DEF WithRow
<1>6. [x EXCEPT !.history = k] = [notes |-> n, history |-> k, relations |-> r,
                                  version |-> v]
  BY <1>5
<1> QED
  BY <1>4, <1>5, <1>6, Zenon DEF k, row

\* A row takes a value of its type in each of its fields.
LEMMA NoteFields ==
  ASSUME NEW o \in AnyNote
  PROVE  /\ \A x \in Content : [o EXCEPT !.content = x] \in AnyNote
         /\ \A x \in AnyTags : [o EXCEPT !.tags = x] \in AnyNote
         /\ \A x \in Nat : [o EXCEPT !.updated = x] \in AnyNote
         /\ \A x \in Nat : [o EXCEPT !.version = x] \in AnyNote
         /\ \A x \in Device \cup {None} : [o EXCEPT !.dev = x] \in AnyNote
         /\ \A x \in BOOLEAN : [o EXCEPT !.deleted = x] \in AnyNote
BY DEF AnyNote

\* A row can be archived.
LEMMA CurrentIsSnapshot ==
  ASSUME NEW db \in NoteDb, NEW i \in NoteIds(db)
  PROVE  Current(db, i) \in AnySnapshot
<1>1. i \in Nat /\ db.notes[i] \in AnyNote
  BY NoteDbParts
<1>2. /\ db.notes[i].content \in Content /\ db.notes[i].version \in Nat
      /\ db.notes[i].tags \in AnyTags
  BY <1>1 DEF AnyNote
<1> QED
  BY <1>1, <1>2 DEF Current, AnySnapshot

\* Such a step keeps a well-formed database well formed.
LEMMA NoteStepOK ==
  ASSUME NEW db, NEW new, NotesOK(db), NoteStep(db, new)
  PROVE  NotesOK(new)
<1>1. /\ db \in NoteDb /\ new \in NoteDb
      /\ db.version \in Nat /\ new.version \in Nat /\ db.version <= new.version
  BY DEF NotesOK, NoteStep, NoteDb
<1>2. \A i \in NoteIds(new) : new.notes[i].version \in Nat
  BY <1>1, NoteDbParts DEF AnyNote
<1>3. \A i \in NoteIds(new) : new.notes[i].version \in 1..new.version
  BY <1>1, <1>2 DEF NotesOK, NoteStep
<1>4. \A h \in new.history : h.note \in NoteIds(new) /\ h.version <= db.version
  <2>1. \A i \in NoteIds(db) : db.notes[i].version \in 1..db.version
    BY DEF NotesOK
  <2>2. \A i \in NoteIds(db) : Current(db, i).note = i /\ Current(db, i).version <= db.version
    BY <1>1, <2>1 DEF Current
  <2> QED
    BY <1>1, <2>2 DEF NotesOK, NoteStep
<1>5. \A h \in new.history : h.version \in Nat /\ h.version <= new.version
  BY <1>1, <1>4 DEF NoteDb, AnySnapshot
<1>6. ASSUME NEW r \in {Current(new, i) : i \in NoteIds(new)} \cup new.history,
             NEW s \in {Current(new, i) : i \in NoteIds(new)} \cup new.history,
             r.version = s.version
      PROVE  r = s
  <2> DEFINE old == {Current(db, i) : i \in NoteIds(db)} \cup db.history
  <2>1. new.history \subseteq old
    BY DEF NoteStep
  <2>2. \A i \in NoteIds(new) : Current(new, i).version = new.notes[i].version
    BY DEF Current
  <2>3. \A i \in NoteIds(new) : \/ Current(new, i) \in old
                                \/ Current(new, i).version = db.version + 1
    BY <2>2 DEF NoteStep, Current
  <2>4. \A h \in old : h.version # db.version + 1
    BY <1>1, <2>2 DEF NotesOK, Current, NoteDb, AnySnapshot
  <2>5. CASE r.version = db.version + 1
    <3>1. PICK i \in NoteIds(new) : r = Current(new, i)
      BY <2>1, <2>4, <2>5
    <3>2. PICK j \in NoteIds(new) : s = Current(new, j)
      BY <1>6, <2>1, <2>4, <2>5
    <3>3. i = j
      BY <1>6, <2>2, <2>5, <3>1, <3>2 DEF NoteStep
    <3> QED
      BY <3>1, <3>2, <3>3
  <2>6. CASE r.version # db.version + 1
    <3>1. r \in old /\ s \in old
      BY <1>6, <2>1, <2>3, <2>6
    <3> QED
      BY <1>6, <3>1 DEF NotesOK
  <2> QED
    BY <2>5, <2>6
<1>7. \A r \in new.relations : r.source \in NoteIds(new) /\ r.target \in NoteIds(new)
  BY DEF NoteStep
<1> QED
  BY <1>1, <1>3, <1>4, <1>5, <1>6, <1>7 DEF NotesOK

\* A new row at the end.
LEMMA CreateNoteStep ==
  ASSUME NEW db, NotesOK(db), NEW uuid \in Nat, NEW content \in Content,
         NEW tags \in AnyTags, NEW dev \in Device \cup {None},
         NEW at \in Nat
  PROVE  LET new == CreateNote(db, uuid, content, tags, dev, at)
         IN  /\ NoteStep(db, new)
             /\ Len(new.notes) = Len(db.notes) + 1
             /\ NoteIds(new) = 1..Len(db.notes) + 1
             /\ new.relations = db.relations
<1> DEFINE row == [uuid |-> uuid, content |-> content, tags |-> tags, created |-> at,
                   updated |-> at, version |-> db.version + 1, dev |-> dev,
                   deleted |-> FALSE]
           notes == Append(db.notes, row)
           new == [notes |-> notes, history |-> db.history,
                   relations |-> db.relations, version |-> db.version + 1]
           n == Len(db.notes)
<1>1. /\ db \in NoteDb /\ db.notes \in Seq(AnyNote) /\ db.version \in Nat /\ n \in Nat
      /\ NoteIds(db) = 1..n /\ db.history \in SUBSET AnySnapshot
      /\ db.relations \in SUBSET AnyRelation
      /\ db = [notes |-> db.notes, history |-> db.history,
               relations |-> db.relations, version |-> db.version]
  BY NoteDbParts DEF NotesOK
<1>2. CreateNote(db, uuid, content, tags, dev, at) = new
  BY <1>1, CreateNoteResult
<1>3. row \in AnyNote /\ row.version = db.version + 1
  BY <1>1 DEF AnyNote
<1> HIDE DEF row
<1>4. /\ notes \in Seq(AnyNote) /\ Len(notes) = n + 1
      /\ \A i \in 1..n : notes[i] = db.notes[i]
      /\ notes[n + 1] = row
  BY <1>1, <1>3, AppendProperties
<1> HIDE DEF notes, n
<1>5. new \in NoteDb
  BY <1>1, <1>4 DEF NoteDb
<1>6. NoteIds(new) = 1..(n + 1)
  BY <1>1, <1>4, <1>5, NoteDbParts
<1>7. \A i \in NoteIds(new) : \/ i \in NoteIds(db) /\ new.notes[i] = db.notes[i]
                              \/ i = n + 1 /\ new.notes[i] = row
  BY <1>1, <1>4, <1>6
<1>8. \A i \in NoteIds(db) : db.notes[i].version # db.version + 1
  BY <1>1 DEF NotesOK
<1>9. \A i, j \in NoteIds(new) :
         new.notes[i].version = db.version + 1 /\ new.notes[j].version = db.version + 1
            => i = j
  BY <1>7, <1>8
<1>10. NoteIds(db) \subseteq NoteIds(new) /\ \A i \in NoteIds(db) : new.notes[i] = db.notes[i]
  BY <1>1, <1>4, <1>6
<1>11. \A r \in new.relations : r.source \in NoteIds(new) /\ r.target \in NoteIds(new)
  BY <1>10 DEF NotesOK
<1>12. NoteStep(db, new)
  BY <1>1, <1>3, <1>5, <1>7, <1>9, <1>10, <1>11 DEF NoteStep
<1> QED
  BY <1>2, <1>4, <1>6, <1>12 DEF n

\* One row becomes another, or, when there is no such row, nothing does.
LEMMA ChangeNoteStep ==
  ASSUME NEW db, NotesOK(db), NEW id, NEW row, NEW history,
         history \in {db.history, db.history \cup {Current(db, i) : i \in {id} \cap NoteIds(db)}},
         id \in NoteIds(db) =>
            \/ row = db.notes[id]
            \/ /\ row \in AnyNote /\ row.version = db.version + 1
               /\ row.uuid = db.notes[id].uuid
               /\ \/ /\ row.content = db.notes[id].content
                     /\ row.tags = db.notes[id].tags
                  \/ Current(db, id) \in history
  PROVE  NoteStep(db, WithRow(db, id, row, history))
<1> DEFINE new == WithRow(db, id, row, history)
           notes == [i \in NoteIds(db) |-> IF i = id THEN row ELSE db.notes[i]]
           n == Len(db.notes)
<1>1. /\ db \in NoteDb /\ db.notes \in Seq(AnyNote) /\ db.version \in Nat /\ n \in Nat
      /\ NoteIds(db) = 1..n /\ db.history \in SUBSET AnySnapshot
      /\ db.relations \in SUBSET AnyRelation
      /\ \A i \in NoteIds(db) : db.notes[i] \in AnyNote
  BY NoteDbParts DEF NotesOK
<1>2. notes \in Seq(AnyNote) /\ DOMAIN notes = NoteIds(db)
  <2>1. notes \in [1..n -> AnyNote]
    BY <1>1
  <2> HIDE DEF notes, n
  <2> QED
    BY <1>1, <2>1, SegmentIsSeq
<1>3. /\ new.notes = notes /\ new.history = history /\ new.relations = db.relations
      /\ new.version = db.version + 1
  BY DEF WithRow
<1>4. \A i \in NoteIds(db) : Current(db, i) \in AnySnapshot
  BY <1>1, CurrentIsSnapshot
<1>5. new \in NoteDb
  <2>1. history \in SUBSET AnySnapshot
    BY <1>1, <1>4
  <2> HIDE DEF notes
  <2> QED
    BY <1>1, <1>2, <2>1 DEF NoteDb, WithRow, notes
<1>6. NoteIds(new) = NoteIds(db)
  BY <1>2, <1>3 DEF NoteIds
<1>7. \A i \in NoteIds(db) : new.notes[i] = IF i = id THEN row ELSE db.notes[i]
  BY <1>3
<1>8. \A i \in NoteIds(db) : db.notes[i].version # db.version + 1
  BY <1>1 DEF NotesOK
<1>9. \A r \in new.relations : r.source \in NoteIds(new) /\ r.target \in NoteIds(new)
  BY <1>3, <1>6 DEF NotesOK
<1> HIDE DEF notes, n, new
<1> QED
  BY <1>1, <1>3, <1>5, <1>6, <1>7, <1>8, <1>9 DEF NoteStep, new

\* The snapshot that INSERT ... SELECT takes.
LEMMA HistoryRowResult ==
  ASSUME NEW db, NEW id
  PROVE  HistoryRow(db, id) = {Current(db, i) : i \in {id} \cap NoteIds(db)}
BY DEF HistoryRow, Current

\* They are rows, of the same note, with the version they were given.
LEMMA ChangedRow ==
  ASSUME NEW old \in AnyNote, NEW v \in Nat, NEW now \in Nat,
         NEW dev \in Device \cup {None}
  PROVE  /\ \A content \in Content, tags \in AnyTags :
               LET row == UpdatedRow(old, content, tags, dev, now, v)
               IN  row \in AnyNote /\ row.version = v /\ row.uuid = old.uuid
         /\ \A flag \in BOOLEAN :
               LET row == FlaggedRow(old, flag, dev, now, v)
               IN  \/ row = old
                   \/ /\ row \in AnyNote /\ row.version = v /\ row.uuid = old.uuid
                      /\ row.content = old.content /\ row.tags = old.tags
<1>1. ASSUME NEW content \in Content, NEW tags \in AnyTags
      PROVE  LET row == UpdatedRow(old, content, tags, dev, now, v)
             IN  row \in AnyNote /\ row.version = v /\ row.uuid = old.uuid
  <2>1. PICK r1 : r1 = [old EXCEPT !.content = content]
    OBVIOUS
  <2>2. PICK r2 : r2 = [r1 EXCEPT !.tags = tags]
    OBVIOUS
  <2>3. PICK r3 : r3 = [r2 EXCEPT !.updated = now]
    OBVIOUS
  <2>4. PICK r4 : r4 = [r3 EXCEPT !.version = v]
    OBVIOUS
  <2>5. PICK r5 : r5 = [r4 EXCEPT !.dev = dev]
    OBVIOUS
  <2>6. /\ r1 \in AnyNote /\ r2 \in AnyNote /\ r3 \in AnyNote /\ r4 \in AnyNote
        /\ r5 \in AnyNote
    BY <2>1, <2>2, <2>3, <2>4, <2>5, NoteFields
  <2>7. r5 = UpdatedRow(old, content, tags, dev, now, v)
    BY <2>1, <2>2, <2>3, <2>4, <2>5 DEF UpdatedRow
  <2>8. r1.uuid = old.uuid /\ r2.uuid = r1.uuid /\ r3.uuid = r2.uuid
    BY <2>1, <2>2, <2>3, <2>6 DEF AnyNote
  <2>9. r4.uuid = r3.uuid /\ r5.uuid = r4.uuid /\ r4.version = v /\ r5.version = r4.version
    BY <2>4, <2>5, <2>6 DEF AnyNote
  <2> QED
    BY <2>6, <2>7, <2>8, <2>9
<1>2. ASSUME NEW flag \in BOOLEAN
      PROVE  LET row == FlaggedRow(old, flag, dev, now, v)
             IN  \/ row = old
                 \/ /\ row \in AnyNote /\ row.version = v /\ row.uuid = old.uuid
                    /\ row.content = old.content /\ row.tags = old.tags
  <2>1. PICK r1 : r1 = [old EXCEPT !.deleted = flag]
    OBVIOUS
  <2>2. PICK r2 : r2 = [r1 EXCEPT !.updated = now]
    OBVIOUS
  <2>3. PICK r3 : r3 = [r2 EXCEPT !.version = v]
    OBVIOUS
  <2>4. PICK r4 : r4 = [r3 EXCEPT !.dev = dev]
    OBVIOUS
  <2>5. r1 \in AnyNote /\ r2 \in AnyNote /\ r3 \in AnyNote /\ r4 \in AnyNote
    BY <2>1, <2>2, <2>3, <2>4, NoteFields
  <2>6. /\ r1.uuid = old.uuid /\ r1.content = old.content /\ r1.tags = old.tags
        /\ r2.uuid = r1.uuid /\ r2.content = r1.content /\ r2.tags = r1.tags
    BY <2>1, <2>2, <2>5 DEF AnyNote
  <2>7. /\ r3.uuid = r2.uuid /\ r3.content = r2.content /\ r3.tags = r2.tags
        /\ r4.uuid = r3.uuid /\ r4.content = r3.content /\ r4.tags = r3.tags
        /\ r3.version = v /\ r4.version = r3.version
    BY <2>3, <2>4, <2>5 DEF AnyNote
  <2>8. r4 = [old EXCEPT !.deleted = flag, !.updated = now, !.version = v, !.dev = dev]
    BY <2>1, <2>2, <2>3, <2>4
  <2>9. \/ FlaggedRow(old, flag, dev, now, v) = old
        \/ FlaggedRow(old, flag, dev, now, v) = r4
    BY <2>8 DEF FlaggedRow
  <2> QED
    BY <2>5, <2>6, <2>7, <2>9
<1> QED
  BY <1>1, <1>2

\* PUT /notes/{id}: what the row said is archived, then overwritten.
LEMMA UpdateNoteStep ==
  ASSUME NEW db, NotesOK(db), NEW id, NEW content \in Content,
         NEW tags \in AnyTags, NEW dev \in Device \cup {None},
         NEW now \in Nat
  PROVE  NoteStep(db, UpdateNote(db, id, content, tags, dev, now))
<1> DEFINE row == UpdatedRow(db.notes[id], content, tags, dev, now, db.version + 1)
           history == db.history \cup HistoryRow(db, id)
<1>1. /\ db \in NoteDb /\ db.version + 1 \in Nat
      /\ \A i \in NoteIds(db) : db.notes[i] \in AnyNote
  BY NoteDbParts DEF NotesOK
<1>2. UpdateNote(db, id, content, tags, dev, now) = WithRow(db, id, row, history)
  BY <1>1, UpdateNoteResult
<1>3. id \in NoteIds(db) =>
         row \in AnyNote /\ row.version = db.version + 1 /\ row.uuid = db.notes[id].uuid
  <2> HAVE id \in NoteIds(db)
  <2>1. PICK old, v : old = db.notes[id] /\ v = db.version + 1
    OBVIOUS
  <2>2. old \in AnyNote /\ v \in Nat /\ row = UpdatedRow(old, content, tags, dev, now, v)
    BY <1>1, <2>1
  <2> HIDE DEF row
  <2>3. row \in AnyNote /\ row.version = v /\ row.uuid = old.uuid
    BY <2>2, ChangedRow, SMTT(20)
  <2> QED
    BY <2>1, <2>3
<1>4. history = db.history \cup {Current(db, i) : i \in {id} \cap NoteIds(db)}
  BY HistoryRowResult
<1>5. id \in NoteIds(db) => Current(db, id) \in history
  BY <1>4
<1> HIDE DEF row, history
<1> QED
  BY <1>2, <1>3, <1>4, <1>5, ChangeNoteStep

\* DELETE and restore differ in the flag and in the snapshot.
LEMMA DeleteRestoreStep ==
  ASSUME NEW db, NotesOK(db), NEW id, NEW dev \in Device \cup {None}, NEW now \in Nat
  PROVE  /\ NoteStep(db, DeleteNote(db, id, dev, now))
         /\ NoteStep(db, RestoreNote(db, id, dev, now))
<1> DEFINE row(flag) == FlaggedRow(db.notes[id], flag, dev, now, db.version + 1)
           history == db.history \cup HistoryRow(db, id)
<1>1. /\ db \in NoteDb /\ db.version + 1 \in Nat
      /\ \A i \in NoteIds(db) : db.notes[i] \in AnyNote
  BY NoteDbParts DEF NotesOK
<1>2. ASSUME NEW flag \in BOOLEAN, id \in NoteIds(db)
      PROVE  \/ row(flag) = db.notes[id]
             \/ /\ row(flag) \in AnyNote /\ row(flag).version = db.version + 1
                /\ row(flag).uuid = db.notes[id].uuid
                /\ row(flag).content = db.notes[id].content
                /\ row(flag).tags = db.notes[id].tags
  <2>1. PICK old, v : old = db.notes[id] /\ v = db.version + 1
    OBVIOUS
  <2>2. old \in AnyNote /\ v \in Nat /\ row(flag) = FlaggedRow(old, flag, dev, now, v)
    BY <1>1, <1>2, <2>1
  <2> HIDE DEF row
  <2>3. \/ row(flag) = old
        \/ /\ row(flag) \in AnyNote /\ row(flag).version = v /\ row(flag).uuid = old.uuid
           /\ row(flag).content = old.content /\ row(flag).tags = old.tags
    BY <2>2, ChangedRow
  <2> QED
    BY <2>1, <2>3
<1>3. RestoreNote(db, id, dev, now) = WithRow(db, id, row(FALSE), db.history)
  BY <1>1, SetDeletedResult DEF RestoreNote
<1>4. DeleteNote(db, id, dev, now) = WithRow(db, id, row(TRUE), history)
  BY <1>1, DeleteNoteResult
<1>5. history = db.history \cup {Current(db, i) : i \in {id} \cap NoteIds(db)}
  BY HistoryRowResult
<1> HIDE DEF row, history
<1>6. NoteStep(db, WithRow(db, id, row(FALSE), db.history))
  BY <1>2, ChangeNoteStep
<1>7. NoteStep(db, WithRow(db, id, row(TRUE), history))
  BY <1>2, <1>5, ChangeNoteStep
<1> QED
  BY <1>3, <1>4, <1>6, <1>7

\* A step that changes nothing.
LEMMA SameNotesStep ==
  ASSUME NEW db, NotesOK(db)
  PROVE  NoteStep(db, db)
<1>1. db \in NoteDb /\ db.version \in Nat
  BY NoteDbParts DEF NotesOK
<1>2. \A i \in NoteIds(db) : db.notes[i].version # db.version + 1
  BY <1>1 DEF NotesOK
<1> QED
  BY <1>1, <1>2 DEF NoteStep, NotesOK

\* A relation between two notes that exist, after any step.
LEMMA RelationStep ==
  ASSUME NEW db, NEW m, NoteStep(db, m), NEW source, NEW target,
         NEW kind \in {"Comment", "Reference"}
  PROVE  NoteStep(db, AddRelation(m, source, target, kind))
<1> DEFINE rel == [source |-> source, target |-> target, kind |-> kind]
           rels == m.relations \cup {rel}
<1>1. CASE ~({source, target} \subseteq NoteIds(m))
  BY <1>1 DEF AddRelation
<1>2. CASE {source, target} \subseteq NoteIds(m)
  <2>1. /\ m \in NoteDb /\ NoteIds(m) = 1..Len(m.notes) /\ Len(m.notes) \in Nat
    BY NoteDbParts DEF NoteStep
  <2>2. PICK n, h, r, v : m = [notes |-> n, history |-> h, relations |-> r, version |-> v]
    BY <2>1, NoteDbParts
  <2>3. m.notes = n /\ m.history = h /\ m.relations = r /\ m.version = v
    BY <2>2
  <2>4. AddRelation(m, source, target, kind) = [m EXCEPT !.relations = rels]
    BY <1>2 DEF AddRelation
  <2>5. rel \in AnyRelation /\ rel.source \in NoteIds(m) /\ rel.target \in NoteIds(m)
    <3>1. source \in Nat /\ target \in Nat
      BY <1>2, <2>1
    <3> QED
      BY <1>2, <3>1 DEF AnyRelation
  <2>6. /\ rels \in SUBSET AnyRelation
        /\ \A x \in rels : x.source \in NoteIds(m) /\ x.target \in NoteIds(m)
    <3>1. m.relations \in SUBSET AnyRelation
      BY <2>1, NoteDbParts
    <3>2. \A x \in m.relations : x.source \in NoteIds(m) /\ x.target \in NoteIds(m)
      BY DEF NoteStep
    <3> HIDE DEF rel
    <3> QED
      BY <2>5, <3>1, <3>2
  <2> HIDE DEF rels, rel
  <2>7. PICK new : new = AddRelation(m, source, target, kind)
    OBVIOUS
  <2>8. new = [notes |-> n, history |-> h, relations |-> rels, version |-> v]
    BY <2>2, <2>4, <2>7
  <2>9. /\ new.notes = m.notes /\ new.history = m.history /\ new.relations = rels
        /\ new.version = m.version /\ NoteIds(new) = NoteIds(m)
    BY <2>3, <2>8 DEF NoteIds
  <2>10. new \in NoteDb
    BY <2>1, <2>3, <2>6, <2>8 DEF NoteDb
  <2>11. NoteStep(db, new)
    BY <2>6, <2>9, <2>10 DEF NoteStep
  <2> QED
    BY <2>7, <2>11
<1> QED
  BY <1>1, <1>2

\* POST /notes/{id}/relations and a comment: a note and its relation at once.
LEMMA RelateStep ==
  ASSUME NEW db, NotesOK(db)
  PROVE  /\ \A i, j : \A kind \in {"Comment", "Reference"} :
               NoteStep(db, AddRelation(db, i, j, kind))
         /\ \A i : \A uuid \in Nat, content \in Content, now \in Nat :
               NoteStep(db, AddComment(db, uuid, i, content, {}, now))
<1>1. ASSUME NEW i, NEW j, NEW kind \in {"Comment", "Reference"}
      PROVE  NoteStep(db, AddRelation(db, i, j, kind))
  BY SameNotesStep, RelationStep
<1>2. ASSUME NEW uuid \in Nat, NEW i, NEW content \in Content, NEW now \in Nat
      PROVE  NoteStep(db, AddComment(db, uuid, i, content, {}, now))
  <2>1. NoteStep(db, CreateNote(db, uuid, content, {}, None, now))
    <3>1. {} \in AnyTags
      BY FS_EmptySet DEF AnyTags
    <3> QED
      BY <3>1, CreateNoteStep
  <2>2. ASSUME NEW m, NoteStep(db, m)
        PROVE  NoteStep(db, AddRelation(m, Len(m.notes), i, "Comment"))
    BY <2>2, RelationStep
  <2> QED
    BY <2>1, <2>2, SameNotesStep DEF AddComment
<1> QED
  BY <1>1, <1>2

\* The batch instructions are updates with values worked out from the row.
LEMMA BatchNoteStep ==
  ASSUME NEW db, NotesOK(db), NEW id \in NoteIds(db),
         NEW dev \in Device \cup {None}, NEW now \in Nat
  PROVE  /\ \A c \in Content \cup {None}, ts \in TagSet \cup {None} :
               NoteStep(db, BatchUpdateNote(db, id, c, ts, dev, now))
         /\ \A action \in {"add_tags", "remove_tags", "set_tags"}, ts \in TagSet :
               NoteStep(db, BatchNoteTags(db, id, action, ts, dev, now))
<1>1. db.notes[id] \in AnyNote
  BY NoteDbParts DEF NotesOK
<1>2. db.notes[id].content \in Content /\ db.notes[id].tags \in AnyTags
  BY <1>1 DEF AnyNote
<1>3. ASSUME NEW c \in Content \cup {None}, NEW ts \in TagSet \cup {None}
      PROVE  NoteStep(db, BatchUpdateNote(db, id, c, ts, dev, now))
  <2> DEFINE content == IF c = None THEN db.notes[id].content ELSE c
             tags == IF ts = None THEN db.notes[id].tags ELSE ts
  <2>1. content \in Content /\ tags \in AnyTags
    BY <1>2, GivenTags
  <2>2. BatchUpdateNote(db, id, c, ts, dev, now) = UpdateNote(db, id, content, tags, dev, now)
    BY DEF BatchUpdateNote
  <2> HIDE DEF content, tags
  <2> QED
    BY <2>1, <2>2, UpdateNoteStep
<1>4. ASSUME NEW action \in {"add_tags", "remove_tags", "set_tags"}, NEW ts \in TagSet
      PROVE  NoteStep(db, BatchNoteTags(db, id, action, ts, dev, now))
  <2>1. PICK tags \in AnyTags :
           BatchNoteTags(db, id, action, ts, dev, now)
              = UpdateNote(db, id, db.notes[id].content, tags, dev, now)
    <3>1. ts \in AnyTags
      BY GivenTags
    <3>2. /\ MergeTags(db.notes[id].tags, ts) \in AnyTags
          /\ SubtractTags(db.notes[id].tags, ts) \in AnyTags
      BY <1>2, <3>1, TagsTogether
    <3> QED
      BY <3>1, <3>2 DEF BatchNoteTags
  <2> QED
    BY <1>2, <2>1, UpdateNoteStep
<1> QED
  BY <1>3, <1>4

-----------------------------------------------------------------------------
(* The todo database, and what every operation on it does                  *)

Subtask == [id : Nat, done : BOOLEAN]

AnyTodo ==
    [uuid : Nat, text : Text, due : Due \cup {None}, subtasks : Seq(Subtask),
     list : Nat, completed : BOOLEAN, completedAt : Nat \cup {None},
     created : Nat, updated : Nat, version : Nat, dev : Device \cup {None},
     deleted : BOOLEAN]

\* A table of lists, by id.
ListTable == UNION {[D -> ListName] : D \in SUBSET Nat}

TodoDb == [todos : Seq(AnyTodo), lists : ListTable, nextList : Nat, version : Nat]

UniqueIds(subs) == \A j, k \in DOMAIN subs : subs[j].id = subs[k].id => j = k

\* What holds of a todo, given the lists there are.
TodoOK(todo, lists) ==
    /\ todo \in AnyTodo
    /\ todo.completed <=> todo.completedAt # None
    /\ UniqueIds(todo.subtasks)
    /\ todo.list \in DOMAIN lists \cup {Inbox0}

TodosOK(db) ==
    /\ db \in TodoDb
    /\ \A i \in TodoIds(db) : TodoOK(db.todos[i], db.lists)

\* A step keeps the database well formed; what it changes in a todo carries a
\* new version, except that a todo goes back to the inbox with its old one.
TodoStep(db, new) ==
    /\ TodosOK(new)
    /\ new.version \in {db.version, db.version + 1}
    /\ \A i \in TodoIds(new) :
          \/ i \in TodoIds(db) /\ new.todos[i] = db.todos[i]
          \/ i \in TodoIds(db) /\ new.todos[i] = [db.todos[i] EXCEPT !.list = Inbox0]
          \/ new.todos[i].version = db.version + 1

\* A row of the todo table with other values in the columns an update writes.
PatchedTodo(old, p, now) ==
    [old EXCEPT
        !.text = Or(p.text, @), !.due = Or(p.due, @),
        !.subtasks = Or(p.subtasks, @), !.list = Or(p.list, @),
        !.completed = Or(p.completed, old.completed),
        !.completedAt = IF Or(p.completed, old.completed) = old.completed THEN @
                        ELSE IF Or(p.completed, old.completed) THEN now ELSE None,
        !.updated = now]

\* What a value of TodoDb is made of.
LEMMA TodoDbParts ==
  ASSUME NEW db \in TodoDb
  PROVE  /\ db = [todos |-> db.todos, lists |-> db.lists,
                  nextList |-> db.nextList, version |-> db.version]
         /\ db.todos \in Seq(AnyTodo) /\ db.version \in Nat /\ db.nextList \in Nat
         /\ Len(db.todos) \in Nat /\ TodoIds(db) = 1..Len(db.todos)
         /\ \A i \in TodoIds(db) : db.todos[i] \in AnyTodo
         /\ db.lists \in ListTable
<1>1. /\ db.todos \in Seq(AnyTodo) /\ db.version \in Nat /\ db.nextList \in Nat
      /\ db.lists \in ListTable
      /\ db = [todos |-> db.todos, lists |-> db.lists,
               nextList |-> db.nextList, version |-> db.version]
  BY DEF TodoDb
<1> QED
  BY <1>1, Positions DEF TodoIds

\* What a table of lists is.
LEMMA ListTableParts ==
  ASSUME NEW lists
  PROVE  /\ lists \in ListTable =>
               /\ DOMAIN lists \in SUBSET Nat
               /\ lists \in [DOMAIN lists -> ListName]
         /\ \A D \in SUBSET Nat : lists \in [D -> ListName] => lists \in ListTable
BY DEF ListTable

\* The counter of the todo database moves and nothing else does.
LEMMA BumpTodosResult ==
  ASSUME NEW db, NEW t, NEW l, NEW n, NEW v,
         db = [todos |-> t, lists |-> l, nextList |-> n, version |-> v]
  PROVE  BumpTodos(db) = [todos |-> t, lists |-> l, nextList |-> n, version |-> v + 1]
BY DEF BumpTodos

\* A todo takes a value of its type in each of its columns.
LEMMA TodoFields ==
  ASSUME NEW o \in AnyTodo
  PROVE  /\ \A x \in Text : [o EXCEPT !.text = x] \in AnyTodo
         /\ \A x \in Due \cup {None} : [o EXCEPT !.due = x] \in AnyTodo
         /\ \A x \in Seq(Subtask) : [o EXCEPT !.subtasks = x] \in AnyTodo
         /\ \A x \in Nat : [o EXCEPT !.list = x] \in AnyTodo
         /\ \A x \in BOOLEAN : [o EXCEPT !.completed = x] \in AnyTodo
         /\ \A x \in Nat \cup {None} : [o EXCEPT !.completedAt = x] \in AnyTodo
         /\ \A x \in Nat : [o EXCEPT !.updated = x] \in AnyTodo
         /\ \A x \in Nat : [o EXCEPT !.version = x] \in AnyTodo
         /\ \A x \in BOOLEAN : [o EXCEPT !.deleted = x] \in AnyTodo
BY DEF AnyTodo

\* A step that changes nothing, and one that only takes a version.
LEMMA IdleTodoStep ==
  ASSUME NEW db, TodosOK(db)
  PROVE  TodoStep(db, db) /\ TodoStep(db, BumpTodos(db))
<1>1. db \in TodoDb
  BY DEF TodosOK
<1>2. PICK t, l, n, v : db = [todos |-> t, lists |-> l, nextList |-> n, version |-> v]
  BY <1>1, TodoDbParts
<1>3. PICK new : new = BumpTodos(db)
  OBVIOUS
<1>4. new = [todos |-> t, lists |-> l, nextList |-> n, version |-> v + 1]
  BY <1>2, <1>3, BumpTodosResult
<1>5. db.todos = t /\ db.lists = l /\ db.nextList = n /\ db.version = v
  BY <1>2
<1>6. new.todos = t /\ new.lists = l /\ new.nextList = n /\ new.version = v + 1
  BY <1>4
<1>7. new \in TodoDb
  BY <1>1, <1>4, <1>5, TodoDbParts DEF TodoDb
<1>8. TodoIds(new) = TodoIds(db)
  BY <1>5, <1>6 DEF TodoIds
<1>9. TodosOK(new)
  BY <1>5, <1>6, <1>7, <1>8 DEF TodosOK
<1>10. TodoStep(db, new)
  BY <1>5, <1>6, <1>8, <1>9 DEF TodoStep
<1> QED
  BY <1>3, <1>10 DEF TodoStep

\* One row is replaced, under the next version.
LEMMA SetTodoStep ==
  ASSUME NEW db, TodosOK(db), NEW id, NEW row, TodoOK(row, db.lists)
  PROVE  TodoStep(db, SetTodo(db, id, row))
<1>1. /\ db \in TodoDb /\ db.version \in Nat /\ Len(db.todos) \in Nat
      /\ TodoIds(db) = 1..Len(db.todos) /\ db.lists \in ListTable /\ db.nextList \in Nat
      /\ \A i \in TodoIds(db) : db.todos[i] \in AnyTodo
  BY TodoDbParts DEF TodosOK
<1> DEFINE put == [row EXCEPT !.version = db.version + 1]
           todos == [i \in TodoIds(db) |-> IF i = id THEN put ELSE db.todos[i]]
<1>2. put \in AnyTodo
  <2>1. row \in AnyTodo
    BY DEF TodoOK
  <2>2. PICK w \in Nat : w = db.version + 1
    BY <1>1
  <2>3. [row EXCEPT !.version = w] \in AnyTodo
    BY <2>1, TodoFields
  <2> QED
    BY <2>2, <2>3
<1>3. /\ put.version = db.version + 1 /\ put.list = row.list
      /\ put.completed = row.completed /\ put.completedAt = row.completedAt
      /\ put.subtasks = row.subtasks
  BY DEF TodoOK, AnyTodo
<1>4. TodoOK(put, db.lists)
  <2> HIDE DEF put
  <2> QED
    BY <1>2, <1>3 DEF TodoOK
<1>5. PICK x : x = BumpTodos(db)
  OBVIOUS
<1>6. PICK t, l, n, v : db = [todos |-> t, lists |-> l, nextList |-> n, version |-> v]
  BY <1>1, TodoDbParts
<1>7. x = [todos |-> t, lists |-> l, nextList |-> n, version |-> v + 1]
  BY <1>5, <1>6, BumpTodosResult
<1>8. /\ db.todos = t /\ db.lists = l /\ db.nextList = n /\ db.version = v /\ x.todos = t
  BY <1>6, <1>7
<1>9. SetTodo(db, id, row) = [x EXCEPT !.todos = todos]
  <2> HIDE DEF put
  <2>1. SetTodo(db, id, row)
           = [x EXCEPT !.todos = [i \in TodoIds(db) |-> IF i = id THEN put ELSE db.todos[i]]]
    BY <1>5, <1>8, Zenon DEF SetTodo, TodoIds, put
  <2> QED
    BY <2>1
<1> HIDE DEF put
<1>10. todos \in Seq(AnyTodo) /\ DOMAIN todos = TodoIds(db)
  <2>1. todos \in [1..Len(db.todos) -> AnyTodo]
    BY <1>1, <1>2
  <2>2. DOMAIN todos = TodoIds(db)
    OBVIOUS
  <2> HIDE DEF todos
  <2> QED
    BY <1>1, <2>1, <2>2, SegmentIsSeq
<1>11. \A i \in TodoIds(db) : todos[i] = IF i = id THEN put ELSE db.todos[i]
  OBVIOUS
<1> HIDE DEF todos
<1>12. PICK new : new = SetTodo(db, id, row)
  OBVIOUS
<1>13. new = [todos |-> todos, lists |-> l, nextList |-> n, version |-> v + 1]
  BY <1>7, <1>9, <1>12
<1>14. new.todos = todos /\ new.lists = db.lists /\ new.version = db.version + 1
  BY <1>8, <1>13
<1>15. new \in TodoDb
  BY <1>1, <1>8, <1>10, <1>13 DEF TodoDb
<1>16. TodoIds(new) = TodoIds(db)
  BY <1>10, <1>14 DEF TodoIds
<1>17. TodosOK(new)
  BY <1>4, <1>11, <1>14, <1>15, <1>16 DEF TodosOK
<1>18. TodoStep(db, new)
  BY <1>3, <1>11, <1>14, <1>16, <1>17 DEF TodoStep
<1> QED
  BY <1>12, <1>18

\* A new todo at the end.
LEMMA CreateTodoStep ==
  ASSUME NEW db, TodosOK(db), NEW uuid \in Nat, NEW text \in Text,
         NEW due \in Due \cup {None}, NEW list \in DOMAIN db.lists \cup {Inbox0},
         NEW dev \in Device \cup {None}, NEW at \in Nat
  PROVE  TodoStep(db, CreateTodo(db, uuid, text, due, <<>>, list, dev, at))
<1>1. /\ db \in TodoDb /\ db.version \in Nat /\ Len(db.todos) \in Nat
      /\ TodoIds(db) = 1..Len(db.todos) /\ db.lists \in ListTable /\ db.nextList \in Nat
      /\ db.todos \in Seq(AnyTodo)
  BY TodoDbParts DEF TodosOK
<1> DEFINE row == [uuid |-> uuid, text |-> text, due |-> due, subtasks |-> <<>>,
                   list |-> list, completed |-> FALSE, completedAt |-> None,
                   created |-> at, updated |-> at, version |-> db.version + 1,
                   dev |-> dev, deleted |-> FALSE]
           todos == Append(db.todos, row)
<1>2. TodoOK(row, db.lists) /\ row.version = db.version + 1
  <2>1. list \in Nat
    BY <1>1, ListTableParts DEF Inbox0
  <2>2. <<>> \in Seq(Subtask) /\ UniqueIds(<<>>)
    BY DEF UniqueIds
  <2>3. row \in AnyTodo
    BY <1>1, <2>1, <2>2 DEF AnyTodo
  <2> QED
    BY <2>2, <2>3 DEF TodoOK
<1>3. PICK x : x = BumpTodos(db)
  OBVIOUS
<1>4. PICK t, l, n, v : db = [todos |-> t, lists |-> l, nextList |-> n, version |-> v]
  BY <1>1, TodoDbParts
<1>5. x = [todos |-> t, lists |-> l, nextList |-> n, version |-> v + 1]
  BY <1>3, <1>4, BumpTodosResult
<1>6. /\ db.todos = t /\ db.lists = l /\ db.nextList = n /\ db.version = v /\ x.todos = t
  BY <1>4, <1>5
<1>7. CreateTodo(db, uuid, text, due, <<>>, list, dev, at)
         = [x EXCEPT !.todos = Append(@, row)]
  BY <1>3 DEF CreateTodo
<1>8. CreateTodo(db, uuid, text, due, <<>>, list, dev, at) = [x EXCEPT !.todos = todos]
  BY <1>6, <1>7
<1> HIDE DEF row
<1>9. /\ todos \in Seq(AnyTodo) /\ Len(todos) = Len(db.todos) + 1
      /\ \A i \in 1..Len(db.todos) : todos[i] = db.todos[i]
      /\ todos[Len(db.todos) + 1] = row
  BY <1>1, <1>2, AppendProperties DEF TodoOK
<1> HIDE DEF todos
<1>10. PICK new : new = CreateTodo(db, uuid, text, due, <<>>, list, dev, at)
  OBVIOUS
<1>11. new = [todos |-> todos, lists |-> l, nextList |-> n, version |-> v + 1]
  BY <1>5, <1>8, <1>10
<1>12. new.todos = todos /\ new.lists = db.lists /\ new.version = db.version + 1
  BY <1>6, <1>11
<1>13. new \in TodoDb
  BY <1>1, <1>6, <1>9, <1>11 DEF TodoDb
<1>14. \A i \in TodoIds(new) : \/ i \in TodoIds(db) /\ new.todos[i] = db.todos[i]
                               \/ new.todos[i] = row
  <2>1. TodoIds(new) = 1..Len(todos)
    BY <1>12, <1>13, TodoDbParts
  <2> QED
    BY <1>1, <1>9, <1>12, <2>1
<1>15. TodosOK(new)
  BY <1>2, <1>12, <1>13, <1>14 DEF TodosOK
<1>16. TodoStep(db, new)
  BY <1>2, <1>12, <1>14, <1>15 DEF TodoStep
<1> QED
  BY <1>10, <1>16

\* What an update may be given: values of the right kind, None to leave a
\* column alone.
PatchOK(p, lists) ==
    /\ p.text \in Text \cup {None}
    /\ p.due \in Due \cup {None}
    /\ \/ p.subtasks = None
       \/ p.subtasks \in Seq(Subtask) /\ UniqueIds(p.subtasks)
    /\ p.list \in DOMAIN lists \cup {Inbox0, None}
    /\ p.completed \in BOOLEAN \cup {None}

\* The completion time follows the flag, whichever columns are given.
LEMMA PatchedTodoOK ==
  ASSUME NEW lists \in ListTable, NEW old, TodoOK(old, lists), NEW p, PatchOK(p, lists),
         NEW now \in Nat
  PROVE  TodoOK(PatchedTodo(old, p, now), lists)
<1> DEFINE text == Or(p.text, old.text)
           due == Or(p.due, old.due)
           subtasks == Or(p.subtasks, old.subtasks)
           list == Or(p.list, old.list)
           completed == Or(p.completed, old.completed)
           completedAt == IF completed = old.completed THEN old.completedAt
                          ELSE IF completed THEN now ELSE None
<1>1. old \in AnyTodo
  BY DEF TodoOK
<1>2. /\ old.text \in Text /\ old.due \in Due \cup {None} /\ old.subtasks \in Seq(Subtask)
      /\ old.list \in Nat /\ old.completed \in BOOLEAN /\ old.completedAt \in Nat \cup {None}
  BY <1>1 DEF AnyTodo
<1>3. text \in Text /\ due \in Due \cup {None}
  BY <1>2 DEF Or, PatchOK
<1>4. subtasks \in Seq(Subtask) /\ UniqueIds(subtasks)
  BY <1>2 DEF Or, PatchOK, TodoOK
<1>5. list \in DOMAIN lists \cup {Inbox0} /\ list \in Nat
  <2>1. list \in DOMAIN lists \cup {Inbox0}
    BY DEF Or, PatchOK, TodoOK
  <2> QED
    BY <2>1, ListTableParts DEF Inbox0
<1>6. completed \in BOOLEAN
  BY <1>2 DEF Or, PatchOK
<1>7. completedAt \in Nat \cup {None} /\ (completed <=> completedAt # None)
  <2> HIDE DEF completed
  <2> QED
    BY <1>2, <1>6, NullAssumption DEF TodoOK
<1>8. PatchedTodo(old, p, now)
         = [old EXCEPT !.text = text, !.due = due, !.subtasks = subtasks, !.list = list,
                       !.completed = completed, !.completedAt = completedAt,
                       !.updated = now]
  BY DEF PatchedTodo
<1> HIDE DEF text, due, subtasks, list, completed, completedAt
<1>9. PICK r1 : r1 = [old EXCEPT !.text = text]
  OBVIOUS
<1>10. PICK r2 : r2 = [r1 EXCEPT !.due = due]
  OBVIOUS
<1>11. PICK r3 : r3 = [r2 EXCEPT !.subtasks = subtasks]
  OBVIOUS
<1>12. PICK r4 : r4 = [r3 EXCEPT !.list = list]
  OBVIOUS
<1>13. PICK r5 : r5 = [r4 EXCEPT !.completed = completed]
  OBVIOUS
<1>14. PICK r6 : r6 = [r5 EXCEPT !.completedAt = completedAt]
  OBVIOUS
<1>15. PICK r7 : r7 = [r6 EXCEPT !.updated = now]
  OBVIOUS
<1>16. r1 \in AnyTodo /\ r2 \in AnyTodo
  BY <1>1, <1>3, <1>9, <1>10, TodoFields
<1>17. r3 \in AnyTodo /\ r4 \in AnyTodo
  BY <1>4, <1>5, <1>11, <1>12, <1>16, TodoFields
<1>18. r5 \in AnyTodo /\ r6 \in AnyTodo /\ r7 \in AnyTodo
  BY <1>6, <1>7, <1>13, <1>14, <1>15, <1>17, TodoFields
<1>19. /\ r3.subtasks = subtasks /\ r4.subtasks = r3.subtasks /\ r5.subtasks = r4.subtasks
       /\ r6.subtasks = r5.subtasks /\ r7.subtasks = r6.subtasks
  BY <1>11, <1>12, <1>13, <1>14, <1>15, <1>16, <1>17, <1>18 DEF AnyTodo
<1>20. r4.list = list /\ r5.list = r4.list /\ r6.list = r5.list /\ r7.list = r6.list
  BY <1>12, <1>13, <1>14, <1>15, <1>17, <1>18 DEF AnyTodo
<1>21. /\ r5.completed = completed /\ r6.completed = r5.completed /\ r7.completed = r6.completed
       /\ r6.completedAt = completedAt /\ r7.completedAt = r6.completedAt
  BY <1>13, <1>14, <1>15, <1>17, <1>18 DEF AnyTodo
<1>22. TodoOK(r7, lists)
  BY <1>4, <1>5, <1>7, <1>18, <1>19, <1>20, <1>21 DEF TodoOK
<1>23. r7 = [old EXCEPT !.text = text, !.due = due, !.subtasks = subtasks, !.list = list,
                        !.completed = completed, !.completedAt = completedAt,
                        !.updated = now]
  BY <1>9, <1>10, <1>11, <1>12, <1>13, <1>14, <1>15
<1> QED
  BY <1>8, <1>22, <1>23

\* PUT /todos/{id}.
LEMMA UpdateTodoStep ==
  ASSUME NEW db, TodosOK(db), NEW id, NEW p, PatchOK(p, db.lists), NEW now \in Nat
  PROVE  TodoStep(db, UpdateTodo(db, id, p, now))
<1>1. CASE id \notin TodoIds(db)
  BY <1>1, IdleTodoStep DEF UpdateTodo
<1>2. CASE id \in TodoIds(db)
  <2>1. db.lists \in ListTable /\ TodoOK(db.todos[id], db.lists)
    BY <1>2, TodoDbParts DEF TodosOK
  <2>2. TodoOK(PatchedTodo(db.todos[id], p, now), db.lists)
    BY <2>1, PatchedTodoOK
  <2>3. UpdateTodo(db, id, p, now) = SetTodo(db, id, PatchedTodo(db.todos[id], p, now))
    BY <1>2 DEF UpdateTodo, PatchedTodo
  <2> QED
    BY <2>2, <2>3, SetTodoStep
<1> QED
  BY <1>1, <1>2

\* DELETE, restore and the due date.
LEMMA FlagTodoStep ==
  ASSUME NEW db, TodosOK(db), NEW id
  PROVE  /\ TodoStep(db, DeleteTodo(db, id))
         /\ \A now \in Nat : TodoStep(db, RestoreTodo(db, id, now))
         /\ id \in TodoIds(db) =>
               \A due \in Due \cup {None}, now \in Nat :
                   TodoStep(db, SetTodoDue(db, id, due, now))
<1>1. CASE id \notin TodoIds(db)
  BY <1>1, IdleTodoStep DEF DeleteTodo, RestoreTodo
<1>2. CASE id \in TodoIds(db)
  <2>1. PICK old : old = db.todos[id]
    OBVIOUS
  <2>2. TodoOK(old, db.lists) /\ old \in AnyTodo
    BY <1>2, <2>1 DEF TodosOK, TodoOK
  <2>3. TodoOK([old EXCEPT !.deleted = TRUE], db.lists)
    <3>1. PICK r : r = [old EXCEPT !.deleted = TRUE]
      OBVIOUS
    <3>2. r \in AnyTodo
      BY <2>2, <3>1, TodoFields
    <3>3. /\ r.completed = old.completed /\ r.completedAt = old.completedAt
          /\ r.subtasks = old.subtasks /\ r.list = old.list
      BY <2>2, <3>1, <3>2 DEF AnyTodo
    <3> QED
      BY <2>2, <3>1, <3>2, <3>3 DEF TodoOK
  <2>4. ASSUME NEW now \in Nat
        PROVE  TodoOK([old EXCEPT !.deleted = FALSE, !.updated = now], db.lists)
    <3>1. PICK q : q = [old EXCEPT !.deleted = FALSE]
      OBVIOUS
    <3>2. PICK r : r = [q EXCEPT !.updated = now]
      OBVIOUS
    <3>3. q \in AnyTodo /\ r \in AnyTodo
      BY <2>2, <3>1, <3>2, TodoFields
    <3>4. /\ q.completed = old.completed /\ q.completedAt = old.completedAt
          /\ q.subtasks = old.subtasks /\ q.list = old.list
      BY <2>2, <3>1, <3>3 DEF AnyTodo
    <3>5. /\ r.completed = q.completed /\ r.completedAt = q.completedAt
          /\ r.subtasks = q.subtasks /\ r.list = q.list
      BY <3>2, <3>3 DEF AnyTodo
    <3>6. TodoOK(r, db.lists)
      BY <2>2, <3>3, <3>4, <3>5 DEF TodoOK
    <3>7. r = [old EXCEPT !.deleted = FALSE, !.updated = now]
      BY <3>1, <3>2
    <3> QED
      BY <3>6, <3>7
  <2>5. ASSUME NEW due \in Due \cup {None}, NEW now \in Nat
        PROVE  TodoOK([old EXCEPT !.due = due, !.updated = now], db.lists)
    <3>1. PICK q : q = [old EXCEPT !.due = due]
      OBVIOUS
    <3>2. PICK r : r = [q EXCEPT !.updated = now]
      OBVIOUS
    <3>3. q \in AnyTodo /\ r \in AnyTodo
      BY <2>2, <3>1, <3>2, TodoFields
    <3>4. /\ q.completed = old.completed /\ q.completedAt = old.completedAt
          /\ q.subtasks = old.subtasks /\ q.list = old.list
      BY <2>2, <3>1, <3>3 DEF AnyTodo
    <3>5. /\ r.completed = q.completed /\ r.completedAt = q.completedAt
          /\ r.subtasks = q.subtasks /\ r.list = q.list
      BY <3>2, <3>3 DEF AnyTodo
    <3>6. TodoOK(r, db.lists)
      BY <2>2, <3>3, <3>4, <3>5 DEF TodoOK
    <3>7. r = [old EXCEPT !.due = due, !.updated = now]
      BY <3>1, <3>2
    <3> QED
      BY <3>6, <3>7
  <2>6. TodoStep(db, DeleteTodo(db, id))
    BY <1>2, <2>1, <2>3, SetTodoStep DEF DeleteTodo
  <2>7. ASSUME NEW now \in Nat
        PROVE  TodoStep(db, RestoreTodo(db, id, now))
    BY <2>1, <2>4, SetTodoStep, IdleTodoStep DEF RestoreTodo
  <2>8. ASSUME NEW due \in Due \cup {None}, NEW now \in Nat
        PROVE  TodoStep(db, SetTodoDue(db, id, due, now))
    BY <2>1, <2>5, SetTodoStep DEF SetTodoDue
  <2> QED
    BY <2>6, <2>7, <2>8
<1> QED
  BY <1>1, <1>2

\* A new list and a new name: no todo's list goes away.
LEMMA ListStep ==
  ASSUME NEW db, TodosOK(db), NEW name \in ListName
  PROVE  /\ TodoStep(db, CreateList(db, name))
         /\ \A list : TodoStep(db, UpdateList(db, list, name))
<1>1. /\ db \in TodoDb /\ db.nextList \in Nat /\ db.lists \in ListTable
      /\ DOMAIN db.lists \in SUBSET Nat /\ db.lists \in [DOMAIN db.lists -> ListName]
      /\ db.todos \in Seq(AnyTodo) /\ db.version \in Nat
  BY TodoDbParts, ListTableParts DEF TodosOK
<1>2. PICK t, l, n, v : db = [todos |-> t, lists |-> l, nextList |-> n, version |-> v]
  BY <1>1, TodoDbParts
<1>3. db.todos = t /\ db.lists = l /\ db.nextList = n /\ db.version = v
  BY <1>2
\* More lists, the same todos: what both operations have in common.
<1>4. ASSUME NEW lists \in ListTable, DOMAIN db.lists \subseteq DOMAIN lists,
             NEW next \in Nat, NEW new,
             new = [todos |-> t, lists |-> lists, nextList |-> next, version |-> v]
      PROVE  TodoStep(db, new)
  <2>1. /\ new.todos = db.todos /\ new.lists = lists /\ new.version = db.version
        /\ TodoIds(new) = TodoIds(db)
    BY <1>3, <1>4 DEF TodoIds
  <2>2. new \in TodoDb
    BY <1>1, <1>3, <1>4 DEF TodoDb
  <2>3. TodosOK(new)
    BY <1>4, <2>1, <2>2 DEF TodosOK, TodoOK
  <2> QED
    BY <2>1, <2>3 DEF TodoStep
<1>5. TodoStep(db, CreateList(db, name))
  <2> DEFINE D == DOMAIN db.lists \cup {db.nextList}
             lists == [i \in D |-> IF i = db.nextList THEN name ELSE db.lists[i]]
  <2>1. lists \in [D -> ListName] /\ D \in SUBSET Nat /\ DOMAIN lists = D
    BY <1>1
  <2>2. CreateList(db, name) = [db EXCEPT !.nextList = @ + 1, !.lists = lists]
    BY DEF CreateList
  <2> HIDE DEF lists
  <2>3. lists \in ListTable /\ DOMAIN db.lists \subseteq DOMAIN lists
    BY <2>1, ListTableParts
  <2>4. PICK x : x = [db EXCEPT !.nextList = @ + 1]
    OBVIOUS
  <2>5. x = [todos |-> t, lists |-> l, nextList |-> n + 1, version |-> v]
    BY <1>2, <2>4
  <2>6. PICK new : new = [x EXCEPT !.lists = lists]
    OBVIOUS
  <2>7. new = [todos |-> t, lists |-> lists, nextList |-> n + 1, version |-> v]
    BY <2>5, <2>6
  <2>8. new = CreateList(db, name)
    BY <2>2, <2>4, <2>6
  <2> QED
    BY <1>1, <1>3, <1>4, <2>3, <2>7, <2>8, SMTT(20)
<1>6. ASSUME NEW list
      PROVE  TodoStep(db, UpdateList(db, list, name))
  <2>1. CASE list \notin DOMAIN db.lists
    BY <2>1, IdleTodoStep DEF UpdateList
  <2>2. CASE list \in DOMAIN db.lists
    <3> DEFINE lists == [db.lists EXCEPT ![list] = name]
    <3>1. lists \in [DOMAIN db.lists -> ListName] /\ DOMAIN lists = DOMAIN db.lists
      BY <1>1
    <3>2. UpdateList(db, list, name) = [db EXCEPT !.lists = lists]
      BY <2>2 DEF UpdateList
    <3> HIDE DEF lists
    <3>3. lists \in ListTable
      BY <1>1, <3>1, ListTableParts
    <3>4. PICK new : new = [db EXCEPT !.lists = lists]
      OBVIOUS
    <3>5. new = [todos |-> t, lists |-> lists, nextList |-> n, version |-> v]
      BY <1>2, <3>4
    <3> QED
      BY <1>1, <1>3, <1>4, <3>1, <3>2, <3>3, <3>4, <3>5
  <2> QED
    BY <2>1, <2>2
<1> QED
  BY <1>5, <1>6

\* The todos of a deleted list go back to the inbox, the deleted todos too.
LEMMA DeleteListStep ==
  ASSUME NEW db, TodosOK(db), NEW list
  PROVE  TodoStep(db, DeleteList(db, list))
<1>1. /\ db \in TodoDb /\ db.nextList \in Nat /\ db.lists \in ListTable
      /\ DOMAIN db.lists \in SUBSET Nat /\ db.lists \in [DOMAIN db.lists -> ListName]
      /\ Len(db.todos) \in Nat /\ TodoIds(db) = 1..Len(db.todos) /\ db.version \in Nat
  BY TodoDbParts, ListTableParts DEF TodosOK
<1>2. PICK t, l, n, v : db = [todos |-> t, lists |-> l, nextList |-> n, version |-> v]
  BY <1>1, TodoDbParts
<1>3. db.todos = t /\ db.lists = l /\ db.nextList = n /\ db.version = v
  BY <1>2
<1> DEFINE lists == [x \in DOMAIN db.lists \ {list} |-> db.lists[x]]
           moved(i) == [db.todos[i] EXCEPT !.list = Inbox0]
           todos == [i \in TodoIds(db) |->
                        IF db.todos[i].list = list THEN moved(i) ELSE db.todos[i]]
<1>4. DeleteList(db, list) = [db EXCEPT !.todos = todos, !.lists = lists]
  BY DEF DeleteList, TodoIds, Restrict
<1>5. lists \in [DOMAIN db.lists \ {list} -> ListName] /\ DOMAIN lists = DOMAIN db.lists \ {list}
  BY <1>1
<1> HIDE DEF lists
<1>6. lists \in ListTable
  BY <1>1, <1>5, ListTableParts
<1>7. ASSUME NEW i \in TodoIds(db)
      PROVE  TodoOK(todos[i], lists)
  <2>1. PICK old : old = db.todos[i]
    OBVIOUS
  <2>2. TodoOK(old, db.lists) /\ old \in AnyTodo
    BY <2>1 DEF TodosOK, TodoOK
  <2>3. CASE old.list = list
    <3>1. PICK r : r = [old EXCEPT !.list = Inbox0]
      OBVIOUS
    <3>2. r \in AnyTodo
      BY <2>2, <3>1, TodoFields DEF Inbox0
    <3>3. /\ r.completed = old.completed /\ r.completedAt = old.completedAt
          /\ r.subtasks = old.subtasks /\ r.list = Inbox0
      BY <2>2, <3>1, <3>2 DEF AnyTodo
    <3>4. TodoOK(r, lists)
      BY <2>2, <3>2, <3>3 DEF TodoOK
    <3> QED
      BY <2>1, <2>3, <3>1, <3>4
  <2>4. CASE old.list # list
    <3>1. TodoOK(old, lists)
      BY <1>5, <2>2, <2>4 DEF TodoOK
    <3> QED
      BY <2>1, <2>4, <3>1
  <2> QED
    BY <2>3, <2>4
<1>8. \A i \in TodoIds(db) : todos[i] = db.todos[i] \/ todos[i] = moved(i)
  OBVIOUS
<1>9. DOMAIN todos = TodoIds(db)
  OBVIOUS
<1>10. todos \in Seq(AnyTodo)
  <2> DEFINE row(i) == IF db.todos[i].list = list THEN moved(i) ELSE db.todos[i]
  <2>1. \A i \in TodoIds(db) : row(i) \in AnyTodo
    BY <1>7 DEF TodoOK
  <2> HIDE DEF row
  <2>2. [i \in TodoIds(db) |-> row(i)] \in [1..Len(db.todos) -> AnyTodo]
    BY <1>1, <2>1
  <2>3. todos \in [1..Len(db.todos) -> AnyTodo]
    BY <2>2 DEF row
  <2> HIDE DEF todos
  <2> QED
    BY <1>1, <2>3, SegmentIsSeq
<1> HIDE DEF todos
<1>11. PICK x : x = [db EXCEPT !.todos = todos]
  OBVIOUS
<1>12. x = [todos |-> todos, lists |-> l, nextList |-> n, version |-> v]
  BY <1>2, <1>11
<1>13. PICK new : new = [x EXCEPT !.lists = lists]
  OBVIOUS
<1>14. new = [todos |-> todos, lists |-> lists, nextList |-> n, version |-> v]
  BY <1>12, <1>13
<1>15. new = DeleteList(db, list)
  BY <1>4, <1>11, <1>13
<1>16. new.todos = todos /\ new.lists = lists /\ new.version = db.version
  BY <1>3, <1>14
<1>17. new \in TodoDb
  BY <1>1, <1>3, <1>6, <1>10, <1>14 DEF TodoDb
<1>18. TodoIds(new) = TodoIds(db)
  BY <1>9, <1>16 DEF TodoIds
<1>19. TodosOK(new)
  BY <1>7, <1>16, <1>17, <1>18 DEF TodosOK
<1>20. TodoStep(db, new)
  BY <1>1, <1>8, <1>16, <1>18, <1>19 DEF TodoStep
<1> QED
  BY <1>15, <1>20

\* The patches the routes build.
LEMMA Patches ==
  ASSUME NEW lists
  PROVE  /\ \A x \in Text \cup {None}, l \in DOMAIN lists \cup {Inbox0, None},
               c \in BOOLEAN \cup {None} :
               PatchOK([NoChange EXCEPT !.text = x, !.list = l, !.completed = c], lists)
         /\ \A subs \in Seq(Subtask) :
               UniqueIds(subs) => PatchOK([NoChange EXCEPT !.subtasks = subs], lists)
         /\ \A l \in DOMAIN lists \cup {Inbox0} :
               PatchOK([NoChange EXCEPT !.list = l], lists)
<1>1. ASSUME NEW x \in Text \cup {None}, NEW l \in DOMAIN lists \cup {Inbox0, None},
             NEW c \in BOOLEAN \cup {None}
      PROVE  PatchOK([NoChange EXCEPT !.text = x, !.list = l, !.completed = c], lists)
  <2>1. PICK p : p = [NoChange EXCEPT !.text = x, !.list = l, !.completed = c]
    OBVIOUS
  <2>2. /\ p.text = x /\ p.due = None /\ p.subtasks = None /\ p.list = l
        /\ p.completed = c
    BY <2>1 DEF NoChange
  <2> QED
    BY <2>1, <2>2 DEF PatchOK
<1>2. ASSUME NEW subs \in Seq(Subtask), UniqueIds(subs)
      PROVE  PatchOK([NoChange EXCEPT !.subtasks = subs], lists)
  <2>1. PICK p : p = [NoChange EXCEPT !.subtasks = subs]
    OBVIOUS
  <2>2. /\ p.text = None /\ p.due = None /\ p.subtasks = subs /\ p.list = None
        /\ p.completed = None
    BY <2>1 DEF NoChange
  <2> QED
    BY <1>2, <2>1, <2>2 DEF PatchOK
<1>3. ASSUME NEW l \in DOMAIN lists \cup {Inbox0}
      PROVE  PatchOK([NoChange EXCEPT !.list = l], lists)
  <2>1. PICK p : p = [NoChange EXCEPT !.list = l]
    OBVIOUS
  <2>2. /\ p.text = None /\ p.due = None /\ p.subtasks = None /\ p.list = l
        /\ p.completed = None
    BY <2>1 DEF NoChange
  <2> QED
    BY <2>1, <2>2 DEF PatchOK
<1> QED
  BY <1>1, <1>2, <1>3

\* The largest id plus one is an id that no subtask has.
LEMMA NewSubtaskId ==
  ASSUME NEW subs \in Seq(Subtask)
  PROVE  LET next == Max({0} \cup {subs[k].id : k \in DOMAIN subs}) + 1
         IN  next \in Nat /\ \A k \in DOMAIN subs : subs[k].id # next
<1> DEFINE ids == {subs[k].id : k \in DOMAIN subs}
           all == {0} \cup ids
<1>1. /\ DOMAIN subs = 1..Len(subs) /\ Len(subs) \in Nat /\ IsFiniteSet(DOMAIN subs)
      /\ \A k \in DOMAIN subs : subs[k] \in Subtask
  BY Positions
<1>2. \A k \in DOMAIN subs : subs[k].id \in Nat
  BY <1>1 DEF Subtask
<1>3. all \in SUBSET Nat /\ all # {}
  BY <1>2
<1>4. IsFiniteSet(all)
  <2>1. IsFiniteSet(ids)
    <3> DEFINE f == [k \in DOMAIN subs |-> subs[k].id]
    <3>1. f \in Surjection(DOMAIN subs, ids)
      BY DEF Surjection
    <3> HIDE DEF f, ids
    <3> QED
      BY <1>1, <3>1, FS_Surjection
  <2>2. all = ids \cup {0}
    OBVIOUS
  <2> HIDE DEF ids, all
  <2> QED
    BY <2>1, <2>2, FS_AddElement
<1> HIDE DEF all
<1>5. \E x \in all : \A y \in all : x >= y
  BY <1>3, <1>4, LatestExists
<1>6. Max(all) \in all /\ \A y \in all : Max(all) >= y
  BY <1>5 DEF Max
<1>7. Max(all) + 1 \in Nat /\ \A y \in all : y # Max(all) + 1
  <2>1. PICK m : m = Max(all)
    OBVIOUS
  <2>2. m \in Nat /\ \A y \in all : y \in Nat /\ y <= m
    BY <1>3, <1>6, <2>1
  <2>3. m + 1 \in Nat /\ \A y \in all : y # m + 1
    BY <2>2
  <2> QED
    BY <2>1, <2>3
<1>8. \A k \in DOMAIN subs : subs[k].id \in all
  BY DEF all
<1> QED
  BY <1>7, <1>8 DEF all

\* The subtask instructions keep the ids of a todo's subtasks apart.
LEMMA SubtaskStep ==
  ASSUME NEW db, TodosOK(db), NEW id \in TodoIds(db), NEW now \in Nat
  PROVE  /\ TodoStep(db, BatchAddSubtask(db, id, now))
         /\ \A sub \in Nat : TodoStep(db, BatchRemoveSubtask(db, id, sub, now))
         /\ \A sub \in Nat, done \in BOOLEAN :
               TodoStep(db, BatchSetSubtask(db, id, sub, done, now))
<1>1. PICK subs : subs = db.todos[id].subtasks
  OBVIOUS
<1>2. subs \in Seq(Subtask) /\ UniqueIds(subs)
  BY <1>1 DEF TodosOK, TodoOK, AnyTodo
<1>3. /\ DOMAIN subs = 1..Len(subs) /\ Len(subs) \in Nat /\ DOMAIN subs \in SUBSET Nat
      /\ \A k \in DOMAIN subs : subs[k] \in Subtask
  BY <1>2, Positions
<1>4. ASSUME NEW other \in Seq(Subtask), UniqueIds(other)
      PROVE  TodoStep(db, WithSubtasks(db, id, other, now))
  BY <1>4, Patches, UpdateTodoStep DEF WithSubtasks
<1>5. TodoStep(db, BatchAddSubtask(db, id, now))
  <2> DEFINE next == Max({0} \cup {subs[k].id : k \in DOMAIN subs}) + 1
             row == [id |-> next, done |-> FALSE]
             other == Append(subs, row)
  <2>1. next \in Nat /\ \A k \in DOMAIN subs : subs[k].id # next
    BY <1>2, NewSubtaskId
  <2>2. BatchAddSubtask(db, id, now) = WithSubtasks(db, id, other, now)
    BY <1>1 DEF BatchAddSubtask
  <2> HIDE DEF next
  <2>3. row \in Subtask /\ row.id = next
    BY <2>1 DEF Subtask
  <2> HIDE DEF row
  <2>4. /\ other \in Seq(Subtask) /\ Len(other) = Len(subs) + 1
        /\ \A k \in 1..Len(subs) : other[k] = subs[k]
        /\ other[Len(subs) + 1] = row
    BY <1>2, <2>3, AppendProperties
  <2> HIDE DEF other
  <2>5. DOMAIN other = 1..(Len(subs) + 1)
    BY <1>3, <2>4, Positions
  <2>6. UniqueIds(other)
    BY <1>2, <1>3, <2>1, <2>3, <2>4, <2>5 DEF UniqueIds
  <2> QED
    BY <1>4, <2>2, <2>4, <2>6
<1>6. ASSUME NEW sub \in Nat
      PROVE  TodoStep(db, BatchRemoveSubtask(db, id, sub, now))
  <2> DEFINE others == {k \in DOMAIN subs : subs[k].id # sub}
             other == Subsequence(subs, others)
  <2>1. others \in SUBSET DOMAIN subs
    OBVIOUS
  <2>2. BatchRemoveSubtask(db, id, sub, now) = WithSubtasks(db, id, other, now)
    BY <1>1 DEF BatchRemoveSubtask
  <2> HIDE DEF others
  <2>3. /\ other \in Seq(Subtask)
        /\ \A k \in DOMAIN other : Nth(others, k) \in others /\ other[k] = subs[Nth(others, k)]
        /\ \A k, l \in DOMAIN other : Nth(others, k) = Nth(others, l) => k = l
    BY <1>2, <2>1, SubsequenceElements
  <2> HIDE DEF other
  <2>4. UniqueIds(other)
    BY <1>2, <2>1, <2>3 DEF UniqueIds
  <2> QED
    BY <1>4, <2>2, <2>3, <2>4
<1>7. ASSUME NEW sub \in Nat, NEW done \in BOOLEAN
      PROVE  TodoStep(db, BatchSetSubtask(db, id, sub, done, now))
  <2> DEFINE row(k) == IF subs[k].id = sub THEN [subs[k] EXCEPT !.done = done] ELSE subs[k]
             other == [k \in DOMAIN subs |-> row(k)]
  <2>1. \A k \in DOMAIN subs : row(k) \in Subtask /\ row(k).id = subs[k].id
    <3> TAKE k \in DOMAIN subs
    <3>1. PICK old : old = subs[k]
      OBVIOUS
    <3>2. old \in Subtask
      BY <1>3, <3>1
    <3>3. [old EXCEPT !.done = done] \in Subtask /\ [old EXCEPT !.done = done].id = old.id
      BY <3>2 DEF Subtask
    <3> QED
      BY <3>1, <3>2, <3>3
  <2>2. \/ BatchSetSubtask(db, id, sub, done, now) = WithSubtasks(db, id, other, now)
        \/ BatchSetSubtask(db, id, sub, done, now) = db
    BY <1>1 DEF BatchSetSubtask
  <2> HIDE DEF row
  <2>3. other \in [1..Len(subs) -> Subtask]
    BY <1>3, <2>1
  <2>4. \A k \in DOMAIN subs : other[k].id = subs[k].id
    BY <2>1
  <2> HIDE DEF other
  <2>5. other \in Seq(Subtask) /\ DOMAIN other = DOMAIN subs
    BY <1>3, <2>3, SegmentIsSeq
  <2>6. UniqueIds(other)
    BY <1>2, <2>4, <2>5 DEF UniqueIds
  <2> QED
    BY <1>4, <2>2, <2>5, <2>6, IdleTodoStep
<1> QED
  BY <1>5, <1>6, <1>7

\* A move goes to the list that is named, when there is one.
LEMMA MoveStep ==
  ASSUME NEW db, TodosOK(db), NEW id \in TodoIds(db), NEW now \in Nat,
         NEW list \in DOMAIN db.lists \cup {Inbox0, None}, NEW name
  PROVE  TodoStep(db, BatchMove(db, id, list, name, now))
<1> DEFINE to == IF list # None THEN list
                 ELSE IF name # None THEN ListByName(db, name) ELSE None
<1>1. ListByName(db, name) \in DOMAIN db.lists \cup {Inbox0, None}
  BY DEF ListByName
<1>2. to \in DOMAIN db.lists \cup {Inbox0, None}
  BY <1>1
<1>3. BatchMove(db, id, list, name, now)
         = IF to = None THEN db ELSE UpdateTodo(db, id, [NoChange EXCEPT !.list = to], now)
  BY DEF BatchMove
<1> HIDE DEF to
<1>4. CASE to = None
  BY <1>3, <1>4, IdleTodoStep
<1>5. CASE to # None
  <2>1. PatchOK([NoChange EXCEPT !.list = to], db.lists)
    BY <1>2, <1>5, Patches
  <2> QED
    BY <1>3, <1>5, <2>1, UpdateTodoStep
<1> QED
  BY <1>4, <1>5

-----------------------------------------------------------------------------
(* The inductive invariant, and what it implies                            *)

InboxInv ==
    /\ NotesOK(notesDb) /\ notesDb.version <= MaxNoteVersion
    /\ TodosOK(todoDb) /\ todoDb.version <= MaxTodoVersion
    /\ NoContentLost

\* What any action does: it commits a step of one database or of the other.
Committed ==
    \/ \E db : NoteStep(notesDb, db) /\ CommitNotes(db)
    \/ \E db : TodoStep(todoDb, db) /\ CommitTodos(db)

\* Two empty databases, and nothing written.
LEMMA InboxInit == Init => InboxInv
<1> SUFFICES ASSUME Init PROVE InboxInv
  OBVIOUS
<1>1. NotesOK(notesDb) /\ notesDb.version = 0
  <2>1. /\ notesDb.notes = <<>> /\ notesDb.history = {} /\ notesDb.relations = {}
        /\ notesDb.version = 0 /\ NoteIds(notesDb) = {}
    BY DEF Init, EmptyNotes, NoteIds
  <2>2. notesDb \in NoteDb
    BY DEF Init, EmptyNotes, NoteDb
  <2> QED
    BY <2>1, <2>2 DEF NotesOK
<1>2. TodosOK(todoDb) /\ todoDb.version = 0
  <2>1. /\ todoDb.todos = <<>> /\ todoDb.version = 0 /\ TodoIds(todoDb) = {}
        /\ todoDb = [todos |-> <<>>, lists |-> <<>>, nextList |-> 1, version |-> 0]
    BY DEF Init, EmptyTodos, TodoIds
  <2>2. <<>> \in ListTable
    <3>1. <<>> \in [{} -> ListName] /\ {} \in SUBSET Nat
      OBVIOUS
    <3> QED
      BY <3>1 DEF ListTable
  <2>3. <<>> \in Seq(AnyTodo)
    OBVIOUS
  <2>4. todoDb \in TodoDb
    BY <2>1, <2>2, <2>3 DEF TodoDb
  <2> QED
    BY <2>1, <2>4 DEF TodosOK
<1>3. NoContentLost
  BY DEF Init, NoContentLost
<1> QED
  BY <1>1, <1>2, <1>3, InboxAssumption DEF InboxInv

\* Each action of the routes is such a commit.
LEMMA RoutesCommit ==
  ASSUME InboxInv, Next
  PROVE  Committed
<1>1. /\ NotesOK(notesDb) /\ notesDb \in NoteDb
      /\ TodosOK(todoDb) /\ todoDb \in TodoDb
  BY DEF InboxInv, NotesOK, TodosOK
<1>2. NewNote \in Nat /\ NoteNow \in Nat /\ NewTodo \in Nat /\ TodoNow \in Nat
  BY <1>1, NoteDbParts, TodoDbParts DEF NewNote, NoteNow, NewTodo, TodoNow
<1>3. CASE CreateNoteRoute
  <2>1. PICK c \in Content, ts \in TagSet, d \in Device \cup {None} :
           CommitNotes(CreateNote(notesDb, NewNote, c, ts, d, NoteNow))
    BY <1>3 DEF CreateNoteRoute
  <2>2. NoteStep(notesDb, CreateNote(notesDb, NewNote, c, ts, d, NoteNow))
    BY <1>1, <1>2, GivenTags, CreateNoteStep
  <2> QED
    BY <2>1, <2>2 DEF Committed
<1>4. CASE UpdateNoteRoute
  <2>1. PICK i \in NoteArg, c \in Content, ts \in TagSet, d \in Device \cup {None} :
           CommitNotes(UpdateNote(notesDb, i, c, ts, d, NoteNow))
    BY <1>4 DEF UpdateNoteRoute
  <2>2. NoteStep(notesDb, UpdateNote(notesDb, i, c, ts, d, NoteNow))
    BY <1>1, <1>2, GivenTags, UpdateNoteStep
  <2> QED
    BY <2>1, <2>2 DEF Committed
<1>5. CASE DeleteNoteRoute
  BY <1>1, <1>2, <1>5, DeleteRestoreStep DEF DeleteNoteRoute, Committed
<1>6. CASE RestoreNoteRoute
  BY <1>1, <1>2, <1>6, DeleteRestoreStep DEF RestoreNoteRoute, Committed
<1>7. CASE CreateRelationRoute
  BY <1>1, <1>7, RelateStep DEF CreateRelationRoute, Committed
<1>8. CASE AddCommentRoute
  BY <1>1, <1>2, <1>8, RelateStep DEF AddCommentRoute, Committed
<1>9. CASE BatchNoteRoute
  <2>0. PICK i \in NoteArg, u \in NoteArg \cup {None}, d \in Device :
           /\ NoteRef(notesDb, i, u) # None
           /\ \/ \E c \in Content \cup {None}, ts \in TagSet \cup {None} :
                     CommitNotes(BatchUpdateNote(notesDb, NoteRef(notesDb, i, u), c, ts, d, NoteNow))
              \/ \E action \in {"add_tags", "remove_tags", "set_tags"}, ts \in TagSet :
                     CommitNotes(BatchNoteTags(notesDb, NoteRef(notesDb, i, u), action, ts, d, NoteNow))
    BY <1>9 DEF BatchNoteRoute
  <2>1. PICK id :
           /\ id = NoteRef(notesDb, i, u) /\ id # None
           /\ \/ \E c \in Content \cup {None}, ts \in TagSet \cup {None} :
                     CommitNotes(BatchUpdateNote(notesDb, id, c, ts, d, NoteNow))
              \/ \E action \in {"add_tags", "remove_tags", "set_tags"}, ts \in TagSet :
                     CommitNotes(BatchNoteTags(notesDb, id, action, ts, d, NoteNow))
    BY <2>0
  <2>2. id \in NoteIds(notesDb)
    BY <2>1 DEF NoteRef
  <2>3. /\ \A c \in Content \cup {None}, ts \in TagSet \cup {None} :
              NoteStep(notesDb, BatchUpdateNote(notesDb, id, c, ts, d, NoteNow))
        /\ \A action \in {"add_tags", "remove_tags", "set_tags"}, ts \in TagSet :
              NoteStep(notesDb, BatchNoteTags(notesDb, id, action, ts, d, NoteNow))
    BY <1>1, <1>2, <2>2, BatchNoteStep
  <2> QED
    BY <2>1, <2>3 DEF Committed
<1>10. CASE CreateTodoRoute
  <2>1. PICK x \in Text, due \in Due \cup {None}, l \in Lists, d \in Device \cup {None} :
           CommitTodos(CreateTodo(todoDb, NewTodo, x, due, <<>>, l, d, TodoNow))
    BY <1>10 DEF CreateTodoRoute
  <2>2. TodoStep(todoDb, CreateTodo(todoDb, NewTodo, x, due, <<>>, l, d, TodoNow))
    BY <1>1, <1>2, CreateTodoStep DEF Lists
  <2> QED
    BY <2>1, <2>2 DEF Committed
<1>11. CASE UpdateTodoRoute
  <2>0. PICK i \in TodoArg, x \in Text \cup {None}, l \in Lists \cup {None},
             c \in BOOLEAN \cup {None} :
           CommitTodos(UpdateTodo(todoDb, i,
               [NoChange EXCEPT !.text = x, !.list = l, !.completed = c], TodoNow))
    BY <1>11 DEF UpdateTodoRoute
  <2>1. PICK p :
           /\ p = [NoChange EXCEPT !.text = x, !.list = l, !.completed = c]
           /\ CommitTodos(UpdateTodo(todoDb, i, p, TodoNow))
    BY <2>0
  <2>2. PatchOK(p, todoDb.lists)
    BY <2>1, Patches DEF Lists
  <2>3. TodoStep(todoDb, UpdateTodo(todoDb, i, p, TodoNow))
    BY <1>1, <1>2, <2>2, UpdateTodoStep
  <2> QED
    BY <2>1, <2>3 DEF Committed
<1>12. CASE DeleteTodoRoute
  BY <1>1, <1>12, FlagTodoStep DEF DeleteTodoRoute, Committed
<1>13. CASE RestoreTodoRoute
  BY <1>1, <1>2, <1>13, FlagTodoStep DEF RestoreTodoRoute, Committed
<1>14. CASE CreateListRoute
  BY <1>1, <1>14, ListStep DEF CreateListRoute, Committed
<1>15. CASE UpdateListRoute
  BY <1>1, <1>15, ListStep DEF UpdateListRoute, Committed
<1>16. CASE DeleteListRoute
  BY <1>1, <1>16, DeleteListStep DEF DeleteListRoute, Committed
<1>17. CASE BatchTodoRoute
  <2>0. PICK i \in TodoArg, u \in TodoArg \cup {None} :
           /\ TodoRef(todoDb, i, u) # None
           /\ \/ \E due \in Due \cup {None} :
                     CommitTodos(SetTodoDue(todoDb, TodoRef(todoDb, i, u), due, TodoNow))
              \/ CommitTodos(BatchAddSubtask(todoDb, TodoRef(todoDb, i, u), TodoNow))
              \/ \E s \in 1..MaxSubtasks :
                     CommitTodos(BatchRemoveSubtask(todoDb, TodoRef(todoDb, i, u), s, TodoNow))
              \/ \E s \in 1..MaxSubtasks, done \in BOOLEAN :
                     CommitTodos(BatchSetSubtask(todoDb, TodoRef(todoDb, i, u), s, done, TodoNow))
              \/ \E l \in Lists \cup {None}, n \in ListName \cup {None, "inbox"} :
                     CommitTodos(BatchMove(todoDb, TodoRef(todoDb, i, u), l, n, TodoNow))
    BY <1>17 DEF BatchTodoRoute
  <2>1. PICK id :
           /\ id = TodoRef(todoDb, i, u) /\ id # None
           /\ \/ \E due \in Due \cup {None} :
                     CommitTodos(SetTodoDue(todoDb, id, due, TodoNow))
              \/ CommitTodos(BatchAddSubtask(todoDb, id, TodoNow))
              \/ \E s \in 1..MaxSubtasks :
                     CommitTodos(BatchRemoveSubtask(todoDb, id, s, TodoNow))
              \/ \E s \in 1..MaxSubtasks, done \in BOOLEAN :
                     CommitTodos(BatchSetSubtask(todoDb, id, s, done, TodoNow))
              \/ \E l \in Lists \cup {None}, n \in ListName \cup {None, "inbox"} :
                     CommitTodos(BatchMove(todoDb, id, l, n, TodoNow))
    BY <2>0
  <2>2. id \in TodoIds(todoDb)
    BY <2>1 DEF TodoRef
  <2>3. \A due \in Due \cup {None} : TodoStep(todoDb, SetTodoDue(todoDb, id, due, TodoNow))
    BY <1>1, <1>2, <2>2, FlagTodoStep
  <2>4. /\ TodoStep(todoDb, BatchAddSubtask(todoDb, id, TodoNow))
        /\ \A s \in Nat : TodoStep(todoDb, BatchRemoveSubtask(todoDb, id, s, TodoNow))
        /\ \A s \in Nat, done \in BOOLEAN :
              TodoStep(todoDb, BatchSetSubtask(todoDb, id, s, done, TodoNow))
    BY <1>1, <1>2, <2>2, SubtaskStep
  <2>5. \A n : \A l \in Lists \cup {None} :
           TodoStep(todoDb, BatchMove(todoDb, id, l, n, TodoNow))
    BY <1>1, <1>2, <2>2, MoveStep DEF Lists
  <2>6. \A s \in 1..MaxSubtasks : s \in Nat
    OBVIOUS
  <2> QED
    BY <2>1, <2>3, <2>4, <2>5, <2>6 DEF Committed
<1> QED
  BY <1>3, <1>4, <1>5, <1>6, <1>7, <1>8, <1>9, <1>10, <1>11, <1>12, <1>13, <1>14,
     <1>15, <1>16, <1>17 DEF Next

\* A step of the notes loses nothing that was written, and what it stores is
\* stored.
LEMMA NoteStepKeeps ==
  ASSUME NEW db, NoteStep(notesDb, db), NotesOK(notesDb), NoContentLost,
         notesDb' = db, written' = written \cup Stored(db)
  PROVE  NoContentLost'
<1> SUFFICES ASSUME NEW w \in written \cup Stored(db)
             PROVE  \/ w \in Stored(db)
                    \/ \E h \in db.history :
                          <<db.notes[h.note].uuid, h.content, h.tags>> = w
  BY DEF NoContentLost, Stored
<1>1. CASE w \in Stored(db)
  BY <1>1
<1>2. CASE w \in Stored(notesDb)
  <2>1. PICK i \in NoteIds(notesDb) :
           w = <<notesDb.notes[i].uuid, notesDb.notes[i].content, notesDb.notes[i].tags>>
    BY <1>2 DEF Stored
  <2>2. i \in NoteIds(db) /\ db.notes[i].uuid = notesDb.notes[i].uuid
    BY DEF NoteStep
  <2>3. CASE /\ db.notes[i].content = notesDb.notes[i].content
             /\ db.notes[i].tags = notesDb.notes[i].tags
    BY <2>1, <2>2, <2>3 DEF Stored
  <2>4. CASE Current(notesDb, i) \in db.history
    <3>1. PICK h \in db.history : h = Current(notesDb, i)
      BY <2>4
    <3>2. /\ h.note = i /\ h.content = notesDb.notes[i].content
          /\ h.tags = notesDb.notes[i].tags
      BY <3>1 DEF Current
    <3> QED
      BY <2>1, <2>2, <3>2
  <2> QED
    BY <2>3, <2>4 DEF NoteStep
<1>3. CASE \E h \in notesDb.history :
              <<notesDb.notes[h.note].uuid, h.content, h.tags>> = w
  <2>1. PICK h \in notesDb.history :
              <<notesDb.notes[h.note].uuid, h.content, h.tags>> = w
    BY <1>3
  <2>2. h \in db.history /\ db.notes[h.note].uuid = notesDb.notes[h.note].uuid
    BY DEF NoteStep, NotesOK
  <2> QED
    BY <2>1, <2>2
<1> QED
  BY <1>1, <1>2, <1>3 DEF NoContentLost

\* Every step keeps the invariant.
LEMMA InboxStep == InboxInv /\ [Next]_vars => InboxInv'
<1> SUFFICES ASSUME InboxInv, [Next]_vars PROVE InboxInv'
  OBVIOUS
<1>1. CASE UNCHANGED vars
  BY <1>1 DEF vars, InboxInv, NoContentLost, Stored
<1>2. ASSUME NEW db, NoteStep(notesDb, db), CommitNotes(db)
      PROVE  InboxInv'
  <2>1. notesDb' = db /\ todoDb' = todoDb /\ written' = written \cup Stored(db)
    BY <1>2 DEF CommitNotes
  <2>2. NotesOK(db)
    BY <1>2, NoteStepOK DEF InboxInv
  <2>3. db.version <= MaxNoteVersion
    <3>1. notesDb.version \in Nat /\ notesDb.version < MaxNoteVersion
      BY <1>2, NoteDbParts DEF InboxInv, NotesOK, CommitNotes
    <3> QED
      BY <1>2, <3>1, InboxAssumption DEF NoteStep
  <2>4. NoContentLost'
    BY <1>2, <2>1, NoteStepKeeps DEF InboxInv
  <2> QED
    BY <2>1, <2>2, <2>3, <2>4 DEF InboxInv
<1>3. ASSUME NEW db, TodoStep(todoDb, db), CommitTodos(db)
      PROVE  InboxInv'
  <2>1. todoDb' = db /\ notesDb' = notesDb /\ written' = written
    BY <1>3 DEF CommitTodos
  <2>2. TodosOK(db)
    BY <1>3 DEF TodoStep
  <2>3. db.version <= MaxTodoVersion
    <3>1. todoDb.version \in Nat /\ todoDb.version < MaxTodoVersion
      BY <1>3, TodoDbParts DEF InboxInv, TodosOK, CommitTodos
    <3> QED
      BY <1>3, <3>1, InboxAssumption DEF TodoStep
  <2>4. NoContentLost'
    BY <2>1 DEF NoContentLost, InboxInv, Stored
  <2> QED
    BY <2>1, <2>2, <2>3, <2>4 DEF InboxInv
<1> QED
  BY <1>1, <1>2, <1>3, RoutesCommit DEF Committed

\* The databases are well formed in every reachable state: the invariant the
\* theorems below are read off.
THEOREM InboxInvariance == Spec => []InboxInv
BY InboxInit, InboxStep, PTL DEF Spec

\* Nothing a client stored in a note is ever lost by the routes: it is the
\* note's content or a snapshot in its history.
THEOREM NothingStoredIsLost == Spec => []NoContentLost
<1>1. InboxInv => NoContentLost
  BY DEF InboxInv
<1> QED
  BY <1>1, InboxInvariance, PTL

\* The databases have the types of their tables, relations join notes that
\* exist, and no note carries a version that was not handed out.
THEOREM InboxTypeCorrectness == Spec => []InboxTypeOK
<1>1. InboxInv => InboxTypeOK
  <2> SUFFICES ASSUME InboxInv PROVE InboxTypeOK
    OBVIOUS
  <2>1. /\ notesDb \in NoteDb /\ notesDb.version \in Nat
        /\ todoDb \in TodoDb /\ todoDb.version \in Nat
    BY NoteDbParts, TodoDbParts DEF InboxInv, NotesOK, TodosOK
  <2>2. notesDb.version \in 0..MaxNoteVersion /\ todoDb.version \in 0..MaxTodoVersion
    BY <2>1, InboxAssumption DEF InboxInv
  <2>3. ASSUME NEW i \in NoteIds(notesDb)
        PROVE  notesDb.notes[i] \in NoteType
    <3>1. PICK row : row = notesDb.notes[i]
      OBVIOUS
    <3>2. row \in AnyNote /\ row.version \in 1..notesDb.version
      BY <2>1, <3>1, NoteDbParts DEF InboxInv, NotesOK
    <3>3. row \in NoteType
      BY <3>2 DEF AnyNote, AnyTags, NoteType
    <3> QED
      BY <3>1, <3>3
  <2>4. \A r \in notesDb.relations : {r.source, r.target} \subseteq NoteIds(notesDb)
    BY DEF InboxInv, NotesOK
  <2>5. ASSUME NEW i \in TodoIds(todoDb)
        PROVE  /\ todoDb.todos[i].text \in Text
               /\ todoDb.todos[i].completedAt \in Nat \cup {None}
    BY <2>1, TodoDbParts DEF AnyTodo
  <2> QED
    BY <2>2, <2>3, <2>4, <2>5 DEF InboxTypeOK
<1> QED
  BY <1>1, InboxInvariance, PTL

\* A version names one state of one note.
THEOREM OneVersionOneRevision == Spec => []VersionsNameOneRevision
<1>1. InboxInv => VersionsNameOneRevision
  BY DEF InboxInv, NotesOK, VersionsNameOneRevision, Current
<1> QED
  BY <1>1, InboxInvariance, PTL

\* A todo is completed if and only if it has the time of its completion.
THEOREM CompletionsAreTimed == Spec => []CompletedHasTime
<1>1. InboxInv => CompletedHasTime
  BY DEF InboxInv, TodosOK, TodoOK, CompletedHasTime
<1> QED
  BY <1>1, InboxInvariance, PTL

\* The ids of a todo's subtasks differ, whatever was added, removed and added
\* again.
THEOREM SubtasksAreTold == Spec => []SubtaskIdsUnique
<1>1. InboxInv => SubtaskIdsUnique
  BY DEF InboxInv, TodosOK, TodoOK, UniqueIds, SubtaskIdsUnique
<1> QED
  BY <1>1, InboxInvariance, PTL

\* The list of a todo exists, also after lists were deleted.
THEOREM TodosHaveTheirList == Spec => []ListRefsResolve
<1>1. InboxInv => ListRefsResolve
  BY DEF InboxInv, TodosOK, TodoOK, ListRefsResolve
<1> QED
  BY <1>1, InboxInvariance, PTL

\* Whatever changes a row gives it a version above every version handed out
\* before, so a poller that asks for what is newer than a version misses no
\* change; only the deletion of a list moves todos silently.
THEOREM ChangesAreVersioned == Spec => ChangesTakeNewVersion
<1> DEFINE Step ==
      /\ \A i \in NoteIds(notesDb') :
            (i \in NoteIds(notesDb) => notesDb'.notes[i] # notesDb.notes[i])
                => notesDb'.notes[i].version > notesDb.version
      /\ \A i \in TodoIds(todoDb') :
            (i \in TodoIds(todoDb) => todoDb'.todos[i] # todoDb.todos[i])
                => \/ todoDb'.todos[i].version > todoDb.version
                   \/ todoDb'.todos[i] = [todoDb.todos[i] EXCEPT !.list = Inbox0]
<1>1. InboxInv /\ [Next]_vars => [Step]_vars
  <2> SUFFICES ASSUME InboxInv, Next PROVE Step
    OBVIOUS
  <2>1. notesDb.version \in Nat /\ todoDb.version \in Nat
    BY NoteDbParts, TodoDbParts DEF InboxInv, NotesOK, TodosOK
  <2>2. ASSUME NEW db, NoteStep(notesDb, db), CommitNotes(db)
        PROVE  Step
    <3>1. notesDb' = db /\ todoDb' = todoDb
      BY <2>2 DEF CommitNotes
    <3>2. \A i \in NoteIds(db) :
             (i \in NoteIds(notesDb) => db.notes[i] # notesDb.notes[i])
                => db.notes[i].version > notesDb.version
      BY <2>1, <2>2 DEF NoteStep
    <3> QED
      BY <3>1, <3>2
  <2>3. ASSUME NEW db, TodoStep(todoDb, db), CommitTodos(db)
        PROVE  Step
    <3>1. todoDb' = db /\ notesDb' = notesDb
      BY <2>3 DEF CommitTodos
    <3>2. \A i \in TodoIds(db) :
             (i \in TodoIds(todoDb) => db.todos[i] # todoDb.todos[i])
                => \/ db.todos[i].version > todoDb.version
                   \/ db.todos[i] = [todoDb.todos[i] EXCEPT !.list = Inbox0]
      BY <2>1, <2>3 DEF TodoStep
    <3> QED
      BY <3>1, <3>2
  <2> QED
    BY <2>2, <2>3, RoutesCommit DEF Committed
<1> QED
  BY <1>1, InboxInvariance, PTL DEF Spec, ChangesTakeNewVersion

-----------------------------------------------------------------------------
(* The tag tree                                                            *)

\* A path is a node above a tag exactly when it is a prefix of it.
LEMMA PathsAbove ==
  ASSUME NEW t \in UNION TagSet, NEW q \in UNION TagSet, NEW p \in Prefixes(q)
  PROVE  /\ p \in Prefixes(t) <=> IsPrefix(p, t)
         /\ p # None
<1>1. t \in Seq(Range(t)) /\ q \in Seq(Range(q)) /\ p # None
  BY InboxAssumption
<1> DEFINE S == Range(t) \cup Range(q)
<1>2. t \in Seq(S) /\ q \in Seq(S)
  <2>1. Range(t) \in SUBSET S /\ Range(q) \in SUBSET S
    OBVIOUS
  <2> HIDE DEF S
  <2>2. Len(t) \in Nat /\ Len(q) \in Nat /\ t \in [1..Len(t) -> S] /\ q \in [1..Len(q) -> S]
    BY <1>1, <2>1
  <2> QED
    BY <2>2, SegmentIsSeq
<1> HIDE DEF S
<1>3. p \in Seq(S) /\ Len(p) \in Nat
  <2>1. PICK l \in 0..Len(q) : p = SubSeq(q, 1, l)
    BY DEF Prefixes
  <2> QED
    BY <1>2, <2>1
<1>4. SubSeq(p, 1, Len(p)) = p
  BY <1>3
<1>5. p \in Prefixes(t) => IsPrefix(p, t)
  <2> SUFFICES ASSUME p \in Prefixes(t) PROVE IsPrefix(p, t)
    OBVIOUS
  <2>1. PICK l \in 0..Len(t) : p = SubSeq(t, 1, l)
    BY DEF Prefixes
  <2>2. Len(p) = l
    <3>1. l \in Int /\ 0 <= l /\ l <= Len(t) /\ Len(t) \in Nat
      BY <1>2
    <3>2. Len(SubSeq(t, 1, l)) = l
      BY <1>2, <3>1
    <3> QED
      BY <2>1, <3>2
  <2> QED
    BY <1>2, <1>4, <2>1, <2>2 DEF IsPrefix
<1>6. IsPrefix(p, t) => p \in Prefixes(t)
  <2> SUFFICES ASSUME IsPrefix(p, t) PROVE p \in Prefixes(t)
    OBVIOUS
  <2>1. Len(p) \in 0..Len(t) /\ p = SubSeq(t, 1, Len(p))
    BY <1>2, <1>3, <1>4 DEF IsPrefix
  <2> QED
    BY <2>1 DEF Prefixes
<1> QED
  BY <1>1, <1>5, <1>6

\* The tree's count is the sum over the tags below a path.
LEMMA TagCountAdds ==
  ASSUME NEW db, NEW path, NEW K, NEW f, NEW g,
         K = {u \in UsedTags(db) : IsPrefix(path, u)}, IsFiniteSet(K),
         f = [t \in K |-> ExactCount(db, t)], f \in [K -> Int], Adds(g, f, K)
  PROVE  TagCount(db, path) = g[K]
<1> DEFINE pick == [s \in SUBSET K |-> CHOOSE x \in s : TRUE]
           Fold(h) == h = [s \in SUBSET K |->
                            IF s = {} THEN 0
                            ELSE f[CHOOSE x \in s : TRUE] + h[s \ {CHOOSE x \in s : TRUE}]]
           iter == CHOOSE h : Fold(h)
<1>1. TagCount(db, path) = iter[K]
  <2>1. DOMAIN f = K
    OBVIOUS
  <2>2. TagCount(db, path) = FoldFunction(+, 0, f)
    BY DEF TagCount
  <2> QED
    BY <2>1, <2>2 DEF FoldFunction, FoldFunctionOnSet, MapThenFoldSet
<1>2. \A s \in SUBSET K : s # {} => pick[s] \in s
  OBVIOUS
<1>3. ASSUME NEW h PROVE Fold(h) <=> TakesUp(h, f, K, pick)
  <2>0. \A s \in SUBSET K : pick[s] = CHOOSE x \in s : TRUE
    OBVIOUS
  <2> HIDE DEF pick
  <2>1. [s \in SUBSET K |-> IF s = {} THEN 0
                            ELSE f[CHOOSE x \in s : TRUE] + h[s \ {CHOOSE x \in s : TRUE}]]
           = [s \in SUBSET K |-> IF s = {} THEN 0 ELSE f[pick[s]] + h[s \ {pick[s]}]]
    <3>1. ASSUME NEW s \in SUBSET K
          PROVE  (IF s = {} THEN 0
                  ELSE f[CHOOSE x \in s : TRUE] + h[s \ {CHOOSE x \in s : TRUE}])
                    = (IF s = {} THEN 0 ELSE f[pick[s]] + h[s \ {pick[s]}])
      <4>1. pick[s] = CHOOSE x \in s : TRUE
        BY <2>0
      <4> DEFINE y == CHOOSE x \in s : TRUE
      <4> HIDE DEF y
      <4>2. pick[s] = y
        BY <4>1 DEF y
      <4>3. (IF s = {} THEN 0 ELSE f[y] + h[s \ {y}])
               = (IF s = {} THEN 0 ELSE f[pick[s]] + h[s \ {pick[s]}])
        BY <4>2
      <4> QED
        BY <4>3 DEF y
    <3> QED
      BY <3>1
  <2> QED
    BY <2>1, Zenon DEF TakesUp
<1> HIDE DEF pick, Fold
<1>4. Fold(g)
  BY <1>2, <1>3, SumIsFold
<1>5. Fold(iter)
  BY <1>4
<1> HIDE DEF iter
<1>6. TakesUp(iter, f, K, pick)
  BY <1>3, <1>5
<1>7. iter = g
  BY <1>2, <1>6, FoldAdds
<1> QED
  BY <1>1, <1>7

\* What the tree counts below a path, as the sum of the sizes of some sets.
LEMMA TreeSumsSizes ==
  ASSUME NEW db, NEW p, IsFiniteSet(LiveNotes(db)),
         \A i \in LiveNotes(db) : IsFiniteSet(db.notes[i].tags)
  PROVE  LET found == {i \in LiveNotes(db) : HasTag(db.notes[i], p)}
             one == \A i \in found : \A x, y \in db.notes[i].tags :
                       IsPrefix(p, x) /\ IsPrefix(p, y) => x = y
         IN  /\ TagCount(db, p) \in Int
             /\ Cardinality(found) <= TagCount(db, p)
             /\ one => TagCount(db, p) = Cardinality(found)
<1> DEFINE L == LiveNotes(db)
           tags(i) == db.notes[i].tags
           found == {i \in L : HasTag(db.notes[i], p)}
           one == \A i \in found : \A x, y \in tags(i) : IsPrefix(p, x) /\ IsPrefix(p, y) => x = y
           K == {u \in UsedTags(db) : IsPrefix(p, u)}
           A == [t \in K |-> {i \in L : t \in tags(i)}]
           f == [t \in K |-> ExactCount(db, t)]
<1>1. IsFiniteSet(L) /\ \A i \in L : IsFiniteSet(tags(i))
  OBVIOUS
<1>2. UsedTags(db) = UNION {tags(i) : i \in L}
  BY DEF UsedTags
<1>3. \A t : ExactCount(db, t) = Cardinality({i \in L : t \in tags(i)})
  BY DEF ExactCount
<1>4. \A i \in L : HasTag(db.notes[i], p) <=> \E t \in tags(i) : IsPrefix(p, t)
  BY DEF HasTag
<1> HIDE DEF L, tags
<1>5. IsFiniteSet(K)
  <2> DEFINE sets == {tags(i) : i \in L}
             F == [i \in L |-> tags(i)]
  <2>1. sets = {F[i] : i \in L} /\ \A T \in sets : IsFiniteSet(T)
    BY <1>1
  <2>2. IsFiniteSet(sets)
    <3>1. F \in Surjection(L, sets)
      BY DEF Surjection
    <3> HIDE DEF F, sets
    <3> QED
      BY <1>1, <3>1, FS_Surjection
  <2> HIDE DEF sets, F
  <2>4. IsFiniteSet(UNION sets)
    BY <2>1, <2>2, FS_UNION
  <2>5. K \in SUBSET UsedTags(db)
    OBVIOUS
  <2>6. UNION sets = UsedTags(db)
    BY <1>2 DEF sets
  <2> HIDE DEF K
  <2> QED
    BY <2>4, <2>5, <2>6, FS_Subset
<1>6. \A t \in K : IsFiniteSet(A[t]) /\ f[t] = Cardinality(A[t]) /\ f[t] \in Int
  <2> TAKE t \in K
  <2> DEFINE a == {i \in L : t \in tags(i)}
  <2>1. A[t] = a /\ f[t] = Cardinality(a) /\ a \in SUBSET L
    BY <1>3
  <2> HIDE DEF a, A, f
  <2>2. IsFiniteSet(a)
    BY <1>1, <2>1, FS_Subset
  <2> QED
    BY <2>1, <2>2, FS_CardinalityType
<1>7. f \in [K -> Int]
  BY <1>6
<1>8. UNION {A[t] : t \in K} = found
  <2>1. ASSUME NEW i \in found PROVE \E t \in K : i \in A[t]
    <3>1. PICK t \in tags(i) : IsPrefix(p, t)
      BY <1>4, <2>1
    <3> QED
      BY <1>2, <2>1, <3>1
  <2>2. ASSUME NEW t \in K, NEW i \in A[t] PROVE i \in found
    BY <1>4, <2>2
  <2> HIDE DEF A, found, K
  <2> QED
    BY <2>1, <2>2
<1>9. one => \A x, y \in K : x # y => A[x] \cap A[y] = {}
  <2> SUFFICES ASSUME one, NEW x \in K, NEW y \in K, x # y, NEW i \in A[x], i \in A[y]
               PROVE  FALSE
    OBVIOUS
  <2>1. i \in L /\ x \in tags(i) /\ y \in tags(i) /\ IsPrefix(p, x) /\ IsPrefix(p, y)
    OBVIOUS
  <2>2. i \in found
    BY <1>4, <2>1
  <2> HIDE DEF found, K, A
  <2> QED
    BY <2>1, <2>2
<1>10. PICK g : Adds(g, f, K)
  <2> HIDE DEF f, K
  <2> QED
    BY <1>5, <1>7, SumExists
<1>11. TagCount(db, p) = g[K]
  <2>1. K = {u \in UsedTags(db) : IsPrefix(p, u)} /\ f = [t \in K |-> ExactCount(db, t)]
    OBVIOUS
  <2> HIDE DEF f, K
  <2> QED
    BY <1>5, <1>7, <1>10, <2>1, TagCountAdds
<1> HIDE DEF A, f, K, found, one
<1>12. SizesOf(K, A, g[K])
  <2>1. \A x \in K : IsFiniteSet(A[x])
    BY <1>6
  <2>2. \A x \in K : f[x] = Cardinality(A[x])
    BY <1>6
  <2> QED
    BY <1>5, <1>7, <1>10, <2>1, <2>2, SumOfSizes
<1>13. g[K] \in Int /\ Cardinality(found) <= g[K] /\ (one => g[K] = Cardinality(found))
  BY <1>8, <1>9, <1>12 DEF SizesOf
<1> QED
  BY <1>11, <1>13 DEF found, one, L, tags

LEMMA InvGivesTagTree == InboxInv => TagTreeAgreesWithQuery
<1> SUFFICES ASSUME InboxInv, NEW q \in UNION TagSet, NEW p \in Prefixes(q), p # <<>>
             PROVE  LET found == NotesQuery(notesDb, p, {})
                        below(i) == {t \in notesDb.notes[i].tags : IsPrefix(p, t)}
                    IN  /\ p \in TagPaths(notesDb) <=> found # {}
                        /\ TagCount(notesDb, p) >= Cardinality(found)
                        /\ found # {} => \E t \in AllTags(notesDb) : IsPrefix(p, t)
                        /\ (\A i \in found : Cardinality(below(i)) = 1)
                               => TagCount(notesDb, p) = Cardinality(found)
  BY DEF TagTreeAgreesWithQuery
<1> DEFINE L == LiveNotes(notesDb)
           tags(i) == notesDb.notes[i].tags
           found == {i \in L : HasTag(notesDb.notes[i], p)}
           below(i) == {t \in tags(i) : IsPrefix(p, t)}
<1>1. NotesQuery(notesDb, p, {}) = found
  <2>1. p # None
    BY PathsAbove
  <2> QED
    BY <2>1 DEF NotesQuery
<1>2. /\ IsFiniteSet(L) /\ L \in SUBSET NoteIds(notesDb)
      /\ \A i \in NoteIds(notesDb) : IsFiniteSet(tags(i)) /\ tags(i) \in SUBSET UNION TagSet
  <2>1. /\ Len(notesDb.notes) \in Nat /\ NoteIds(notesDb) = 1..Len(notesDb.notes)
        /\ \A i \in NoteIds(notesDb) : notesDb.notes[i] \in AnyNote
    BY NoteDbParts DEF InboxInv, NotesOK
  <2>2. \A i \in NoteIds(notesDb) : tags(i) \in AnyTags
    BY <2>1 DEF AnyNote
  <2>3. IsFiniteSet(NoteIds(notesDb))
    BY <2>1, FS_Interval
  <2>4. L \in SUBSET NoteIds(notesDb)
    BY DEF LiveNotes
  <2> HIDE DEF L
  <2>5. IsFiniteSet(L)
    BY <2>3, <2>4, FS_Subset
  <2> QED
    BY <2>2, <2>4, <2>5 DEF AnyTags
<1>3. \A i : HasTag(notesDb.notes[i], p) <=> \E t \in tags(i) : IsPrefix(p, t)
  BY DEF HasTag
<1>4. UsedTags(notesDb) = UNION {tags(i) : i \in L}
      /\ AllTags(notesDb) = UNION {tags(i) : i \in NoteIds(notesDb)}
  BY DEF UsedTags, AllTags
<1>5. LET one == \A i \in found : \A x, y \in tags(i) : IsPrefix(p, x) /\ IsPrefix(p, y) => x = y
      IN  /\ TagCount(notesDb, p) \in Int /\ Cardinality(found) <= TagCount(notesDb, p)
          /\ one => TagCount(notesDb, p) = Cardinality(found)
  BY <1>2, TreeSumsSizes
<1> HIDE DEF L, tags
<1>6. p \in TagPaths(notesDb) <=> found # {}
  <2>1. \A t \in UsedTags(notesDb) : t \in UNION TagSet
    BY <1>2, <1>4
  <2>2. \A t \in UsedTags(notesDb) : p \in Prefixes(t) <=> IsPrefix(p, t)
    BY <2>1, PathsAbove
  <2>3. p \in TagPaths(notesDb) <=> \E t \in UsedTags(notesDb) : p \in Prefixes(t)
    BY DEF TagPaths
  <2>4. (\E t \in UsedTags(notesDb) : IsPrefix(p, t)) <=> \E i \in L : \E t \in tags(i) : IsPrefix(p, t)
    BY <1>4
  <2> QED
    BY <1>3, <2>2, <2>3, <2>4
<1>7. found # {} => \E t \in AllTags(notesDb) : IsPrefix(p, t)
  BY <1>2, <1>3, <1>4
<1>8. ASSUME \A i \in found : Cardinality(below(i)) = 1,
             NEW i \in found, NEW x \in tags(i), NEW y \in tags(i),
             IsPrefix(p, x), IsPrefix(p, y)
      PROVE  x = y
  <2>1. IsFiniteSet(tags(i)) /\ below(i) \in SUBSET tags(i) /\ x \in below(i) /\ y \in below(i)
    BY <1>2, <1>8
  <2>2. Cardinality(below(i)) = 1
    BY <1>8
  <2> HIDE DEF below
  <2>3. IsFiniteSet(below(i))
    BY <2>1, FS_Subset
  <2>4. PICK z : below(i) = {z}
    BY <2>2, <2>3, FS_Singleton
  <2> QED
    BY <2>1, <2>4
<1>9. /\ TagCount(notesDb, p) >= Cardinality(found)
      /\ (\A i \in found : Cardinality(below(i)) = 1) => TagCount(notesDb, p) = Cardinality(found)
  <2>1. Cardinality(found) \in Int
    <3>1. found \in SUBSET L
      OBVIOUS
    <3> HIDE DEF found
    <3> QED
      BY <1>2, <3>1, FS_Subset, FS_CardinalityType
  <2> HIDE DEF found, below
  <2> QED
    BY <1>5, <1>8, <2>1
<1> HIDE DEF found
<1> QED
  BY <1>1, <1>6, <1>7, <1>9 DEF tags

\* Whatever notes there are and however they are tagged, the tree has a node for a
\* path when the query finds a note there, and counts no fewer; and no more unless a
\* note has two tags below.
THEOREM TreeAgreesWithQuery == Spec => []TagTreeAgreesWithQuery
BY InvGivesTagTree, InboxInvariance, PTL
=============================================================================
