----------------------------- MODULE SyncProofs -----------------------------
(***************************************************************************)
(* Proofs about Sync, for any devices, uuids and contents and any bounds:  *)
(* that the replicas and everything on its way between them stay well      *)
(* formed, that no edit is lost and that the newest revision survives,     *)
(* however merges, pushes, cloud cycles, crashes and edits overlap, and    *)
(* that an exchange which nobody interferes with ends in agreement.        *)
(***************************************************************************)
EXTENDS Sync, OrderLemmas

-----------------------------------------------------------------------------
(* The invariant: what a sequence of rows may hold, wherever it is         *)

Dev == Device \cup {None}

NoteRow == [uuid : Uuid, content : Content, tags : {{}}, created : Stamp,
            updated : Stamp, version : Nat, dev : Dev, deleted : BOOLEAN]

TodoRow == [uuid : Uuid, text : Text, due : {None}, subtasks : {<<>>},
            list : {Inbox0}, completed : BOOLEAN, completedAt : Stamp \cup {None},
            created : Stamp, updated : Stamp, version : Nat, dev : Dev,
            deleted : BOOLEAN]

\* The rows that somebody has written: their uuid was given out, and a note's
\* revision is one that history knows.
NotesOf(uuids, revs) == {row \in NoteRow : row.uuid \in uuids /\ Revision(row) \in revs}
TodosOf(uuids) == {row \in TodoRow : row.uuid \in uuids}

Keyed(rows, excused) ==
  \A i, k \in DOMAIN rows :
     rows[i].uuid = rows[k].uuid => i = k \/ rows[i].uuid \in excused

\* A table or what is left of one: rows of R, told apart by their uuids except
\* for those that a merge has inserted twice.
Table(rows, R, excused) == rows \in Seq(R) /\ Keyed(rows, excused)

-----------------------------------------------------------------------------
(* Tables                                                                  *)

\* The last of some positions of a sequence is one of them.
LEMMA LastIsOne ==
  ASSUME NEW S, NEW s \in Seq(S), NEW K \in SUBSET DOMAIN s, K # {}
  PROVE  LastOf(K) \in K /\ \A k \in K : k <= LastOf(K)
<1>1. K \in SUBSET Nat /\ IsFiniteSet(K)
  BY Positions, FS_Subset
<1>2. \E i \in K : \A k \in K : i >= k
  BY <1>1, LatestExists
<1>3. \E i \in K : \A k \in K : k <= i
  BY <1>1, <1>2
<1> QED
  BY <1>3 DEF LastOf

\* m is s followed by t, all three of elements of S.
IsJoin(m, s, t, S) ==
  /\ m \in Seq(S) /\ Len(m) = Len(s) + Len(t) /\ Len(t) \in Nat
  /\ DOMAIN t = 1..Len(t) /\ DOMAIN m = 1..(Len(s) + Len(t))
  /\ \A i \in 1..Len(s) : m[i] = s[i]
  /\ \A i \in 1..(Len(s) + Len(t)) : i > Len(s) => m[i] = t[i - Len(s)]

\* Which is what concatenation makes.
LEMMA Concatenation ==
  ASSUME NEW S, NEW s \in Seq(S), NEW t \in Seq(S)
  PROVE  IsJoin(s \o t, s, t, S)
<1> DEFINE n == Len(s)
<1>1. n \in Nat /\ Len(t) \in Nat
  OBVIOUS
<1>2. /\ s \o t \in Seq(S) /\ Len(s \o t) = n + Len(t)
      /\ DOMAIN t = 1..Len(t) /\ DOMAIN (s \o t) = 1..(n + Len(t))
  BY <1>1
<1>3. \A i \in 1..n : (s \o t)[i] = s[i]
  BY <1>1
<1>4. \A i \in 1..(n + Len(t)) : i > n => (s \o t)[i] = t[i - n]
  BY <1>1
<1> QED
  BY <1>1, <1>2, <1>3, <1>4 DEF IsJoin

\* A table stays one when more rows and more excuses are allowed.
LEMMA TableGrows ==
  ASSUME NEW R, NEW Q, R \in SUBSET Q, NEW X, NEW Y, X \in SUBSET Y,
         NEW rows, Table(rows, R, X)
  PROVE  Table(rows, Q, Y)
<1>1. rows \in Seq(Q)
  <2>1. rows \in [1..Len(rows) -> R] /\ Len(rows) \in Nat
    BY DEF Table
  <2> QED
    BY <2>1, SegmentIsSeq
<1> QED
  BY <1>1 DEF Table, Keyed

\* So is what remains of it without some rows.
LEMMA SubsequenceIsTable ==
  ASSUME NEW R, NEW X, NEW rows, Table(rows, R, X), NEW K \in SUBSET DOMAIN rows
  PROVE  Table(Subsequence(rows, K), R, X)
<1> DEFINE t == Subsequence(rows, K)
<1>1. rows \in Seq(R) /\ Keyed(rows, X)
  BY DEF Table
<1>2. /\ t \in Seq(R)
      /\ \A k \in DOMAIN t : Nth(K, k) \in K /\ t[k] = rows[Nth(K, k)]
      /\ \A k, l \in DOMAIN t : Nth(K, k) = Nth(K, l) => k = l
  BY <1>1, SubsequenceElements
<1> HIDE DEF t
<1>3. Keyed(t, X)
  BY <1>1, <1>2 DEF Keyed
<1> QED
  BY <1>2, <1>3 DEF Table, t

\* What is left of a table after its first row is a table.
LEMMA TailIsTable ==
  ASSUME NEW R, NEW X, NEW rows, Table(rows, R, X), rows # <<>>
  PROVE  Table(Tail(rows), R, X) /\ Head(rows) \in R
<1>1. rows \in Seq(R) /\ Keyed(rows, X) /\ Len(rows) \in Nat /\ Len(rows) # 0
      /\ DOMAIN rows = 1..Len(rows)
  BY DEF Table
<1>2. /\ Tail(rows) \in Seq(R) /\ Head(rows) \in R
      /\ Len(Tail(rows)) = Len(rows) - 1
      /\ \A i \in 1..(Len(rows) - 1) : Tail(rows)[i] = rows[i + 1]
  BY <1>1
<1> DEFINE t == Tail(rows)
<1>3. DOMAIN t = 1..(Len(rows) - 1)
  BY <1>2
<1>4. \A i \in DOMAIN t : t[i] = rows[i + 1] /\ i + 1 \in DOMAIN rows
  BY <1>1, <1>2, <1>3
<1>5. \A i, k \in DOMAIN t : i + 1 = k + 1 => i = k
  BY <1>1, <1>3
<1> HIDE DEF t
<1>6. Keyed(t, X)
  BY <1>1, <1>4, <1>5 DEF Keyed
<1> QED
  BY <1>2, <1>6 DEF Table, t

-----------------------------------------------------------------------------
(* A merge                                                                 *)

\* What a merge makes of a table: a row becomes an incoming row of its uuid
\* that won, or stays if there is none; behind them come the incoming rows that
\* the index lacked, no one twice.
MergedFrom(m, rows, index, incoming) ==
  /\ DOMAIN rows \in SUBSET DOMAIN m
  /\ \A i \in DOMAIN rows :
        \/ /\ m[i] = rows[i]
           /\ \A k \in DOMAIN incoming :
                 incoming[k].uuid = rows[i].uuid => ~Wins(index, incoming[k])
        \/ \E k \in DOMAIN incoming : /\ m[i] = incoming[k]
                                      /\ incoming[k].uuid = rows[i].uuid
                                      /\ Wins(index, incoming[k])
  /\ \A i \in DOMAIN m \ DOMAIN rows :
        \E k \in DOMAIN incoming : m[i] = incoming[k] /\ ~Known(index, incoming[k])
  /\ \A k \in DOMAIN incoming :
        Known(index, incoming[k]) \/ \E i \in DOMAIN m : m[i] = incoming[k]
  /\ \A i, j \in DOMAIN m \ DOMAIN rows :
        m[i].uuid = m[j].uuid =>
           \/ i = j
           \/ \E k, l \in DOMAIN incoming :
                 k # l /\ incoming[k].uuid = m[i].uuid /\ incoming[l].uuid = m[i].uuid

\* What the merge makes of rows, in those words.
LEMMA MergeMakes ==
  ASSUME NEW R, NEW rows \in Seq(R), NEW index, NEW incoming \in Seq(R)
  PROVE  /\ Merged(rows, index, incoming) \in Seq(R)
         /\ MergedFrom(Merged(rows, index, incoming), rows, index, incoming)
<1> DEFINE winner(u) == {k \in DOMAIN incoming :
                            incoming[k].uuid = u /\ Wins(index, incoming[k])}
           old == [i \in DOMAIN rows |->
                      IF winner(rows[i].uuid) = {} THEN rows[i]
                      ELSE incoming[LastOf(winner(rows[i].uuid))]]
           K == {k \in DOMAIN incoming : ~Known(index, incoming[k])}
           new == Subsequence(incoming, K)
           m == old \o new
           n == Len(rows)
<1>1. Merged(rows, index, incoming) = m
  BY DEF Merged
<1>2. n \in Nat /\ DOMAIN rows = 1..n /\ \A i \in DOMAIN rows : rows[i] \in R
  BY Positions
<1>3. \A k \in DOMAIN incoming : incoming[k] \in R
  BY Positions
<1>4. ASSUME NEW i \in DOMAIN rows
      PROVE  /\ old[i] \in R
             /\ \/ /\ old[i] = rows[i]
                   /\ \A k \in DOMAIN incoming :
                         incoming[k].uuid = rows[i].uuid => ~Wins(index, incoming[k])
                \/ \E k \in DOMAIN incoming : /\ old[i] = incoming[k]
                                              /\ incoming[k].uuid = rows[i].uuid
                                              /\ Wins(index, incoming[k])
  <2> DEFINE W == winner(rows[i].uuid)
  <2>1. CASE W = {}
    BY <2>1, <1>2
  <2>2. CASE W # {}
    <3>1. W \in SUBSET DOMAIN incoming
      OBVIOUS
    <3> HIDE DEF W
    <3>2. LastOf(W) \in W
      BY <2>2, <3>1, LastIsOne
    <3>3. old[i] = incoming[LastOf(W)]
      BY <2>2 DEF W
    <3>4. PICK k \in W : old[i] = incoming[k]
      BY <3>2, <3>3
    <3> QED
      BY <3>4, <1>3 DEF W
  <2> QED
    BY <2>1, <2>2
<1>5. old \in Seq(R) /\ Len(old) = n /\ DOMAIN old = 1..n
  <2>1. DOMAIN old = 1..n /\ \A i \in 1..n : old[i] \in R
    BY <1>2, <1>4
  <2>2. old = [i \in 1..n |-> old[i]]
    BY <1>2
  <2> HIDE DEF old
  <2>3. old \in [1..n -> R]
    BY <2>1, <2>2
  <2> QED
    BY <2>3, <1>2, SegmentIsSeq
<1>6. /\ K \in SUBSET DOMAIN incoming /\ \A k \in K : ~Known(index, incoming[k])
      /\ \A k \in DOMAIN incoming : ~Known(index, incoming[k]) => k \in K
  OBVIOUS
<1> HIDE DEF old, K
<1>7. /\ new \in Seq(R)
      /\ \A k \in DOMAIN new : Nth(K, k) \in K /\ new[k] = incoming[Nth(K, k)]
      /\ \A k, l \in DOMAIN new : Nth(K, k) = Nth(K, l) => k = l
      /\ \A i \in K : \E k \in DOMAIN new : new[k] = incoming[i]
  BY <1>6, SubsequenceElements
<1> HIDE DEF new
<1>8. /\ m \in Seq(R) /\ Len(m) = n + Len(new) /\ Len(new) \in Nat
      /\ DOMAIN new = 1..Len(new) /\ DOMAIN m = 1..(n + Len(new))
      /\ \A i \in 1..n : m[i] = old[i]
      /\ \A i \in 1..(n + Len(new)) : i > n => m[i] = new[i - n]
  <2>1. IsJoin(m, old, new, R)
    BY <1>5, <1>7, Concatenation
  <2> QED
    BY <1>5, <2>1 DEF IsJoin
<1> HIDE DEF m
<1>9. \A i \in DOMAIN m \ DOMAIN rows : i - n \in DOMAIN new /\ m[i] = new[i - n]
  BY <1>2, <1>8
<1>10. DOMAIN rows \in SUBSET DOMAIN m
  BY <1>2, <1>8
<1>11. \A i \in DOMAIN rows :
          \/ /\ m[i] = rows[i]
             /\ \A k \in DOMAIN incoming :
                   incoming[k].uuid = rows[i].uuid => ~Wins(index, incoming[k])
          \/ \E k \in DOMAIN incoming : /\ m[i] = incoming[k]
                                        /\ incoming[k].uuid = rows[i].uuid
                                        /\ Wins(index, incoming[k])
  BY <1>2, <1>4, <1>8
<1>12. \A i \in DOMAIN m \ DOMAIN rows :
          \E k \in DOMAIN incoming : m[i] = incoming[k] /\ ~Known(index, incoming[k])
  BY <1>6, <1>7, <1>9
<1>13. ASSUME NEW i \in DOMAIN m \ DOMAIN rows, NEW j \in DOMAIN m \ DOMAIN rows,
              m[i].uuid = m[j].uuid, i # j
       PROVE  \E k, l \in DOMAIN incoming :
                 k # l /\ incoming[k].uuid = m[i].uuid /\ incoming[l].uuid = m[i].uuid
  <2>1. i - n # j - n
    BY <1>2, <1>8, <1>13
  <2>2. Nth(K, i - n) # Nth(K, j - n)
    BY <2>1, <1>7, <1>9
  <2>3. /\ m[i] = incoming[Nth(K, i - n)] /\ Nth(K, i - n) \in DOMAIN incoming
        /\ m[j] = incoming[Nth(K, j - n)] /\ Nth(K, j - n) \in DOMAIN incoming
    BY <1>6, <1>7, <1>9
  <2> QED
    BY <2>2, <2>3, <1>13
<1>14. ASSUME NEW k \in DOMAIN incoming, ~Known(index, incoming[k])
       PROVE  \E i \in DOMAIN m : m[i] = incoming[k]
  <2>1. PICK l \in DOMAIN new : new[l] = incoming[k]
    BY <1>6, <1>7, <1>14
  <2>2. n + l \in DOMAIN m /\ (n + l) - n = l /\ n + l > n
    BY <1>2, <1>8, <2>1
  <2>3. m[n + l] = new[l]
    BY <1>8, <2>2
  <2> QED
    BY <2>1, <2>2, <2>3
<1>15. MergedFrom(m, rows, index, incoming)
  BY <1>10, <1>11, <1>12, <1>13, <1>14 DEF MergedFrom
<1> QED
  BY <1>1, <1>8, <1>15

\* A merge of two tables is a table, if those uuids are excused that it inserts
\* although they were inserted since the index was read.
LEMMA MergeIsTable ==
  ASSUME NEW R, NEW X, NEW rows, Table(rows, R, X), NEW index,
         NEW incoming, Table(incoming, R, X)
  PROVE  Table(Merged(rows, index, incoming), R,
               X \cup Doubled(rows, index, incoming))
<1> DEFINE m == Merged(rows, index, incoming)
           Y == X \cup Doubled(rows, index, incoming)
<1>1. rows \in Seq(R) /\ incoming \in Seq(R) /\ Keyed(rows, X) /\ Keyed(incoming, X)
  BY DEF Table
<1>2. m \in Seq(R) /\ MergedFrom(m, rows, index, incoming)
  BY <1>1, MergeMakes
<1> HIDE DEF m
<1>3. \A i \in DOMAIN rows : m[i].uuid = rows[i].uuid
  BY <1>2 DEF MergedFrom
<1>4. ASSUME NEW i \in DOMAIN rows, NEW j \in DOMAIN m \ DOMAIN rows,
             m[i].uuid = m[j].uuid
      PROVE  m[i].uuid \in Y
  <2>1. PICK k \in DOMAIN incoming : m[j] = incoming[k] /\ ~Known(index, incoming[k])
    BY <1>2 DEF MergedFrom
  <2>2. rows[i].uuid = incoming[k].uuid
    BY <1>3, <1>4, <2>1
  <2>3. WithUuid(rows, incoming[k].uuid) # {}
    BY <2>2 DEF WithUuid
  <2>4. WithUuid(index, incoming[k].uuid) = {}
    BY <2>1 DEF Known
  <2>5. incoming[k].uuid \in Doubled(rows, index, incoming)
    BY <2>3, <2>4 DEF Doubled
  <2> QED
    BY <2>1, <2>5, <1>4
<1>5. ASSUME NEW i \in DOMAIN m \ DOMAIN rows, NEW j \in DOMAIN m \ DOMAIN rows,
             m[i].uuid = m[j].uuid
      PROVE  i = j \/ m[i].uuid \in X
  <2>1. CASE i # j
    <3>1. PICK k \in DOMAIN incoming, l \in DOMAIN incoming :
             k # l /\ incoming[k].uuid = m[i].uuid /\ incoming[l].uuid = m[i].uuid
      BY <1>2, <1>5, <2>1 DEF MergedFrom
    <3> QED
      BY <3>1, <1>1 DEF Keyed
  <2> QED
    BY <2>1
<1>6. ASSUME NEW i \in DOMAIN m, NEW j \in DOMAIN m, m[i].uuid = m[j].uuid
      PROVE  i = j \/ m[i].uuid \in Y
  <2>1. CASE i \in DOMAIN rows /\ j \in DOMAIN rows
    BY <2>1, <1>1, <1>3, <1>6 DEF Keyed
  <2>2. CASE i \in DOMAIN rows /\ j \notin DOMAIN rows
    BY <2>2, <1>4, <1>6
  <2>3. CASE i \notin DOMAIN rows /\ j \in DOMAIN rows
    BY <2>3, <1>4, <1>6
  <2>4. CASE i \notin DOMAIN rows /\ j \notin DOMAIN rows
    BY <2>4, <1>5, <1>6
  <2> QED
    BY <2>1, <2>2, <2>3, <2>4
<1> HIDE DEF Y
<1>7. Keyed(m, Y)
  BY <1>6 DEF Keyed
<1> QED
  BY <1>2, <1>7 DEF Table, m, Y

\* What a merge archives are rows: the index's or incoming ones.
LEMMA ArchivedAreRows ==
  ASSUME NEW R, NEW index \in Seq(R), NEW incoming \in Seq(R)
  PROVE  Archived(index, incoming) \in SUBSET [row : R, restored : BOOLEAN]
<1>1. ASSUME NEW k \in DOMAIN incoming, Differs(index, incoming[k])
      PROVE  Loser(index, incoming[k], Wins(index, incoming[k])) \in R
  <2> DEFINE K == WithUuid(index, incoming[k].uuid)
  <2>1. K # {} /\ K \in SUBSET DOMAIN index
    BY <1>1 DEF Differs, Known, WithUuid
  <2> HIDE DEF K
  <2>2. LastOf(K) \in DOMAIN index
    BY <2>1, LastIsOne
  <2>3. Local(index, incoming[k]) \in R
    BY <2>2, Positions DEF Local, K
  <2>4. incoming[k] \in R
    BY Positions
  <2> QED
    BY <2>3, <2>4 DEF Loser
<1>2. ASSUME NEW e \in Archived(index, incoming)
      PROVE  e \in [row : R, restored : BOOLEAN]
  <2>1. PICK k \in DOMAIN incoming :
           /\ Differs(index, incoming[k])
           /\ e = [row |-> Loser(index, incoming[k], Wins(index, incoming[k])),
                   restored |-> FALSE]
    BY DEF Archived
  <2> QED
    BY <1>1, <2>1
<1> QED
  BY <1>2

\* The cloud takes a row in: its table has one row per uuid before and after.
LEMMA UpsertIsTable ==
  ASSUME NEW R, NEW rows, Table(rows, R, {}), NEW row \in R
  PROVE  Table(Upsert(rows, row), R, {})
<1>1. rows \in Seq(R) /\ Keyed(rows, {}) /\ Len(rows) \in Nat
      /\ DOMAIN rows = 1..Len(rows) /\ \A i \in DOMAIN rows : rows[i] \in R
  BY Positions DEF Table
<1>2. CASE ~Known(rows, row)
  <2> DEFINE a == Append(rows, row)
  <2>1. Upsert(rows, row) = a
    BY <1>2 DEF Upsert
  <2>2. /\ a \in Seq(R) /\ DOMAIN a = 1..(Len(rows) + 1)
        /\ \A i \in DOMAIN rows : a[i] = rows[i]
        /\ a[Len(rows) + 1] = row
    BY <1>1
  <2>3. \A i \in DOMAIN rows : rows[i].uuid # row.uuid
    BY <1>2 DEF Known, WithUuid
  <2>4. \A i \in DOMAIN a : i \in DOMAIN rows \/ i = Len(rows) + 1
    BY <1>1, <2>2
  <2> HIDE DEF a
  <2>5. Keyed(a, {})
    BY <1>1, <2>2, <2>3, <2>4 DEF Keyed
  <2> QED
    BY <2>1, <2>2, <2>5 DEF Table
<1>3. CASE Known(rows, row)
  <2> DEFINE newer(i) == \/ TextLess(rows[i].updated, row.updated)
                         \/ rows[i].updated = row.updated /\ Rank[row.dev] > Rank[rows[i].dev]
             b == [i \in DOMAIN rows |-> IF rows[i].uuid = row.uuid /\ newer(i)
                                         THEN row ELSE rows[i]]
  <2>1. Upsert(rows, row) = b
    BY <1>3 DEF Upsert
  <2> HIDE DEF newer
  <2>2. \A i \in DOMAIN rows : b[i] \in R /\ b[i].uuid = rows[i].uuid
    BY <1>1
  <2>3. b \in [1..Len(rows) -> R]
    BY <1>1
  <2> HIDE DEF b
  <2>4. b \in Seq(R) /\ DOMAIN b = DOMAIN rows
    BY <1>1, <2>3, SegmentIsSeq
  <2>5. Keyed(b, {})
    BY <1>1, <2>2, <2>4 DEF Keyed
  <2> QED
    BY <2>1, <2>4, <2>5 DEF Table
<1> QED
  BY <1>2, <1>3

-----------------------------------------------------------------------------
(* What users write                                                        *)

\* The rows keep their places and their uuids; at most one comes behind them,
\* with a uuid that none of them has.
RowsWritten(rows, new) ==
  /\ DOMAIN rows \in SUBSET DOMAIN new
  /\ \A i \in DOMAIN rows : new[i].uuid = rows[i].uuid
  /\ \A i \in DOMAIN new \ DOMAIN rows, k \in DOMAIN new :
        k = i \/ new[k].uuid # new[i].uuid

\* A note that is overwritten gets a time later than it had.
Touched(rows, new, t) ==
  \A i \in DOMAIN rows :
     new[i] = rows[i] \/ (rows[i].updated.ms < t /\ new[i].updated.ms = t)

\* A content that is overwritten is in the history.
Remembered(db, new) ==
  /\ db.history \in SUBSET new.history
  /\ \A i \in DOMAIN db.notes :
        \/ new.notes[i].content = db.notes[i].content
        \/ \E h \in new.history : h.note = i /\ h.content = db.notes[i].content

NotesDbOK(db) ==
  /\ DOMAIN db = {"notes", "history", "relations", "version"}
  /\ db.notes \in Seq(NoteRow)
  /\ db.version \in Nat

TodoDbOK(db) ==
  /\ DOMAIN db = {"todos", "lists", "nextList", "version"}
  /\ db.todos \in Seq(TodoRow)
  /\ db.version \in Nat

NotesWritten(db, new, t) ==
  /\ NotesDbOK(new)
  /\ RowsWritten(db.notes, new.notes)
  /\ Touched(db.notes, new.notes, t)
  /\ Remembered(db, new)

TodosWritten(db, new) == TodoDbOK(new) /\ RowsWritten(db.todos, new.todos)

\* A write that adds one fresh row or replaces rows keeps a table a table.
LEMMA WrittenIsTable ==
  ASSUME NEW R, NEW Q, NEW X, NEW rows, Table(rows, R, X),
         NEW new \in Seq(Q), RowsWritten(rows, new)
  PROVE  Table(new, Q, X)
<1>1. Keyed(rows, X)
  BY DEF Table
<1>2. ASSUME NEW i \in DOMAIN new, NEW k \in DOMAIN new, new[i].uuid = new[k].uuid
      PROVE  i = k \/ new[i].uuid \in X
  <2>1. CASE i \in DOMAIN rows /\ k \in DOMAIN rows
    BY <1>1, <1>2, <2>1 DEF Keyed, RowsWritten
  <2>2. CASE i \notin DOMAIN rows
    BY <1>2, <2>2 DEF RowsWritten
  <2>3. CASE k \notin DOMAIN rows
    BY <1>2, <2>3 DEF RowsWritten
  <2> QED
    BY <2>1, <2>2, <2>3
<1> QED
  BY <1>2 DEF Table, Keyed

\* A row appended is a write.
LEMMA AppendWrites ==
  ASSUME NEW R, NEW rows \in Seq(R), NEW row \in R,
         \A i \in DOMAIN rows : rows[i].uuid # row.uuid
  PROVE  /\ Append(rows, row) \in Seq(R)
         /\ RowsWritten(rows, Append(rows, row))
         /\ \A i \in DOMAIN rows : Append(rows, row)[i] = rows[i]
<1> DEFINE a == Append(rows, row)
<1>1. Len(rows) \in Nat /\ DOMAIN rows = 1..Len(rows)
  OBVIOUS
<1>2. /\ a \in Seq(R) /\ DOMAIN a = 1..(Len(rows) + 1)
      /\ \A i \in DOMAIN rows : a[i] = rows[i]
      /\ a[Len(rows) + 1] = row
  BY <1>1
<1>3. /\ DOMAIN rows \in SUBSET DOMAIN a
      /\ \A i \in DOMAIN a \ DOMAIN rows : i = Len(rows) + 1
  BY <1>1, <1>2
<1> HIDE DEF a
<1>4. RowsWritten(rows, a)
  BY <1>2, <1>3 DEF RowsWritten
<1> QED
  BY <1>2, <1>4 DEF a

\* Rows rewritten in place, each under its uuid, are a write.
LEMMA RewriteWrites ==
  ASSUME NEW R, NEW rows \in Seq(R), NEW f, DOMAIN f = DOMAIN rows,
         f = [i \in DOMAIN rows |-> f[i]],
         \A i \in DOMAIN rows : f[i] \in R /\ f[i].uuid = rows[i].uuid
  PROVE  f \in Seq(R) /\ RowsWritten(rows, f)
<1>1. Len(rows) \in Nat /\ DOMAIN rows = 1..Len(rows)
  OBVIOUS
<1>2. f \in [1..Len(rows) -> R]
  BY <1>1
<1> QED
  BY <1>1, <1>2, SegmentIsSeq DEF RowsWritten

\* The instants of the model's clock make stamps.
LEMMA StampsAreStamps ==
  ASSUME NEW t \in 0..MaxClock
  PROVE  /\ Sql(t) \in Stamp /\ Sql(t).ms = t
         /\ Iso(t) \in Stamp /\ Iso(t).ms = t
BY DEF Sql, Iso, Stamp

\* create_note writes one fresh note.
LEMMA CreateNoteWrites ==
  ASSUME NEW db, NotesDbOK(db), NEW u \in Uuid, NEW c \in Content, NEW d \in Device,
         NEW t \in 0..MaxClock, \A i \in DOMAIN db.notes : db.notes[i].uuid # u
  PROVE  NotesWritten(db, CreateNote(db, u, c, {}, d, Sql(t)), t)
<1> DEFINE new == CreateNote(db, u, c, {}, d, Sql(t))
           row == [uuid |-> u, content |-> c, tags |-> {}, created |-> Sql(t),
                   updated |-> Sql(t), version |-> db.version + 1, dev |-> d,
                   deleted |-> FALSE]
<1>1. row \in NoteRow /\ row.uuid = u
  BY StampsAreStamps DEF NoteRow, NotesDbOK, Dev
<1>2. /\ DOMAIN new = {"notes", "history", "relations", "version"}
      /\ new.notes = Append(db.notes, row)
      /\ new.history = db.history
      /\ new.version = db.version + 1
  BY DEF CreateNote, BumpNotes, NotesDbOK
<1> HIDE DEF new, row
<1>3. /\ new.notes \in Seq(NoteRow) /\ RowsWritten(db.notes, new.notes)
      /\ \A i \in DOMAIN db.notes : new.notes[i] = db.notes[i]
  BY <1>1, <1>2, AppendWrites DEF NotesDbOK
<1>4. NotesDbOK(new)
  BY <1>2, <1>3 DEF NotesDbOK
<1>5. Touched(db.notes, new.notes, t) /\ Remembered(db, new)
  BY <1>2, <1>3 DEF Touched, Remembered
<1> QED
  BY <1>3, <1>4, <1>5 DEF NotesWritten, new

\* update_note writes a new revision of a note, later than the old one.
LEMMA UpdateNoteWrites ==
  ASSUME NEW db, NotesDbOK(db), NEW id \in DOMAIN db.notes, NEW c \in Content,
         NEW d \in Device, NEW t \in 0..MaxClock, db.notes[id].updated.ms < t
  PROVE  NotesWritten(db, UpdateNote(db, id, c, {}, d, Sql(t)), t)
<1> DEFINE new == UpdateNote(db, id, c, {}, d, Sql(t))
           row == [db.notes[id] EXCEPT !.content = c, !.tags = {}, !.updated = Sql(t),
                                       !.version = db.version + 1, !.dev = d]
           f == [i \in DOMAIN db.notes |-> IF i # id THEN db.notes[i] ELSE row]
<1>1. db.notes \in Seq(NoteRow) /\ db.version \in Nat
      /\ \A i \in DOMAIN db.notes : db.notes[i] \in NoteRow
  BY Positions DEF NotesDbOK
<1>2. row \in NoteRow /\ row.uuid = db.notes[id].uuid /\ row.updated.ms = t
  <2>1. PICK n \in Nat : n = db.version + 1
    BY <1>1
  <2>2. PICK s \in Stamp : s = Sql(t) /\ s.ms = t
    BY StampsAreStamps
  <2>3. row = [db.notes[id] EXCEPT !.content = c, !.tags = {}, !.updated = s,
                                   !.version = n, !.dev = d]
    BY <2>1, <2>2
  <2>4. db.notes[id] \in NoteRow
    BY <1>1
  <2> HIDE DEF row
  <2> QED
    BY <2>2, <2>3, <2>4 DEF NoteRow, Dev
<1>3. /\ DOMAIN new = {"notes", "history", "relations", "version"}
      /\ new.notes = f
      /\ new.history = db.history \cup HistoryRow(db, id)
      /\ new.version = db.version + 1
  BY DEF UpdateNote, BumpNotes, NotesDbOK
<1> HIDE DEF new, row
<1>4. /\ f[id] = row
      /\ \A i \in DOMAIN db.notes : i # id => f[i] = db.notes[i]
      /\ DOMAIN f = DOMAIN db.notes /\ f = [i \in DOMAIN db.notes |-> f[i]]
  OBVIOUS
<1> HIDE DEF f
<1>5. f \in Seq(NoteRow) /\ RowsWritten(db.notes, f)
  BY <1>1, <1>2, <1>4, RewriteWrites
<1>6. NotesDbOK(new)
  BY <1>1, <1>3, <1>5 DEF NotesDbOK
<1>7. Touched(db.notes, f, t)
  BY <1>2, <1>4 DEF Touched
<1>8. \E h \in HistoryRow(db, id) : h.note = id /\ h.content = db.notes[id].content
  <2> DEFINE snap(i) == [note |-> i, content |-> db.notes[i].content,
                         tags |-> db.notes[i].tags, version |-> db.notes[i].version]
  <2>1. HistoryRow(db, id) = {snap(i) : i \in {id} \cap DOMAIN db.notes}
    BY DEF HistoryRow, NoteIds
  <2>2. snap(id).note = id /\ snap(id).content = db.notes[id].content
    OBVIOUS
  <2> HIDE DEF snap
  <2>3. snap(id) \in HistoryRow(db, id)
    BY <2>1
  <2> QED
    BY <2>2, <2>3
<1>9. Remembered(db, new)
  <2>1. db.history \in SUBSET new.history
    BY <1>3
  <2>2. \E h \in new.history : h.note = id /\ h.content = db.notes[id].content
    BY <1>3, <1>8
  <2> QED
    BY <1>3, <1>4, <2>1, <2>2 DEF Remembered
<1> QED
  BY <1>3, <1>5, <1>6, <1>7, <1>9 DEF NotesWritten, new

\* So does delete_note, a tombstone.
LEMMA DeleteNoteWrites ==
  ASSUME NEW db, NotesDbOK(db), NEW id \in DOMAIN db.notes,
         NEW d \in Device, NEW t \in 0..MaxClock, db.notes[id].updated.ms < t
  PROVE  NotesWritten(db, DeleteNote(db, id, d, Sql(t)), t)
<1> DEFINE new == DeleteNote(db, id, d, Sql(t))
           row == [db.notes[id] EXCEPT !.deleted = TRUE, !.updated = Sql(t),
                                       !.version = db.version + 1, !.dev = d]
           f == [i \in DOMAIN db.notes |->
                    IF i # id \/ db.notes[i].deleted = TRUE THEN db.notes[i]
                    ELSE [db.notes[i] EXCEPT !.deleted = TRUE, !.updated = Sql(t),
                                       !.version = db.version + 1, !.dev = d]]
<1>1. db.notes \in Seq(NoteRow) /\ db.version \in Nat
      /\ \A i \in DOMAIN db.notes : db.notes[i] \in NoteRow
  BY Positions DEF NotesDbOK
<1>2. /\ row \in NoteRow /\ row.uuid = db.notes[id].uuid /\ row.updated.ms = t
      /\ row.content = db.notes[id].content
  <2>1. PICK n \in Nat : n = db.version + 1
    BY <1>1
  <2>2. PICK s \in Stamp : s = Sql(t) /\ s.ms = t
    BY StampsAreStamps
  <2>3. row = [db.notes[id] EXCEPT !.deleted = TRUE, !.updated = s, !.version = n,
                                   !.dev = d]
    BY <2>1, <2>2
  <2>4. db.notes[id] \in NoteRow
    BY <1>1
  <2> HIDE DEF row
  <2> QED
    BY <2>2, <2>3, <2>4 DEF NoteRow, Dev
<1>3. /\ DOMAIN new = {"notes", "history", "relations", "version"}
      /\ new.notes = f
      /\ new.history = db.history \cup HistoryRow(db, id)
      /\ new.version = db.version + 1
  BY DEF DeleteNote, SetDeleted, BumpNotes, NotesDbOK
<1>4. /\ f[id] = row \/ f[id] = db.notes[id]
      /\ \A i \in DOMAIN db.notes : i # id => f[i] = db.notes[i]
      /\ DOMAIN f = DOMAIN db.notes /\ f = [i \in DOMAIN db.notes |-> f[i]]
  OBVIOUS
<1> HIDE DEF new, row, f
<1>5. f \in Seq(NoteRow) /\ RowsWritten(db.notes, f)
  <2>1. \A i \in DOMAIN db.notes : f[i] \in NoteRow /\ f[i].uuid = db.notes[i].uuid
    BY <1>1, <1>2, <1>4
  <2> QED
    BY <1>1, <1>4, <2>1, RewriteWrites
<1>6. NotesDbOK(new)
  BY <1>1, <1>3, <1>5 DEF NotesDbOK
<1>7. Touched(db.notes, f, t)
  BY <1>2, <1>4 DEF Touched
<1>8. Remembered(db, new)
  BY <1>2, <1>3, <1>4 DEF Remembered
<1> QED
  BY <1>3, <1>5, <1>6, <1>7, <1>8 DEF NotesWritten, new

\* A restored note: the row is deleted and older than now, or there is none.
LEMMA RestoreNoteWrites ==
  ASSUME NEW db, NotesDbOK(db), NEW row \in NoteRow, NEW t \in 0..MaxClock,
         \A i \in WithUuid(db.notes, row.uuid) : db.notes[i].updated.ms < t
  PROVE  NotesWritten(db, [db EXCEPT !.notes = RestoredNotes(@, row, Iso(t))], t)
<1> DEFINE rows == RestoredNotes(db.notes, row, Iso(t))
           new == [db EXCEPT !.notes = RestoredNotes(@, row, Iso(t))]
<1>1. db.notes \in Seq(NoteRow) /\ db.version \in Nat
      /\ \A i \in DOMAIN db.notes : db.notes[i] \in NoteRow
  BY Positions DEF NotesDbOK
<1>2. /\ DOMAIN new = {"notes", "history", "relations", "version"}
      /\ new.notes = rows
      /\ new.history = db.history
      /\ new.version = db.version
  BY DEF NotesDbOK
<1>3. /\ rows \in Seq(NoteRow) /\ RowsWritten(db.notes, rows)
      /\ Touched(db.notes, rows, t)
      /\ \A i \in DOMAIN db.notes : rows[i].content = db.notes[i].content
  <2>1. CASE Known(db.notes, row)
    <3> DEFINE f == [i \in DOMAIN db.notes |->
                        IF db.notes[i].uuid = row.uuid
                        THEN [db.notes[i] EXCEPT !.deleted = FALSE, !.updated = Iso(t)]
                        ELSE db.notes[i]]
    <3>1. rows = f
      BY <2>1 DEF RestoredNotes, Revived
    <3>2. \A i \in DOMAIN db.notes :
             /\ f[i] \in NoteRow /\ f[i].uuid = db.notes[i].uuid
             /\ f[i].content = db.notes[i].content
             /\ f[i] = db.notes[i] \/ (db.notes[i].uuid = row.uuid /\ f[i].updated.ms = t)
      BY <1>1, StampsAreStamps DEF NoteRow
    <3>3. DOMAIN f = DOMAIN db.notes /\ f = [i \in DOMAIN db.notes |-> f[i]]
      OBVIOUS
    <3> HIDE DEF f
    <3>4. f \in Seq(NoteRow) /\ RowsWritten(db.notes, f)
      BY <1>1, <3>2, <3>3, RewriteWrites
    <3>5. Touched(db.notes, f, t)
      BY <3>2 DEF Touched, WithUuid
    <3> QED
      BY <3>1, <3>2, <3>4, <3>5
  <2>2. CASE ~Known(db.notes, row)
    <3>1. rows = Append(db.notes, row)
      BY <2>2 DEF RestoredNotes
    <3>2. \A i \in DOMAIN db.notes : db.notes[i].uuid # row.uuid
      BY <2>2 DEF Known, WithUuid
    <3> HIDE DEF rows
    <3> QED
      BY <1>1, <3>1, <3>2, AppendWrites DEF Touched
  <2> QED
    BY <2>1, <2>2
<1> HIDE DEF rows, new
<1>4. NotesDbOK(new)
  BY <1>1, <1>2, <1>3 DEF NotesDbOK
<1>5. Remembered(db, new)
  BY <1>2, <1>3 DEF Remembered
<1> QED
  BY <1>2, <1>3, <1>4, <1>5 DEF NotesWritten, new

\* To write nothing is a write too.
LEMMA NothingWritten ==
  ASSUME NEW db, NEW t
  PROVE  /\ NotesDbOK(db) => NotesWritten(db, db, t)
         /\ TodoDbOK(db) => TodosWritten(db, db)
<1>1. \A rows : RowsWritten(rows, rows)
  BY DEF RowsWritten
<1>2. Touched(db.notes, db.notes, t)
  BY DEF Touched
<1>3. Remembered(db, db)
  BY DEF Remembered
<1> QED
  BY <1>1, <1>2, <1>3 DEF NotesWritten, TodosWritten

\* create_todo writes one fresh todo.
LEMMA CreateTodoWrites ==
  ASSUME NEW db, TodoDbOK(db), NEW u \in Uuid, NEW x \in Text, NEW d \in Device,
         NEW t \in 0..MaxClock, \A i \in DOMAIN db.todos : db.todos[i].uuid # u
  PROVE  TodosWritten(db, CreateTodo(db, u, x, None, <<>>, Inbox0, d, Sql(t)))
<1> DEFINE new == CreateTodo(db, u, x, None, <<>>, Inbox0, d, Sql(t))
           row == [uuid |-> u, text |-> x, due |-> None, subtasks |-> <<>>,
                   list |-> Inbox0, completed |-> FALSE, completedAt |-> None,
                   created |-> Sql(t), updated |-> Sql(t),
                   version |-> db.version + 1, dev |-> d, deleted |-> FALSE]
<1>1. row \in TodoRow /\ row.uuid = u
  BY StampsAreStamps DEF TodoRow, TodoDbOK, Dev
<1>2. /\ DOMAIN new = {"todos", "lists", "nextList", "version"}
      /\ new.todos = Append(db.todos, row)
      /\ new.version = db.version + 1
  BY DEF CreateTodo, BumpTodos, TodoDbOK
<1> HIDE DEF new, row
<1>3. new.todos \in Seq(TodoRow) /\ RowsWritten(db.todos, new.todos)
  BY <1>1, <1>2, AppendWrites DEF TodoDbOK
<1> QED
  BY <1>2, <1>3 DEF TodosWritten, TodoDbOK, new

\* A revision of one todo is a write.
LEMMA SetTodoWrites ==
  ASSUME NEW db, TodoDbOK(db), NEW id \in DOMAIN db.todos,
         NEW row \in TodoRow, row.uuid = db.todos[id].uuid
  PROVE  TodosWritten(db, SetTodo(db, id, row))
<1> DEFINE new == SetTodo(db, id, row)
           r == [row EXCEPT !.version = db.version + 1]
           f == [i \in DOMAIN db.todos |-> IF i = id THEN r ELSE db.todos[i]]
<1>1. db.todos \in Seq(TodoRow) /\ db.version \in Nat
      /\ \A i \in DOMAIN db.todos : db.todos[i] \in TodoRow
  BY Positions DEF TodoDbOK
<1>2. r \in TodoRow /\ r.uuid = db.todos[id].uuid
  <2>1. PICK n \in Nat : n = db.version + 1
    BY <1>1
  <2>2. [row EXCEPT !.version = n] \in TodoRow /\ [row EXCEPT !.version = n].uuid = row.uuid
    BY DEF TodoRow
  <2> QED
    BY <2>1, <2>2
<1>3. /\ DOMAIN new = {"todos", "lists", "nextList", "version"}
      /\ new.todos = f
      /\ new.version = db.version + 1
  BY DEF SetTodo, BumpTodos, TodoDbOK
<1> HIDE DEF new, r
<1>4. /\ \A i \in DOMAIN db.todos : f[i] \in TodoRow /\ f[i].uuid = db.todos[i].uuid
      /\ DOMAIN f = DOMAIN db.todos /\ f = [i \in DOMAIN db.todos |-> f[i]]
  BY <1>1, <1>2
<1> HIDE DEF f
<1>5. f \in Seq(TodoRow) /\ RowsWritten(db.todos, f)
  BY <1>1, <1>4, RewriteWrites
<1> QED
  BY <1>1, <1>3, <1>5 DEF TodosWritten, TodoDbOK, new

\* update_todo and delete_todo write a revision of one todo.
LEMMA UpdateTodoWrites ==
  ASSUME NEW db, TodoDbOK(db), NEW id \in DOMAIN db.todos, NEW t \in 0..MaxClock
  PROVE  /\ TodosWritten(db, UpdateTodo(db, id, [NoChange EXCEPT !.completed = TRUE],
                                        Sql(t)))
         /\ TodosWritten(db, DeleteTodo(db, id))
<1> DEFINE old == db.todos[id]
           p == [NoChange EXCEPT !.completed = TRUE]
           done == Or(p.completed, old.completed)
           row == [old EXCEPT
                     !.text = Or(p.text, @), !.due = Or(p.due, @),
                     !.subtasks = Or(p.subtasks, @), !.list = Or(p.list, @),
                     !.completed = done,
                     !.completedAt = IF done = old.completed THEN @
                                     ELSE IF done THEN Sql(t) ELSE None,
                     !.updated = Sql(t)]
           dead == [old EXCEPT !.deleted = TRUE]
<1>1. old \in TodoRow
  BY Positions DEF TodoDbOK
<1>2. /\ p.text = None /\ p.due = None /\ p.subtasks = None /\ p.list = None
      /\ p.completed = TRUE
  BY DEF NoChange
<1>3. done \in BOOLEAN
  BY <1>1, <1>2 DEF Or, TodoRow
<1>4. row \in TodoRow /\ row.uuid = old.uuid
  <2> HIDE DEF done, p
  <2> QED
    BY <1>1, <1>2, <1>3, StampsAreStamps DEF Or, TodoRow
<1>5. dead \in TodoRow /\ dead.uuid = old.uuid
  BY <1>1 DEF TodoRow
<1>6. UpdateTodo(db, id, p, Sql(t)) = SetTodo(db, id, row)
  BY DEF UpdateTodo, TodoIds
<1>7. DeleteTodo(db, id) = SetTodo(db, id, dead)
  BY DEF DeleteTodo, TodoIds
<1> HIDE DEF row, dead
<1>8. TodosWritten(db, SetTodo(db, id, row)) /\ TodosWritten(db, SetTodo(db, id, dead))
  BY <1>4, <1>5, SetTodoWrites
<1> QED
  BY <1>6, <1>7, <1>8

\* A todo restored from the trash is a write.
LEMMA RestoreTodoWrites ==
  ASSUME NEW db, TodoDbOK(db), NEW row \in TodoRow, NEW t \in 0..MaxClock
  PROVE  TodosWritten(db, [db EXCEPT !.todos = RestoredTodos(@, row, Iso(t))])
<1> DEFINE rows == RestoredTodos(db.todos, row, Iso(t))
           new == [db EXCEPT !.todos = RestoredTodos(@, row, Iso(t))]
<1>1. db.todos \in Seq(TodoRow) /\ db.version \in Nat
      /\ \A i \in DOMAIN db.todos : db.todos[i] \in TodoRow
  BY Positions DEF TodoDbOK
<1>2. /\ DOMAIN new = {"todos", "lists", "nextList", "version"}
      /\ new.todos = rows
      /\ new.version = db.version
  BY DEF TodoDbOK
<1>3. rows \in Seq(TodoRow) /\ RowsWritten(db.todos, rows)
  <2>1. CASE Known(db.todos, row)
    <3> DEFINE f == [i \in DOMAIN db.todos |->
                        IF db.todos[i].uuid = row.uuid
                        THEN [db.todos[i] EXCEPT !.deleted = FALSE, !.updated = Iso(t)]
                        ELSE db.todos[i]]
    <3>1. rows = f
      BY <2>1 DEF RestoredTodos, Revived
    <3>2. \A i \in DOMAIN db.todos : f[i] \in TodoRow /\ f[i].uuid = db.todos[i].uuid
      BY <1>1, StampsAreStamps DEF TodoRow
    <3>3. DOMAIN f = DOMAIN db.todos /\ f = [i \in DOMAIN db.todos |-> f[i]]
      OBVIOUS
    <3> HIDE DEF f
    <3>4. f \in Seq(TodoRow) /\ RowsWritten(db.todos, f)
      BY <1>1, <3>2, <3>3, RewriteWrites
    <3> QED
      BY <3>1, <3>4
  <2>2. CASE ~Known(db.todos, row)
    <3> DEFINE bare == [row EXCEPT !.subtasks = <<>>, !.list = Inbox0]
    <3>1. rows = Append(db.todos, bare)
      BY <2>2 DEF RestoredTodos
    <3>2. bare \in TodoRow /\ bare.uuid = row.uuid
      BY DEF TodoRow
    <3>3. \A i \in DOMAIN db.todos : db.todos[i].uuid # row.uuid
      BY <2>2 DEF Known, WithUuid
    <3> HIDE DEF rows, bare
    <3> QED
      BY <1>1, <3>1, <3>2, <3>3, AppendWrites
  <2> QED
    BY <2>1, <2>2
<1> HIDE DEF rows, new
<1> QED
  BY <1>1, <1>2, <1>3 DEF TodosWritten, TodoDbOK, new

-----------------------------------------------------------------------------
(* The invariant: replicas, trashes, exchanges and the cloud               *)

\* U are the uuids given out, V the revisions written, X the uuids excused.
NotesOK(db, U, V, X) == NotesDbOK(db) /\ Table(db.notes, NotesOf(U, V), X)
TodosOK(db, U, X) == TodoDbOK(db) /\ Table(db.todos, TodosOf(U), X)

SnapOK(s, U, V, X) ==
  /\ Table(s.notes.notes, NotesOf(U, V), X)
  /\ Table(s.todos.todos, TodosOf(U), X)

LanOK(x, U, V, X) ==
  \/ x = Idle
  \/ /\ "phase" \in DOMAIN x /\ x.phase \in {"apply", "merge", "push"}
     /\ x.phase = "apply" => "snap" \in DOMAIN x /\ SnapOK(x.snap, U, V, X)

JobOK(j, U, V, X) ==
  \/ j = Idle
  \/ /\ {"phase", "snap", "index"} \in SUBSET DOMAIN j
     /\ SnapOK(j.snap, U, V, X)
     /\ \/ j.phase = "notes" /\ j.index \in Seq(NoteRow)
        \/ j.phase = "todos" /\ j.index \in Seq(TodoRow)

CycleOK(c, U, V, X) ==
  \/ c = Idle
  \/ /\ {"phase", "table", "rows", "index"} \in SUBSET DOMAIN c
     /\ c.phase \in {"push", "merge", "mark"}
     /\ \/ c.table = "notes" /\ Table(c.rows, NotesOf(U, V), X)
        \/ c.table = "todos" /\ Table(c.rows, TodosOf(U), X)

MessageOK(m, U, V, X) == "snap" \in DOMAIN m /\ SnapOK(m.snap, U, V, X)

TrashRow == [row : NoteRow \cup TodoRow, restored : BOOLEAN]

Shapes ==
  /\ clock \in 0..MaxClock
  /\ DOMAIN notesDb = Device /\ DOMAIN todoDb = Device /\ DOMAIN trash = Device
  /\ DOMAIN lan = Device /\ DOMAIN job = Device /\ DOMAIN d1 = Device
  /\ DOMAIN cloud = {"notes", "todos", "seen"}

ReplicasOK ==
  \A d \in Device : /\ NotesOK(notesDb[d], used, written, doubled)
                    /\ TodosOK(todoDb[d], used, doubled)
                    /\ trash[d] \in SUBSET TrashRow

ExchangesOK ==
  /\ \A d \in Device : /\ LanOK(lan[d], used, written, doubled)
                       /\ JobOK(job[d], used, written, doubled)
                       /\ CycleOK(d1[d], used, written, doubled)
  /\ \A m \in net : MessageOK(m, used, written, doubled)

CloudOK ==
  /\ Table(cloud.notes, NotesOf(used, written), {})
  /\ Table(cloud.todos, TodosOf(used), {})

SyncInv == Shapes /\ ReplicasOK /\ ExchangesOK /\ CloudOK

-----------------------------------------------------------------------------
(* What history adds takes nothing from the invariant                      *)

\* A longer history allows more rows.
LEMMA RowsGrow ==
  ASSUME NEW U, NEW V, NEW U2, U \in SUBSET U2, NEW V2, V \in SUBSET V2
  PROVE  NotesOf(U, V) \in SUBSET NotesOf(U2, V2) /\ TodosOf(U) \in SUBSET TodosOf(U2)
BY DEF NotesOf, TodosOf

\* So what the invariant says of a part of the state survives a longer history,
LEMMA PartsGrow ==
  ASSUME NEW U, NEW V, NEW X, NEW U2, U \in SUBSET U2, NEW V2, V \in SUBSET V2,
         NEW X2, X \in SUBSET X2
  PROVE  /\ \A db : NotesOK(db, U, V, X) => NotesOK(db, U2, V2, X2)
         /\ \A db : TodosOK(db, U, X) => TodosOK(db, U2, X2)
         /\ \A s : SnapOK(s, U, V, X) => SnapOK(s, U2, V2, X2)
         /\ \A x : LanOK(x, U, V, X) => LanOK(x, U2, V2, X2)
         /\ \A x : JobOK(x, U, V, X) => JobOK(x, U2, V2, X2)
         /\ \A x : CycleOK(x, U, V, X) => CycleOK(x, U2, V2, X2)
         /\ \A m : MessageOK(m, U, V, X) => MessageOK(m, U2, V2, X2)
<1>1. /\ \A rows : Table(rows, NotesOf(U, V), X) => Table(rows, NotesOf(U2, V2), X2)
      /\ \A rows : Table(rows, TodosOf(U), X) => Table(rows, TodosOf(U2), X2)
  BY RowsGrow, TableGrows
<1>2. \A s : SnapOK(s, U, V, X) => SnapOK(s, U2, V2, X2)
  BY <1>1 DEF SnapOK
<1>3. \A db : NotesOK(db, U, V, X) => NotesOK(db, U2, V2, X2)
  BY <1>1 DEF NotesOK
<1>4. \A db : TodosOK(db, U, X) => TodosOK(db, U2, X2)
  BY <1>1 DEF TodosOK
<1>5. \A x : LanOK(x, U, V, X) => LanOK(x, U2, V2, X2)
  BY <1>2 DEF LanOK
<1>6. \A x : JobOK(x, U, V, X) => JobOK(x, U2, V2, X2)
  BY <1>2 DEF JobOK
<1>7. \A x : CycleOK(x, U, V, X) => CycleOK(x, U2, V2, X2)
  BY <1>1 DEF CycleOK
<1>8. \A m : MessageOK(m, U, V, X) => MessageOK(m, U2, V2, X2)
  BY <1>2 DEF MessageOK
<1> QED
  BY <1>2, <1>3, <1>4, <1>5, <1>6, <1>7, <1>8

\* Nor does the loss of the flag "clean".
LEMMA SoilingKeeps ==
  ASSUME NEW U, NEW V, NEW X
  PROVE  /\ \A x : LanOK(x, U, V, X) => LanOK(Soiled(x), U, V, X)
         /\ \A x : JobOK(x, U, V, X) => JobOK(Soiled(x), U, V, X)
         /\ \A x : CycleOK(x, U, V, X) => CycleOK(Soiled(x), U, V, X)
         /\ \A m : MessageOK(m, U, V, X) => MessageOK(Soiled(m), U, V, X)
<1>1. ASSUME NEW x, x # Idle
      PROVE  /\ DOMAIN Soiled(x) = DOMAIN x
             /\ \A f \in DOMAIN x : f # "clean" => Soiled(x)[f] = x[f]
  BY <1>1 DEF Soiled
<1>2. Soiled(Idle) = Idle
  BY DEF Soiled
<1>3. \A x : LanOK(x, U, V, X) => LanOK(Soiled(x), U, V, X)
  BY <1>1, <1>2 DEF LanOK
<1>4. \A x : JobOK(x, U, V, X) => JobOK(Soiled(x), U, V, X)
  BY <1>1, <1>2 DEF JobOK
<1>5. \A x : CycleOK(x, U, V, X) => CycleOK(Soiled(x), U, V, X)
  BY <1>1, <1>2 DEF CycleOK
<1>6. \A m : MessageOK(m, U, V, X) => MessageOK(Soiled(m), U, V, X)
  BY <1>1, <1>2 DEF MessageOK
<1> QED
  BY <1>3, <1>4, <1>5, <1>6

\* All there is, under a longer history.
StillOK(U, V, X) ==
  /\ \A d \in Device :
        /\ NotesOK(notesDb[d], U, V, X) /\ TodosOK(todoDb[d], U, X)
        /\ SnapOK(Snapshot(d), U, V, X)
        /\ LanOK(lan[d], U, V, X) /\ LanOK(Soiled(lan[d]), U, V, X)
        /\ JobOK(job[d], U, V, X) /\ JobOK(Soiled(job[d]), U, V, X)
        /\ CycleOK(d1[d], U, V, X) /\ CycleOK(Soiled(d1[d]), U, V, X)
        /\ LanOK(Idle, U, V, X) /\ JobOK(Idle, U, V, X) /\ CycleOK(Idle, U, V, X)
  /\ \A m \in net : MessageOK(m, U, V, X) /\ MessageOK(Soiled(m), U, V, X)
  /\ Table(cloud.notes, NotesOf(U, V), {})
  /\ Table(cloud.todos, TodosOf(U), {})

\* as does what it says of all replicas, exchanges and the cloud.
LEMMA HistoryGrows ==
  ASSUME SyncInv, NEW U, used \in SUBSET U, NEW V, written \in SUBSET V,
         NEW X, doubled \in SUBSET X
  PROVE  StillOK(U, V, X)
<1>1. ASSUME NEW d \in Device
      PROVE  /\ NotesOK(notesDb[d], U, V, X) /\ TodosOK(todoDb[d], U, X)
             /\ LanOK(lan[d], U, V, X) /\ JobOK(job[d], U, V, X)
             /\ CycleOK(d1[d], U, V, X)
  <2>1. /\ NotesOK(notesDb[d], used, written, doubled)
        /\ TodosOK(todoDb[d], used, doubled)
        /\ LanOK(lan[d], used, written, doubled)
        /\ JobOK(job[d], used, written, doubled)
        /\ CycleOK(d1[d], used, written, doubled)
    BY DEF SyncInv, ReplicasOK, ExchangesOK
  <2> QED
    BY <2>1, PartsGrow
<1>2. ASSUME NEW m \in net PROVE MessageOK(m, U, V, X)
  <2>1. MessageOK(m, used, written, doubled)
    BY DEF SyncInv, ExchangesOK
  <2> QED
    BY <2>1, PartsGrow
<1>3. Table(cloud.notes, NotesOf(U, V), {}) /\ Table(cloud.todos, TodosOf(U), {})
  BY RowsGrow, TableGrows DEF SyncInv, CloudOK
<1>4. ASSUME NEW d \in Device PROVE SnapOK(Snapshot(d), U, V, X)
  BY <1>1 DEF SnapOK, Snapshot, ExportInbox, ExportTodo, NotesOK, TodosOK
<1>5. LanOK(Idle, U, V, X) /\ JobOK(Idle, U, V, X) /\ CycleOK(Idle, U, V, X)
  BY DEF LanOK, JobOK, CycleOK
<1>6. ASSUME NEW d \in Device
      PROVE  /\ LanOK(Soiled(lan[d]), U, V, X) /\ JobOK(Soiled(job[d]), U, V, X)
             /\ CycleOK(Soiled(d1[d]), U, V, X)
  BY <1>1, SoilingKeeps
<1>7. ASSUME NEW m \in net PROVE MessageOK(Soiled(m), U, V, X)
  BY <1>2, SoilingKeeps
<1> QED
  BY <1>1, <1>2, <1>3, <1>4, <1>5, <1>6, <1>7 DEF StillOK

\* A sequence whose elements are all in Q is a sequence of Q.
LEMMA SeqOfRows ==
  ASSUME NEW S, NEW rows \in Seq(S), NEW Q, \A i \in DOMAIN rows : rows[i] \in Q
  PROVE  rows \in Seq(Q)
<1>1. Len(rows) \in Nat /\ DOMAIN rows = 1..Len(rows)
  OBVIOUS
<1>2. rows \in [1..Len(rows) -> Q]
  BY <1>1
<1> QED
  BY <1>1, <1>2, SegmentIsSeq

-----------------------------------------------------------------------------
(* Users                                                                   *)

\* A step by which the user writes to one device keeps the invariant.
LEMMA UserStep ==
  ASSUME SyncInv, NEW d \in Device, NEW notes, NEW todos, NEW t \in 0..MaxClock,
         UserWrites(d, notes, todos, t),
         NotesWritten(notesDb[d], notes, t), TodosWritten(todoDb[d], todos),
         DOMAIN trash' = Device, \A e \in Device : trash'[e] \in SUBSET TrashRow
  PROVE  SyncInv'
<1> DEFINE U == used'
           V == written'
           X == doubled
<1>1. /\ U = used \cup {notes.notes[i].uuid : i \in DOMAIN notes.notes}
                  \cup {todos.todos[i].uuid : i \in DOMAIN todos.todos}
      /\ V = written \cup {Revision(notes.notes[i]) : i \in DOMAIN notes.notes}
      /\ doubled' = doubled /\ cloud' = cloud /\ clock' = t
      /\ notesDb' = [notesDb EXCEPT ![d] = notes]
      /\ todoDb' = [todoDb EXCEPT ![d] = todos]
      /\ lan' = SoiledAll(lan) /\ job' = SoiledAll(job) /\ d1' = SoiledAll(d1)
      /\ net' = {Soiled(m) : m \in net}
  BY DEF UserWrites, Revisions, NoteIds, TodoIds
<1> HIDE DEF U, V
<1>2. StillOK(U, V, X)
  BY <1>1, HistoryGrows
<1>3. NotesOK(notes, U, V, X)
  <2>1. /\ NotesDbOK(notes) /\ notes.notes \in Seq(NoteRow)
        /\ RowsWritten(notesDb[d].notes, notes.notes)
    BY DEF NotesWritten, NotesDbOK
  <2>2. ASSUME NEW i \in DOMAIN notes.notes PROVE notes.notes[i] \in NotesOf(U, V)
    <3>1. notes.notes[i] \in NoteRow
      BY <2>1, Positions
    <3> QED
      BY <1>1, <3>1 DEF NotesOf
  <2>3. notes.notes \in Seq(NotesOf(U, V))
    BY <2>1, <2>2, SeqOfRows
  <2>4. Table(notesDb[d].notes, NotesOf(U, V), X)
    BY <1>2 DEF StillOK, NotesOK
  <2>5. Table(notes.notes, NotesOf(U, V), X)
    BY <2>1, <2>3, <2>4, WrittenIsTable
  <2> QED
    BY <2>1, <2>5 DEF NotesOK
<1>4. TodosOK(todos, U, X)
  <2>1. /\ TodoDbOK(todos) /\ todos.todos \in Seq(TodoRow)
        /\ RowsWritten(todoDb[d].todos, todos.todos)
    BY DEF TodosWritten, TodoDbOK
  <2>2. ASSUME NEW i \in DOMAIN todos.todos PROVE todos.todos[i] \in TodosOf(U)
    <3>1. todos.todos[i] \in TodoRow
      BY <2>1, Positions
    <3> QED
      BY <1>1, <3>1 DEF TodosOf
  <2>3. todos.todos \in Seq(TodosOf(U))
    BY <2>1, <2>2, SeqOfRows
  <2>4. Table(todoDb[d].todos, TodosOf(U), X)
    BY <1>2 DEF StillOK, TodosOK
  <2>5. Table(todos.todos, TodosOf(U), X)
    BY <2>1, <2>3, <2>4, WrittenIsTable
  <2> QED
    BY <2>1, <2>5 DEF TodosOK
<1>5. Shapes
  BY DEF SyncInv
<1>6. Shapes'
  BY <1>1, <1>5 DEF Shapes, SoiledAll
<1>7. ReplicasOK'
  <2> SUFFICES ASSUME NEW e \in Device
               PROVE  /\ NotesOK(notesDb'[e], U, V, X) /\ TodosOK(todoDb'[e], U, X)
                      /\ trash'[e] \in SUBSET TrashRow
    BY <1>1 DEF ReplicasOK, U, V
  <2>1. CASE e = d
    BY <1>1, <1>3, <1>4, <1>5, <2>1 DEF Shapes
  <2>2. CASE e # d
    BY <1>1, <1>2, <1>5, <2>2 DEF Shapes, StillOK
  <2> QED
    BY <2>1, <2>2
<1>8. ExchangesOK'
  <2>1. ASSUME NEW e \in Device
        PROVE  /\ LanOK(lan'[e], U, V, X) /\ JobOK(job'[e], U, V, X)
               /\ CycleOK(d1'[e], U, V, X)
    BY <1>1, <1>2 DEF StillOK, SoiledAll
  <2>2. \A m \in net' : MessageOK(m, U, V, X)
    BY <1>1, <1>2 DEF StillOK
  <2> QED
    BY <1>1, <2>1, <2>2 DEF ExchangesOK, U, V
<1>9. CloudOK'
  BY <1>1, <1>2 DEF CloudOK, StillOK, U, V
<1> QED
  BY <1>6, <1>7, <1>8, <1>9 DEF SyncInv

\* What every action of a user comes to.
UserActs(d, notes, todos, t) ==
  /\ t \in 0..MaxClock
  /\ UserWrites(d, notes, todos, t)
  /\ NotesWritten(notesDb[d], notes, t)
  /\ TodosWritten(todoDb[d], todos)
  /\ DOMAIN trash' = Device
  /\ \A e \in Device : /\ trash'[e] \in SUBSET TrashRow
                       /\ \A x \in trash[e] : \E y \in trash'[e] : y.row = x.row

\* A uuid never used names no row of a replica.
LEMMA UnusedUuids ==
  ASSUME SyncInv, NEW d \in Device, NEW u \in Uuid \ used
  PROVE  /\ \A i \in DOMAIN notesDb[d].notes : notesDb[d].notes[i].uuid # u
         /\ \A i \in DOMAIN todoDb[d].todos : todoDb[d].todos[i].uuid # u
<1>1. /\ notesDb[d].notes \in Seq(NotesOf(used, written))
      /\ todoDb[d].todos \in Seq(TodosOf(used))
  BY DEF SyncInv, ReplicasOK, NotesOK, TodosOK, Table
<1>2. \A i \in DOMAIN notesDb[d].notes : notesDb[d].notes[i] \in NotesOf(used, written)
  BY <1>1, Positions
<1>3. \A i \in DOMAIN todoDb[d].todos : todoDb[d].todos[i] \in TodosOf(used)
  BY <1>1, Positions
<1> QED
  BY <1>2, <1>3 DEF NotesOf, TodosOf

\* The user's actions are writes of that kind.
LEMMA WriteNoteActs ==
  ASSUME SyncInv, NEW d \in Device, WriteNote(d)
  PROVE  \E notes, todos, t : UserActs(d, notes, todos, t)
<1> DEFINE db == notesDb[d]
<1>1. NotesDbOK(db) /\ TodoDbOK(todoDb[d])
  BY DEF SyncInv, ReplicasOK, NotesOK, TodosOK
<1>2. PICK t \in Instant : \E new :
         /\ UserWrites(d, new, todoDb[d], t) /\ UNCHANGED trash
         /\ \/ \E u \in Uuid \ used, c \in Content :
                  new = CreateNote(db, u, c, {}, d, Sql(t))
            \/ \E i \in DOMAIN db.notes :
                  /\ db.notes[i].updated.ms < t
                  /\ \/ \E c \in Content : new = UpdateNote(db, i, c, {}, d, Sql(t))
                     \/ new = DeleteNote(db, i, d, Sql(t))
  BY DEF WriteNote, NoteIds
<1>3. PICK new :
         /\ UserWrites(d, new, todoDb[d], t) /\ UNCHANGED trash
         /\ \/ \E u \in Uuid \ used, c \in Content :
                  new = CreateNote(db, u, c, {}, d, Sql(t))
            \/ \E i \in DOMAIN db.notes :
                  /\ db.notes[i].updated.ms < t
                  /\ \/ \E c \in Content : new = UpdateNote(db, i, c, {}, d, Sql(t))
                     \/ new = DeleteNote(db, i, d, Sql(t))
  BY <1>2
<1>4. t \in 0..MaxClock
  BY DEF Instant
<1> HIDE DEF db
<1>5. NotesWritten(db, new, t)
  <2>1. ASSUME NEW u \in Uuid \ used, NEW c \in Content,
               new = CreateNote(db, u, c, {}, d, Sql(t))
        PROVE  NotesWritten(db, new, t)
    <3>1. \A i \in DOMAIN db.notes : db.notes[i].uuid # u
      BY UnusedUuids DEF db
    <3> QED
      BY <1>1, <1>4, <2>1, <3>1, CreateNoteWrites
  <2>2. ASSUME NEW i \in DOMAIN db.notes, db.notes[i].updated.ms < t,
               NEW c \in Content, new = UpdateNote(db, i, c, {}, d, Sql(t))
        PROVE  NotesWritten(db, new, t)
    BY <1>1, <1>4, <2>2, UpdateNoteWrites
  <2>3. ASSUME NEW i \in DOMAIN db.notes, db.notes[i].updated.ms < t,
               new = DeleteNote(db, i, d, Sql(t))
        PROVE  NotesWritten(db, new, t)
    BY <1>1, <1>4, <2>3, DeleteNoteWrites
  <2> QED
    BY <1>3, <2>1, <2>2, <2>3
<1>6. TodosWritten(todoDb[d], todoDb[d])
  BY <1>1, NothingWritten
<1>7. /\ DOMAIN trash' = Device
      /\ \A e \in Device : /\ trash'[e] \in SUBSET TrashRow
                           /\ \A x \in trash[e] : \E y \in trash'[e] : y.row = x.row
  BY <1>3 DEF SyncInv, Shapes, ReplicasOK
<1>8. UserActs(d, new, todoDb[d], t)
  BY <1>3, <1>4, <1>5, <1>6, <1>7 DEF UserActs, db
<1> QED
  BY <1>8

LEMMA WriteTodoActs ==
  ASSUME SyncInv, NEW d \in Device, WriteTodo(d)
  PROVE  \E notes, todos, t : UserActs(d, notes, todos, t)
<1> DEFINE db == todoDb[d]
<1>1. NotesDbOK(notesDb[d]) /\ TodoDbOK(db)
  BY DEF SyncInv, ReplicasOK, NotesOK, TodosOK
<1> DEFINE Made(new, t) ==
             \/ \E u \in Uuid \ used, x \in Text :
                   new = CreateTodo(db, u, x, None, <<>>, Inbox0, d, Sql(t))
             \/ \E i \in DOMAIN db.todos :
                   \/ new = UpdateTodo(db, i, [NoChange EXCEPT !.completed = TRUE], Sql(t))
                   \/ new = DeleteTodo(db, i)
<1>2. PICK t \in Instant : \E new :
         UserWrites(d, notesDb[d], new, t) /\ UNCHANGED trash /\ Made(new, t)
  BY DEF WriteTodo, TodoIds
<1>3. PICK new : UserWrites(d, notesDb[d], new, t) /\ UNCHANGED trash /\ Made(new, t)
  BY <1>2
<1>4. t \in 0..MaxClock
  BY DEF Instant
<1> HIDE DEF db
<1>5. TodosWritten(db, new)
  <2>1. ASSUME NEW u \in Uuid \ used, NEW x \in Text,
               new = CreateTodo(db, u, x, None, <<>>, Inbox0, d, Sql(t))
        PROVE  TodosWritten(db, new)
    <3>1. \A i \in DOMAIN db.todos : db.todos[i].uuid # u
      BY UnusedUuids DEF db
    <3> QED
      BY <1>1, <1>4, <2>1, <3>1, CreateTodoWrites
  <2>2. ASSUME NEW i \in DOMAIN db.todos,
               \/ new = UpdateTodo(db, i, [NoChange EXCEPT !.completed = TRUE], Sql(t))
               \/ new = DeleteTodo(db, i)
        PROVE  TodosWritten(db, new)
    BY <1>1, <1>4, <2>2, UpdateTodoWrites
  <2> QED
    BY <1>3, <2>1, <2>2
<1>6. NotesWritten(notesDb[d], notesDb[d], t)
  BY <1>1, NothingWritten
<1>7. /\ DOMAIN trash' = Device
      /\ \A e \in Device : /\ trash'[e] \in SUBSET TrashRow
                           /\ \A x \in trash[e] : \E y \in trash'[e] : y.row = x.row
  BY <1>3 DEF SyncInv, Shapes, ReplicasOK
<1>8. UserActs(d, notesDb[d], new, t)
  BY <1>3, <1>4, <1>5, <1>6, <1>7 DEF UserActs, db
<1> QED
  BY <1>8

\* Only notes have a content.
LEMMA NotesHaveContent ==
  /\ \A row \in NoteRow : "content" \in DOMAIN row
  /\ \A row \in TodoRow : "content" \notin DOMAIN row
BY DEF NoteRow, TodoRow

LEMMA RestoreTrashActs ==
  ASSUME SyncInv, NEW d \in Device, RestoreTrash(d)
  PROVE  \E notes, todos, t : UserActs(d, notes, todos, t)
<1>1. NotesDbOK(notesDb[d]) /\ TodoDbOK(todoDb[d]) /\ trash[d] \in SUBSET TrashRow
  BY DEF SyncInv, ReplicasOK, NotesOK, TodosOK
<1> DEFINE noteOf(e, t) == [notesDb[d] EXCEPT !.notes = RestoredNotes(@, e.row, Iso(t))]
           todoOf(e, t) == [todoDb[d] EXCEPT !.todos = RestoredTodos(@, e.row, Iso(t))]
           Older(e, t) == \A i \in WithUuid(notesDb[d].notes, e.row.uuid) :
                             notesDb[d].notes[i].updated.ms < t
           isNote(e) == "content" \in DOMAIN e.row
<1>2. PICK e \in trash[d] : \E t \in Instant :
         /\ UserWrites(d, IF isNote(e) THEN noteOf(e, t) ELSE notesDb[d],
                          IF isNote(e) THEN todoDb[d] ELSE todoOf(e, t), t)
         /\ isNote(e) => Older(e, t)
         /\ trash' = [trash EXCEPT ![d] = (@ \ {e}) \cup {[e EXCEPT !.restored = TRUE]}]
  <2>1. PICK e \in trash[d], t \in Instant :
           LET note == isNote(e)
               rows == IF note THEN notesDb[d].notes ELSE todoDb[d].todos
           IN  /\ \A i \in WithUuid(rows, e.row.uuid) : rows[i].updated.ms < t
               /\ UserWrites(d,
                      IF note THEN noteOf(e, t) ELSE notesDb[d],
                      IF note THEN todoDb[d] ELSE todoOf(e, t), t)
               /\ trash' = [trash EXCEPT ![d] =
                                (@ \ {e}) \cup {[e EXCEPT !.restored = TRUE]}]
    BY DEF RestoreTrash
  <2>2. isNote(e) => Older(e, t)
    BY <2>1
  <2> HIDE DEF noteOf, todoOf, isNote, Older
  <2> QED
    BY <2>1, <2>2
<1>3. PICK t \in Instant :
         /\ UserWrites(d, IF isNote(e) THEN noteOf(e, t) ELSE notesDb[d],
                          IF isNote(e) THEN todoDb[d] ELSE todoOf(e, t), t)
         /\ isNote(e) => Older(e, t)
         /\ trash' = [trash EXCEPT ![d] = (@ \ {e}) \cup {[e EXCEPT !.restored = TRUE]}]
  BY <1>2
<1>4. t \in 0..MaxClock
  BY DEF Instant
<1>5. e \in TrashRow /\ e.row \in NoteRow \cup TodoRow
  BY <1>1 DEF TrashRow
<1>6. /\ DOMAIN trash' = Device
      /\ \A f \in Device : /\ trash'[f] \in SUBSET TrashRow
                           /\ \A x \in trash[f] : \E y \in trash'[f] : y.row = x.row
  <2> DEFINE e2 == [e EXCEPT !.restored = TRUE]
  <2>1. e2 \in TrashRow /\ e2.row = e.row
    BY <1>5 DEF TrashRow
  <2>2. DOMAIN trash = Device /\ \A f \in Device : trash[f] \in SUBSET TrashRow
    BY DEF SyncInv, Shapes, ReplicasOK
  <2> HIDE DEF e2
  <2>3. trash' = [trash EXCEPT ![d] = (@ \ {e}) \cup {e2}]
    BY <1>3 DEF e2
  <2>4. /\ DOMAIN trash' = Device
        /\ trash'[d] = (trash[d] \ {e}) \cup {e2}
        /\ \A f \in Device : f # d => trash'[f] = trash[f]
    BY <2>2, <2>3
  <2> QED
    BY <2>1, <2>2, <2>4
<1>7. CASE isNote(e)
  <2>1. e.row \in NoteRow
    BY <1>5, <1>7, NotesHaveContent
  <2>2. NotesWritten(notesDb[d], noteOf(e, t), t)
    BY <1>1, <1>3, <1>4, <1>7, <2>1, RestoreNoteWrites
  <2>3. TodosWritten(todoDb[d], todoDb[d])
    BY <1>1, NothingWritten
  <2>4. UserWrites(d, noteOf(e, t), todoDb[d], t)
    BY <1>3, <1>7
  <2> HIDE DEF noteOf
  <2>5. UserActs(d, noteOf(e, t), todoDb[d], t)
    BY <1>4, <1>6, <2>2, <2>3, <2>4 DEF UserActs
  <2> QED
    BY <2>5
<1>8. CASE ~isNote(e)
  <2>1. e.row \in TodoRow
    BY <1>5, <1>8, NotesHaveContent
  <2>2. TodosWritten(todoDb[d], todoOf(e, t))
    BY <1>1, <1>4, <2>1, RestoreTodoWrites
  <2>3. NotesWritten(notesDb[d], notesDb[d], t)
    BY <1>1, NothingWritten
  <2>4. UserWrites(d, notesDb[d], todoOf(e, t), t)
    BY <1>3, <1>8
  <2> HIDE DEF todoOf
  <2>5. UserActs(d, notesDb[d], todoOf(e, t), t)
    BY <1>4, <1>6, <2>2, <2>3, <2>4 DEF UserActs
  <2> QED
    BY <2>5
<1> QED
  BY <1>7, <1>8

\* So they keep the invariant.
LEMMA UserKeepsInv ==
  ASSUME SyncInv, NEW d \in Device, NEW notes, NEW todos, NEW t,
         UserActs(d, notes, todos, t)
  PROVE  SyncInv'
BY UserStep DEF UserActs

\* The user empties the trash, or forgets the checkpoints.
LEMMA DeleteTrashKeepsInv ==
  ASSUME SyncInv, NEW d \in Device, DeleteTrash(d)
  PROVE  SyncInv'
<1>1. PICK es : trash' = [trash EXCEPT ![d] = @ \ es]
  BY DEF DeleteTrash
<1>2. UNCHANGED <<clock, notesDb, todoDb, exchanges, cloud, written, used, doubled>>
  BY DEF DeleteTrash
<1>3. Shapes /\ ReplicasOK /\ ExchangesOK /\ CloudOK
  BY DEF SyncInv
<1>4. DOMAIN trash' = Device /\ \A e \in Device : trash'[e] \in SUBSET TrashRow
  BY <1>1, <1>3 DEF Shapes, ReplicasOK
<1>5. Shapes' /\ ReplicasOK'
  BY <1>2, <1>3, <1>4 DEF Shapes, ReplicasOK, exchanges
<1>6. ExchangesOK' /\ CloudOK'
  BY <1>2, <1>3 DEF ExchangesOK, CloudOK, exchanges
<1> QED
  BY <1>5, <1>6 DEF SyncInv

\* So does the API call that clears a checkpoint.
LEMMA ClearCheckpointKeepsInv ==
  ASSUME SyncInv, NEW d \in Device, ClearCheckpoint(d)
  PROVE  SyncInv'
<1>1. /\ cloud' = [cloud EXCEPT !.seen = Forgotten(@, d)]
      /\ d1' = SoiledAll(d1)
      /\ UNCHANGED <<clock, notesDb, todoDb, trash, lan, net, job, written, used, doubled>>
  BY DEF ClearCheckpoint, replicas, history
<1>2. Shapes /\ ReplicasOK /\ ExchangesOK /\ CloudOK
  BY DEF SyncInv
<1>3. StillOK(used, written, doubled)
  BY HistoryGrows
<1>4. /\ DOMAIN cloud' = {"notes", "todos", "seen"}
      /\ cloud'.notes = cloud.notes /\ cloud'.todos = cloud.todos
  BY <1>1, <1>2 DEF Shapes
<1>5. DOMAIN d1' = Device /\ \A e \in Device : CycleOK(d1'[e], used, written, doubled)
  BY <1>1, <1>3 DEF SoiledAll, StillOK
<1>6. Shapes' /\ ReplicasOK'
  BY <1>1, <1>2, <1>4, <1>5 DEF Shapes, ReplicasOK
<1>7. ExchangesOK' /\ CloudOK'
  BY <1>1, <1>2, <1>4, <1>5 DEF ExchangesOK, CloudOK
<1> QED
  BY <1>6, <1>7 DEF SyncInv

\* Empty tables are tables.
LEMMA EmptyIsOK ==
  ASSUME NEW U, NEW V, NEW X
  PROVE  /\ NotesOK(EmptyNotes, U, V, X) /\ TodosOK(EmptyTodos, U, X)
         /\ \A R : Table(<<>>, R, X)
<1>1. \A R : Table(<<>>, R, X)
  BY DEF Table, Keyed
<1>2. /\ DOMAIN EmptyNotes = {"notes", "history", "relations", "version"}
      /\ EmptyNotes.notes = <<>> /\ EmptyNotes.version = 0
  BY DEF EmptyNotes
<1>3. /\ DOMAIN EmptyTodos = {"todos", "lists", "nextList", "version"}
      /\ EmptyTodos.todos = <<>> /\ EmptyTodos.version = 0
  BY DEF EmptyTodos
<1>4. NotesOK(EmptyNotes, U, V, X)
  BY <1>1, <1>2 DEF NotesOK, NotesDbOK
<1>5. TodosOK(EmptyTodos, U, X)
  BY <1>1, <1>3 DEF TodosOK, TodoDbOK
<1> QED
  BY <1>1, <1>4, <1>5

\* A device is installed again.
LEMMA ResetKeepsInv ==
  ASSUME SyncInv, NEW d \in Device, Reset(d)
  PROVE  SyncInv'
<1>1. /\ notesDb' = [notesDb EXCEPT ![d] = EmptyNotes]
      /\ todoDb' = [todoDb EXCEPT ![d] = EmptyTodos]
      /\ lan' = [SoiledAll(lan) EXCEPT ![d] = Idle]
      /\ net' = {Soiled(m) : m \in net}
      /\ job' = SoiledAll(job)
      /\ d1' = [SoiledAll(d1) EXCEPT ![d] = Idle]
      /\ UNCHANGED <<clock, trash, cloud, written, used, doubled>>
  BY DEF Reset
<1>2. Shapes /\ ReplicasOK /\ ExchangesOK /\ CloudOK
  BY DEF SyncInv
<1>3. StillOK(used, written, doubled)
  BY HistoryGrows
<1>4. Shapes'
  BY <1>1, <1>2 DEF Shapes, SoiledAll
<1>5. ReplicasOK'
  <2>1. NotesOK(EmptyNotes, used, written, doubled) /\ TodosOK(EmptyTodos, used, doubled)
    BY EmptyIsOK
  <2> QED
    BY <1>1, <1>2, <2>1 DEF Shapes, ReplicasOK
<1>6. ExchangesOK'
  <2>1. ASSUME NEW e \in Device
        PROVE  /\ LanOK(lan'[e], used, written, doubled)
               /\ JobOK(job'[e], used, written, doubled)
               /\ CycleOK(d1'[e], used, written, doubled)
    BY <1>1, <1>3 DEF SoiledAll, StillOK
  <2>2. \A m \in net' : MessageOK(m, used, written, doubled)
    BY <1>1, <1>3 DEF StillOK
  <2> QED
    BY <1>1, <2>1, <2>2 DEF ExchangesOK
<1>7. CloudOK'
  BY <1>1, <1>2 DEF CloudOK
<1> QED
  BY <1>4, <1>5, <1>6, <1>7 DEF SyncInv

-----------------------------------------------------------------------------
(* Merges                                                                  *)

\* A merge of tables of rows that somebody has written makes another.
LEMMA MergedDbOK ==
  ASSUME NEW U, NEW V, NEW X, NEW db, NEW new, NEW index, NEW incoming
  PROVE  /\ /\ NotesOK(db, U, V, X)
            /\ Table(incoming, NotesOf(U, V), X)
            /\ DOMAIN new = DOMAIN db /\ new.version = db.version
            /\ new.notes = Merged(db.notes, index, incoming)
            => NotesOK(new, U, V, X \cup Doubled(db.notes, index, incoming))
         /\ /\ TodosOK(db, U, X)
            /\ Table(incoming, TodosOf(U), X)
            /\ DOMAIN new = DOMAIN db /\ new.version = db.version
            /\ new.todos = Merged(db.todos, index, incoming)
            => TodosOK(new, U, X \cup Doubled(db.todos, index, incoming))
<1>1. ASSUME NotesOK(db, U, V, X), Table(incoming, NotesOf(U, V), X),
             DOMAIN new = DOMAIN db, new.version = db.version,
             new.notes = Merged(db.notes, index, incoming)
      PROVE  NotesOK(new, U, V, X \cup Doubled(db.notes, index, incoming))
  <2>1. NotesDbOK(db) /\ Table(db.notes, NotesOf(U, V), X)
    BY <1>1 DEF NotesOK
  <2>2. Table(new.notes, NotesOf(U, V), X \cup Doubled(db.notes, index, incoming))
    BY <1>1, <2>1, MergeIsTable
  <2>3. new.notes \in Seq(NotesOf(U, V))
    BY <2>2 DEF Table
  <2>4. \A i \in DOMAIN new.notes : new.notes[i] \in NoteRow
    BY <2>3, Positions DEF NotesOf
  <2>5. NotesDbOK(new)
    BY <1>1, <2>1, <2>3, <2>4, SeqOfRows DEF NotesDbOK
  <2> QED
    BY <2>2, <2>5 DEF NotesOK
<1>2. ASSUME TodosOK(db, U, X), Table(incoming, TodosOf(U), X),
             DOMAIN new = DOMAIN db, new.version = db.version,
             new.todos = Merged(db.todos, index, incoming)
      PROVE  TodosOK(new, U, X \cup Doubled(db.todos, index, incoming))
  <2>1. TodoDbOK(db) /\ Table(db.todos, TodosOf(U), X)
    BY <1>2 DEF TodosOK
  <2>2. Table(new.todos, TodosOf(U), X \cup Doubled(db.todos, index, incoming))
    BY <1>2, <2>1, MergeIsTable
  <2>3. new.todos \in Seq(TodosOf(U))
    BY <2>2 DEF Table
  <2>4. \A i \in DOMAIN new.todos : new.todos[i] \in TodoRow
    BY <2>3, Positions DEF TodosOf
  <2>5. TodoDbOK(new)
    BY <1>2, <2>1, <2>3, <2>4, SeqOfRows DEF TodoDbOK
  <2> QED
    BY <2>2, <2>5 DEF TodosOK
<1> QED
  BY <1>1, <1>2

\* What a merge of such tables archives belongs into the trash.
LEMMA ArchivedIsTrash ==
  ASSUME NEW U, NEW V, NEW X, NEW index, NEW incoming
  PROVE  /\ index \in Seq(NoteRow) /\ Table(incoming, NotesOf(U, V), X)
            => Archived(index, incoming) \in SUBSET TrashRow
         /\ index \in Seq(TodoRow) /\ Table(incoming, TodosOf(U), X)
            => Archived(index, incoming) \in SUBSET TrashRow
<1>1. ASSUME index \in Seq(NoteRow), Table(incoming, NotesOf(U, V), X)
      PROVE  Archived(index, incoming) \in SUBSET TrashRow
  <2>1. \A i \in DOMAIN incoming : incoming[i] \in NoteRow
    BY <1>1, Positions DEF Table, NotesOf
  <2>2. incoming \in Seq(NoteRow)
    BY <1>1, <2>1, SeqOfRows DEF Table
  <2> QED
    BY <1>1, <2>2, ArchivedAreRows DEF TrashRow
<1>2. ASSUME index \in Seq(TodoRow), Table(incoming, TodosOf(U), X)
      PROVE  Archived(index, incoming) \in SUBSET TrashRow
  <2>1. \A i \in DOMAIN incoming : incoming[i] \in TodoRow
    BY <1>2, Positions DEF Table, TodosOf
  <2>2. incoming \in Seq(TodoRow)
    BY <1>2, <2>1, SeqOfRows DEF Table
  <2> QED
    BY <1>2, <2>2, ArchivedAreRows DEF TrashRow
<1> QED
  BY <1>1, <1>2

\* What a job in one of its phases holds.
LEMMA JobHolds ==
  ASSUME SyncInv, NEW d \in Device
  PROVE  /\ job[d].phase = "notes" =>
               /\ job[d] # Idle /\ job[d].index \in Seq(NoteRow)
               /\ {"phase", "snap", "index"} \in SUBSET DOMAIN job[d]
               /\ SnapOK(job[d].snap, used, written, doubled)
         /\ job[d].phase = "todos" =>
               /\ job[d] # Idle /\ job[d].index \in Seq(TodoRow)
               /\ {"phase", "snap", "index"} \in SUBSET DOMAIN job[d]
               /\ SnapOK(job[d].snap, used, written, doubled)
<1>1. JobOK(job[d], used, written, doubled)
  BY DEF SyncInv, ExchangesOK
<1>2. Idle.phase = "idle"
  BY DEF Idle
<1> QED
  BY <1>1, <1>2 DEF JobOK

LEMMA MergeNotesKeepsInv ==
  ASSUME SyncInv, NEW d \in Device, MergeNotes(d)
  PROVE  SyncInv'
<1> DEFINE j == job[d]
           new == ImportInbox(notesDb[d], j.index, j.snap.notes)
           X == doubled'
           next == [j EXCEPT !.phase = "todos", !.index = todoDb[d].todos]
<1>1. /\ j.phase = "notes"
      /\ notesDb' = [notesDb EXCEPT ![d] = new]
      /\ trash' = [trash EXCEPT ![d] = @ \cup Archived(j.index, j.snap.notes.notes)]
      /\ X = doubled \cup Doubled(notesDb[d].notes, j.index, j.snap.notes.notes)
      /\ DOMAIN job' = Device
      /\ job'[d] = next
      /\ \A e \in Device : e # d => job'[e] \in {job[e], Soiled(job[e])}
      /\ DOMAIN lan' = Device
      /\ \A e \in Device : lan'[e] \in {lan[e], Soiled(lan[e])}
      /\ \A m \in net' : \E o \in net : m \in {o, Soiled(o)}
      /\ d1' \in {d1, SoiledAll(d1)}
      /\ UNCHANGED <<clock, todoDb, cloud, written, used>>
  BY DEF MergeNotes, PersistOutcome
<1>2. Shapes /\ ReplicasOK /\ ExchangesOK /\ CloudOK
  BY DEF SyncInv
<1>3. /\ j.index \in Seq(NoteRow) /\ {"phase", "snap", "index"} \in SUBSET DOMAIN j
      /\ Table(j.snap.notes.notes, NotesOf(used, written), doubled)
      /\ j # Idle
  BY <1>1, JobHolds DEF SnapOK
<1>4. NotesOK(notesDb[d], used, written, doubled) /\ trash[d] \in SUBSET TrashRow
  BY <1>2 DEF ReplicasOK
<1>5. NotesOK(new, used, written, X)
  <2>1. /\ DOMAIN new = DOMAIN notesDb[d] /\ new.version = notesDb[d].version
        /\ new.notes = Merged(notesDb[d].notes, j.index, j.snap.notes.notes)
    BY <1>4 DEF ImportInbox, NotesOK, NotesDbOK
  <2> HIDE DEF new, j
  <2>2. NotesOK(new, used, written,
                doubled \cup Doubled(notesDb[d].notes, j.index, j.snap.notes.notes))
    BY <1>3, <1>4, <2>1, MergedDbOK
  <2> QED
    BY <1>1, <2>2
<1>6. Archived(j.index, j.snap.notes.notes) \in SUBSET TrashRow
  BY <1>3, ArchivedIsTrash
<1>7. StillOK(used, written, X)
  BY <1>1, HistoryGrows
<1>8. JobOK(next, used, written, X)
  <2>1. JobOK(job[d], used, written, X) /\ todoDb[d].todos \in Seq(TodoRow)
    BY <1>2, <1>7 DEF StillOK, ReplicasOK, TodosOK, TodoDbOK
  <2>2. SnapOK(job[d].snap, used, written, X)
    BY <1>3, <2>1 DEF JobOK
  <2>3. DOMAIN next = DOMAIN job[d] /\ next.snap = job[d].snap /\ next.phase = "todos"
        /\ next.index = todoDb[d].todos
    BY <1>3
  <2> HIDE DEF next
  <2> QED
    BY <1>3, <2>1, <2>2, <2>3 DEF JobOK
<1> HIDE DEF new, next, X, j
<1>9. Shapes'
  BY <1>1, <1>2 DEF Shapes, SoiledAll
<1>10. ReplicasOK'
  <2> SUFFICES ASSUME NEW e \in Device
               PROVE  /\ NotesOK(notesDb'[e], used, written, X)
                      /\ TodosOK(todoDb'[e], used, X)
                      /\ trash'[e] \in SUBSET TrashRow
    BY <1>1 DEF ReplicasOK, X
  <2>1. CASE e = d
    BY <1>1, <1>2, <1>4, <1>5, <1>6, <1>7, <2>1 DEF Shapes, StillOK
  <2>2. CASE e # d
    BY <1>1, <1>2, <1>7, <2>2 DEF Shapes, StillOK, ReplicasOK
  <2> QED
    BY <2>1, <2>2
<1>11. ExchangesOK'
  <2>1. ASSUME NEW e \in Device
        PROVE  /\ LanOK(lan'[e], used, written, X) /\ JobOK(job'[e], used, written, X)
               /\ CycleOK(d1'[e], used, written, X)
    BY <1>1, <1>7, <1>8 DEF StillOK, SoiledAll
  <2>2. \A m \in net' : MessageOK(m, used, written, X)
    BY <1>1, <1>7 DEF StillOK
  <2> QED
    BY <1>1, <2>1, <2>2 DEF ExchangesOK, X
<1>12. CloudOK'
  BY <1>1, <1>2 DEF CloudOK
<1> QED
  BY <1>9, <1>10, <1>11, <1>12 DEF SyncInv

LEMMA MergeTodosKeepsInv ==
  ASSUME SyncInv, NEW d \in Device, MergeTodos(d)
  PROVE  SyncInv'
<1> DEFINE j == job[d]
           new == ImportTodo(todoDb[d], j.index, j.snap.todos)
           X == doubled'
           push == [phase |-> "push", peer |-> lan[d].peer, clean |-> j.clean]
<1>1. /\ j.phase = "todos"
      /\ todoDb' = [todoDb EXCEPT ![d] = new]
      /\ trash' = [trash EXCEPT ![d] = @ \cup Archived(j.index, j.snap.todos.todos)]
      /\ X = doubled \cup Doubled(todoDb[d].todos, j.index, j.snap.todos.todos)
      /\ DOMAIN job' = Device
      /\ job'[d] = Idle
      /\ \A e \in Device : e # d => job'[e] \in {job[e], Soiled(job[e])}
      /\ DOMAIN lan' = Device
      /\ \A e \in Device : lan'[e] \in {lan[e], Soiled(lan[e]), push}
      /\ \A m \in net' : \E o \in net : m \in {o, Soiled(o)}
      /\ d1' \in {d1, SoiledAll(d1)}
      /\ UNCHANGED <<clock, notesDb, cloud, written, used>>
  BY DEF MergeTodos, PersistOutcome
<1>2. Shapes /\ ReplicasOK /\ ExchangesOK /\ CloudOK
  BY DEF SyncInv
<1>3. /\ j.index \in Seq(TodoRow)
      /\ Table(j.snap.todos.todos, TodosOf(used), doubled)
  BY <1>1, JobHolds DEF SnapOK
<1>4. TodosOK(todoDb[d], used, doubled) /\ trash[d] \in SUBSET TrashRow
  BY <1>2 DEF ReplicasOK
<1>5. TodosOK(new, used, X)
  <2>1. /\ DOMAIN new = DOMAIN todoDb[d] /\ new.version = todoDb[d].version
        /\ new.todos = Merged(todoDb[d].todos, j.index, j.snap.todos.todos)
    BY <1>4 DEF ImportTodo, TodosOK, TodoDbOK
  <2> HIDE DEF new, j
  <2>2. TodosOK(new, used,
                doubled \cup Doubled(todoDb[d].todos, j.index, j.snap.todos.todos))
    BY <1>3, <1>4, <2>1, MergedDbOK
  <2> QED
    BY <1>1, <2>2
<1>6. Archived(j.index, j.snap.todos.todos) \in SUBSET TrashRow
  BY <1>3, ArchivedIsTrash
<1>7. StillOK(used, written, X)
  BY <1>1, HistoryGrows
<1>8. LanOK(push, used, written, X)
  BY DEF LanOK
<1> HIDE DEF new, X, j, push
<1>9. Shapes'
  BY <1>1, <1>2 DEF Shapes, SoiledAll
<1>10. ReplicasOK'
  <2> SUFFICES ASSUME NEW e \in Device
               PROVE  /\ NotesOK(notesDb'[e], used, written, X)
                      /\ TodosOK(todoDb'[e], used, X)
                      /\ trash'[e] \in SUBSET TrashRow
    BY <1>1 DEF ReplicasOK, X
  <2>1. CASE e = d
    BY <1>1, <1>2, <1>4, <1>5, <1>6, <1>7, <2>1 DEF Shapes, StillOK
  <2>2. CASE e # d
    BY <1>1, <1>2, <1>7, <2>2 DEF Shapes, StillOK, ReplicasOK
  <2> QED
    BY <2>1, <2>2
<1>11. ExchangesOK'
  <2>1. ASSUME NEW e \in Device
        PROVE  /\ LanOK(lan'[e], used, written, X) /\ JobOK(job'[e], used, written, X)
               /\ CycleOK(d1'[e], used, written, X)
    <3>1. LanOK(lan'[e], used, written, X)
      BY <1>1, <1>7, <1>8 DEF StillOK
    <3>2. JobOK(job'[e], used, written, X)
      BY <1>1, <1>7 DEF StillOK
    <3>3. CycleOK(d1'[e], used, written, X)
      BY <1>1, <1>7 DEF StillOK, SoiledAll
    <3> QED
      BY <3>1, <3>2, <3>3
  <2>2. \A m \in net' : MessageOK(m, used, written, X)
    BY <1>1, <1>7 DEF StillOK
  <2> QED
    BY <1>1, <2>1, <2>2 DEF ExchangesOK, X
<1>12. CloudOK'
  BY <1>1, <1>2 DEF CloudOK
<1> QED
  BY <1>9, <1>10, <1>11, <1>12 DEF SyncInv

\* The process dies, perhaps with the notes merged and the trash not written.
LEMMA CrashKeepsInv ==
  ASSUME SyncInv, NEW d \in Device, Crash(d)
  PROVE  SyncInv'
<1> DEFINE j == job[d]
           new == ImportInbox(notesDb[d], j.index, j.snap.notes)
           X == doubled'
<1>1. /\ lan' = [SoiledAll(lan) EXCEPT ![d] = Idle]
      /\ net' = {Soiled(m) : m \in net}
      /\ job' = [SoiledAll(job) EXCEPT ![d] = Idle]
      /\ d1' = [SoiledAll(d1) EXCEPT ![d] = Idle]
      /\ UNCHANGED <<clock, todoDb, trash, cloud, written, used>>
      /\ doubled \in SUBSET X
  BY DEF Crash
<1>2. Shapes /\ ReplicasOK /\ ExchangesOK /\ CloudOK
  BY DEF SyncInv
<1>3. StillOK(used, written, X)
  BY <1>1, HistoryGrows
<1>4. /\ DOMAIN notesDb' = Device
      /\ \A e \in Device : NotesOK(notesDb'[e], used, written, X)
  <2>1. CASE notesDb' = notesDb
    BY <1>2, <1>3, <2>1 DEF Shapes, StillOK
  <2>2. CASE /\ j.phase = "notes"
             /\ notesDb' = [notesDb EXCEPT ![d] = new]
             /\ X = doubled \cup Doubled(notesDb[d].notes, j.index, j.snap.notes.notes)
    <3>1. Table(j.snap.notes.notes, NotesOf(used, written), doubled)
      BY <2>2, JobHolds DEF SnapOK
    <3>2. NotesOK(notesDb[d], used, written, doubled)
      BY <1>2 DEF ReplicasOK
    <3>3. /\ DOMAIN new = DOMAIN notesDb[d] /\ new.version = notesDb[d].version
          /\ new.notes = Merged(notesDb[d].notes, j.index, j.snap.notes.notes)
      BY <3>2 DEF ImportInbox, NotesOK, NotesDbOK
    <3> HIDE DEF new, j
    <3>4. NotesOK(new, used, written,
                  doubled \cup Doubled(notesDb[d].notes, j.index, j.snap.notes.notes))
      BY <3>1, <3>2, <3>3, MergedDbOK
    <3>5. NotesOK(new, used, written, X)
      BY <2>2, <3>4
    <3> HIDE DEF X
    <3> QED
      BY <1>2, <1>3, <2>2, <3>5 DEF Shapes, StillOK
  <2> QED
    BY <2>1, <2>2 DEF Crash
<1> HIDE DEF new, X, j
<1>5. Shapes'
  BY <1>1, <1>2, <1>4 DEF Shapes, SoiledAll
<1>6. ReplicasOK'
  BY <1>1, <1>2, <1>3, <1>4 DEF ReplicasOK, StillOK, X
<1>7. ExchangesOK'
  <2>1. ASSUME NEW e \in Device
        PROVE  /\ LanOK(lan'[e], used, written, X) /\ JobOK(job'[e], used, written, X)
               /\ CycleOK(d1'[e], used, written, X)
    BY <1>1, <1>3 DEF StillOK, SoiledAll
  <2>2. \A m \in net' : MessageOK(m, used, written, X)
    BY <1>1, <1>3 DEF StillOK
  <2> QED
    BY <1>1, <2>1, <2>2 DEF ExchangesOK, X
<1>8. CloudOK'
  BY <1>1, <1>2 DEF CloudOK
<1> QED
  BY <1>5, <1>6, <1>7, <1>8 DEF SyncInv

\* The cloud's rows are merged into one of the two tables; nothing is put into
\* the trash.
LEMMA CloudMergeKeepsInv ==
  ASSUME SyncInv, NEW d \in Device, CloudMerge(d)
  PROVE  SyncInv'
<1> DEFINE c == d1[d]
           notes == Merged(notesDb[d].notes, c.index, c.rows)
           todos == Merged(todoDb[d].todos, c.index, c.rows)
           X == doubled'
           next == [c EXCEPT !.phase = "mark", !.rows = <<>>, !.index = <<>>]
<1>1. /\ c.phase = "merge"
      /\ lan' = SoiledAll(lan) /\ job' = SoiledAll(job)
      /\ net' = {Soiled(m) : m \in net}
      /\ d1' = [d1 EXCEPT ![d] = next]
      /\ UNCHANGED <<clock, trash, cloud, written, used>>
      /\ doubled \in SUBSET X
      /\ \/ /\ c.table = "notes"
            /\ notesDb' = [notesDb EXCEPT ![d].notes = notes]
            /\ X = doubled \cup Doubled(notesDb[d].notes, c.index, c.rows)
            /\ todoDb' = todoDb
         \/ /\ c.table = "todos"
            /\ todoDb' = [todoDb EXCEPT ![d].todos = todos]
            /\ X = doubled \cup Doubled(todoDb[d].todos, c.index, c.rows)
            /\ notesDb' = notesDb
  BY DEF CloudMerge
<1>2. Shapes /\ ReplicasOK /\ ExchangesOK /\ CloudOK
  BY DEF SyncInv
<1>3. StillOK(used, written, X)
  BY <1>1, HistoryGrows
<1>4. /\ c # Idle /\ {"phase", "table", "rows", "index"} \in SUBSET DOMAIN c
      /\ \/ c.table = "notes" /\ Table(c.rows, NotesOf(used, written), doubled)
         \/ c.table = "todos" /\ Table(c.rows, TodosOf(used), doubled)
  <2>1. CycleOK(c, used, written, doubled)
    BY <1>2 DEF ExchangesOK
  <2>2. c # Idle
    BY <1>1 DEF Idle
  <2> QED
    BY <2>1, <2>2 DEF CycleOK
<1>5. CycleOK(next, used, written, X)
  <2>1. /\ DOMAIN next = DOMAIN c /\ next.table = c.table /\ next.phase = "mark"
        /\ next.rows = <<>>
    BY <1>4
  <2> HIDE DEF next
  <2> QED
    BY <1>4, <2>1, EmptyIsOK DEF CycleOK
<1>6. /\ NotesOK(notesDb[d], used, written, doubled)
      /\ TodosOK(todoDb[d], used, doubled)
  BY <1>2 DEF ReplicasOK
<1>7. /\ DOMAIN notesDb' = Device /\ DOMAIN todoDb' = Device
      /\ \A e \in Device : /\ NotesOK(notesDb'[e], used, written, X)
                           /\ TodosOK(todoDb'[e], used, X)
  <2>1. CASE c.table = "notes"
    <3> DEFINE new == [notesDb[d] EXCEPT !.notes = notes]
    <3>1. /\ notesDb' = [notesDb EXCEPT ![d] = new]
          /\ X = doubled \cup Doubled(notesDb[d].notes, c.index, c.rows)
          /\ todoDb' = todoDb
      BY <1>1, <2>1
    <3>2. /\ DOMAIN new = DOMAIN notesDb[d] /\ new.version = notesDb[d].version
          /\ new.notes = Merged(notesDb[d].notes, c.index, c.rows)
      BY <1>6 DEF NotesOK, NotesDbOK
    <3>3. Table(c.rows, NotesOf(used, written), doubled)
      BY <1>4, <2>1
    <3> HIDE DEF new, c
    <3>4. NotesOK(new, used, written,
                  doubled \cup Doubled(notesDb[d].notes, c.index, c.rows))
      BY <1>6, <3>2, <3>3, MergedDbOK
    <3>5. NotesOK(new, used, written, X)
      BY <3>1, <3>4
    <3> HIDE DEF X
    <3> QED
      BY <1>2, <1>3, <3>1, <3>5 DEF Shapes, StillOK
  <2>2. CASE c.table = "todos"
    <3> DEFINE new == [todoDb[d] EXCEPT !.todos = todos]
    <3>1. /\ todoDb' = [todoDb EXCEPT ![d] = new]
          /\ X = doubled \cup Doubled(todoDb[d].todos, c.index, c.rows)
          /\ notesDb' = notesDb
      BY <1>1, <2>2
    <3>2. /\ DOMAIN new = DOMAIN todoDb[d] /\ new.version = todoDb[d].version
          /\ new.todos = Merged(todoDb[d].todos, c.index, c.rows)
      BY <1>6 DEF TodosOK, TodoDbOK
    <3>3. Table(c.rows, TodosOf(used), doubled)
      BY <1>4, <2>2
    <3> HIDE DEF new, c
    <3>4. TodosOK(new, used, doubled \cup Doubled(todoDb[d].todos, c.index, c.rows))
      BY <1>6, <3>2, <3>3, MergedDbOK
    <3>5. TodosOK(new, used, X)
      BY <3>1, <3>4
    <3> HIDE DEF X
    <3> QED
      BY <1>2, <1>3, <3>1, <3>5 DEF Shapes, StillOK
  <2> QED
    BY <1>1, <2>1, <2>2
<1> HIDE DEF c, X, next, notes, todos
<1>8. Shapes'
  BY <1>1, <1>2, <1>7 DEF Shapes, SoiledAll
<1>9. ReplicasOK'
  BY <1>1, <1>2, <1>7 DEF ReplicasOK, X
<1>10. ExchangesOK'
  <2>1. ASSUME NEW e \in Device
        PROVE  /\ LanOK(lan'[e], used, written, X) /\ JobOK(job'[e], used, written, X)
               /\ CycleOK(d1'[e], used, written, X)
    <3>1. LanOK(lan'[e], used, written, X) /\ JobOK(job'[e], used, written, X)
      BY <1>1, <1>3 DEF StillOK, SoiledAll
    <3>2. CycleOK(d1'[e], used, written, X)
      BY <1>1, <1>2, <1>3, <1>5 DEF StillOK, Shapes
    <3> QED
      BY <3>1, <3>2
  <2>2. \A m \in net' : MessageOK(m, used, written, X)
    BY <1>1, <1>3 DEF StillOK
  <2> QED
    BY <1>1, <2>1, <2>2 DEF ExchangesOK, X
<1>11. CloudOK'
  BY <1>1, <1>2 DEF CloudOK
<1> QED
  BY <1>8, <1>9, <1>10, <1>11 DEF SyncInv

-----------------------------------------------------------------------------
(* Exchanges                                                               *)

\* A step of an exchange that leaves the replicas alone.
ExchangesMove ==
  /\ UNCHANGED <<clock, replicas, history>>
  /\ DOMAIN lan' = Device /\ DOMAIN job' = Device /\ DOMAIN d1' = Device
  /\ DOMAIN cloud' = {"notes", "todos", "seen"}
  /\ \A e \in Device : /\ LanOK(lan'[e], used, written, doubled)
                       /\ JobOK(job'[e], used, written, doubled)
                       /\ CycleOK(d1'[e], used, written, doubled)
  /\ \A m \in net' : MessageOK(m, used, written, doubled)
  /\ Table(cloud'.notes, NotesOf(used, written), {})
  /\ Table(cloud'.todos, TodosOf(used), {})

\* A step that only moves an exchange along keeps the invariant.
LEMMA ExchangeStep ==
  ASSUME SyncInv, ExchangesMove
  PROVE  SyncInv'
<1>1. UNCHANGED <<clock, notesDb, todoDb, trash, used, written, doubled>>
  BY DEF ExchangesMove, replicas, history
<1>2. Shapes /\ ReplicasOK
  BY DEF SyncInv
<1>3. Shapes' /\ ReplicasOK'
  BY <1>1, <1>2 DEF Shapes, ReplicasOK, ExchangesMove
<1>4. ExchangesOK' /\ CloudOK'
  BY <1>1 DEF ExchangesMove, ExchangesOK, CloudOK
<1> QED
  BY <1>3, <1>4 DEF SyncInv

\* What there is besides the exchange that moves.
AllStill ==
  /\ DOMAIN lan = Device /\ DOMAIN job = Device /\ DOMAIN d1 = Device
  /\ DOMAIN cloud = {"notes", "todos", "seen"}
  /\ \A e \in Device :
        /\ LanOK(lan[e], used, written, doubled)
        /\ JobOK(job[e], used, written, doubled)
        /\ CycleOK(d1[e], used, written, doubled)
        /\ CycleOK(Soiled(d1[e]), used, written, doubled)
        /\ SnapOK(Snapshot(e), used, written, doubled)
        /\ notesDb[e].notes \in Seq(NoteRow)
        /\ Table(notesDb[e].notes, NotesOf(used, written), doubled)
        /\ Table(todoDb[e].todos, TodosOf(used), doubled)
  /\ \A m \in net : MessageOK(m, used, written, doubled)
  /\ Table(cloud.notes, NotesOf(used, written), {})
  /\ Table(cloud.todos, TodosOf(used), {})

\* Before any step, all parts fit the history.
LEMMA BeforeExchange ==
  ASSUME SyncInv
  PROVE  AllStill
<1>1. StillOK(used, written, doubled)
  BY HistoryGrows
<1> QED
  BY <1>1 DEF AllStill, StillOK, SyncInv, Shapes, ReplicasOK, NotesOK, TodosOK,
              NotesDbOK

LEMMA FetchSnapshotMoves ==
  ASSUME AllStill, NEW d \in Device, NEW p \in Device, FetchSnapshot(d, p)
  PROVE  ExchangesMove
<1> DEFINE x == [phase |-> "apply", peer |-> p, snap |-> Snapshot(p), clean |-> TRUE]
<1>1. lan' = [lan EXCEPT ![d] = x]
      /\ UNCHANGED <<clock, replicas, net, job, d1, cloud, history>>
  BY DEF FetchSnapshot
<1>2. LanOK(x, used, written, doubled)
  BY DEF LanOK, AllStill
<1> HIDE DEF x
<1>3. DOMAIN lan' = Device /\ \A e \in Device : LanOK(lan'[e], used, written, doubled)
  BY <1>1, <1>2 DEF AllStill
<1> QED
  BY <1>1, <1>3 DEF ExchangesMove, AllStill

\* A merge begins with a snapshot that came from somewhere.
LEMMA StartMergeMoves ==
  ASSUME AllStill, NEW d \in Device, NEW snap, NEW of, NEW clean,
         SnapOK(snap, used, written, doubled), StartMerge(d, snap, of, clean)
  PROVE  DOMAIN job' = Device /\ \A e \in Device : JobOK(job'[e], used, written, doubled)
<1> DEFINE j == [phase |-> "notes", snap |-> snap, of |-> of,
                 index |-> notesDb[d].notes, clean |-> clean]
<1>1. job' = [job EXCEPT ![d] = j]
  BY DEF StartMerge
<1>2. JobOK(j, used, written, doubled)
  BY DEF JobOK, AllStill
<1> HIDE DEF j
<1> QED
  BY <1>1, <1>2 DEF AllStill

LEMMA ApplyFetchedMoves ==
  ASSUME AllStill, NEW d \in Device, ApplyFetched(d)
  PROVE  ExchangesMove
<1> DEFINE x == [phase |-> "merge", peer |-> lan[d].peer, clean |-> lan[d].clean]
<1>1. /\ lan' = [lan EXCEPT ![d] = x]
      /\ StartMerge(d, lan[d].snap, "fetch", lan[d].clean)
      /\ lan[d].phase = "apply"
      /\ UNCHANGED <<clock, replicas, net, d1, cloud, history>>
  BY DEF ApplyFetched
<1>2. LanOK(x, used, written, doubled)
  BY DEF LanOK
<1> HIDE DEF x
<1>3. DOMAIN lan' = Device /\ \A e \in Device : LanOK(lan'[e], used, written, doubled)
  BY <1>1, <1>2 DEF AllStill
<1>4. SnapOK(lan[d].snap, used, written, doubled)
  <2>1. LanOK(lan[d], used, written, doubled) /\ Idle.phase # "apply"
    BY DEF AllStill, Idle
  <2> QED
    BY <1>1, <2>1 DEF LanOK
<1>5. DOMAIN job' = Device /\ \A e \in Device : JobOK(job'[e], used, written, doubled)
  BY <1>1, <1>4, StartMergeMoves
<1> QED
  BY <1>1, <1>3, <1>5 DEF ExchangesMove, AllStill

LEMMA PushesMove ==
  ASSUME AllStill, NEW d \in Device,
         PushSnapshot(d) \/ \E p \in Device : PushTo(d, p)
  PROVE  ExchangesMove
<1>1. PICK to, clean :
         /\ net' = net \cup {[phase |-> "sent", from |-> d, to |-> to,
                              snap |-> Snapshot(d), clean |-> clean]}
         /\ lan' = [lan EXCEPT ![d] = Idle] \/ lan' = lan
         /\ UNCHANGED <<clock, replicas, job, d1, cloud, history>>
  BY DEF PushSnapshot, PushTo
<1> DEFINE m == [phase |-> "sent", from |-> d, to |-> to, snap |-> Snapshot(d),
                 clean |-> clean]
<1>2. MessageOK(m, used, written, doubled) /\ LanOK(Idle, used, written, doubled)
  BY DEF MessageOK, AllStill, LanOK
<1>3. net' = net \cup {m}
  BY <1>1
<1> HIDE DEF m
<1>4. \A n \in net' : MessageOK(n, used, written, doubled)
  BY <1>2, <1>3 DEF AllStill
<1>5. DOMAIN lan' = Device /\ \A e \in Device : LanOK(lan'[e], used, written, doubled)
  BY <1>1, <1>2 DEF AllStill
<1> QED
  BY <1>1, <1>4, <1>5 DEF ExchangesMove, AllStill

LEMMA ReceivePushMoves ==
  ASSUME AllStill, NEW d \in Device, ReceivePush(d)
  PROVE  ExchangesMove
<1>1. PICK m \in net : /\ StartMerge(d, m.snap, m.from, m.clean)
                       /\ net' = net \ {m}
                       /\ UNCHANGED <<clock, replicas, lan, d1, cloud, history>>
  BY DEF ReceivePush
<1>2. SnapOK(m.snap, used, written, doubled)
  BY DEF AllStill, MessageOK
<1>3. DOMAIN job' = Device /\ \A e \in Device : JobOK(job'[e], used, written, doubled)
  BY <1>1, <1>2, StartMergeMoves
<1> QED
  BY <1>1, <1>3 DEF ExchangesMove, AllStill

LEMMA FailuresMove ==
  ASSUME AllStill, NEW d \in Device, LanFails(d) \/ CloudFails(d)
  PROVE  ExchangesMove
<1>1. /\ lan' = [lan EXCEPT ![d] = Idle] \/ lan' = lan
      /\ d1' = [d1 EXCEPT ![d] = Idle] \/ d1' = d1
      /\ \A m \in net' : m \in net
      /\ UNCHANGED <<clock, replicas, job, cloud, history>>
  BY DEF LanFails, CloudFails
<1>2. LanOK(Idle, used, written, doubled) /\ CycleOK(Idle, used, written, doubled)
  BY DEF LanOK, CycleOK
<1>3. DOMAIN lan' = Device /\ \A e \in Device : LanOK(lan'[e], used, written, doubled)
  BY <1>1, <1>2 DEF AllStill
<1>4. DOMAIN d1' = Device /\ \A e \in Device : CycleOK(d1'[e], used, written, doubled)
  BY <1>1, <1>2 DEF AllStill
<1> QED
  BY <1>1, <1>3, <1>4 DEF ExchangesMove, AllStill

-----------------------------------------------------------------------------
(* Cloud cycles                                                            *)

\* The rows changed since an instant are a table.
LEMMA SinceIsTable ==
  ASSUME NEW R, NEW X, NEW rows, Table(rows, R, X), NEW since
  PROVE  Table(Since(rows, since), R, X)
<1> DEFINE K == {i \in DOMAIN rows : since = None \/ TextLess(since, rows[i].updated)}
<1>1. K \in SUBSET DOMAIN rows
  OBVIOUS
<1>2. Since(rows, since) = Subsequence(rows, K)
  BY DEF Since
<1> HIDE DEF K
<1> QED
  BY <1>1, <1>2, SubsequenceIsTable

\* A cloud cycle begins as one.
LEMMA BeginTableIsCycle ==
  ASSUME AllStill, NEW d \in Device, NEW table \in {"notes", "todos"},
         NEW whole, NEW locked, NEW seen, NEW clean
  PROVE  CycleOK(BeginTable(d, table, whole, locked, seen, clean),
                 used, written, doubled)
<1> DEFINE b == BeginTable(d, table, whole, locked, seen, clean)
<1>1. PICK since : /\ {"phase", "table", "rows", "index"} \in SUBSET DOMAIN b
                   /\ b.phase = "push" /\ b.table = table
                   /\ b.rows = Since(RowsOf(d, table), since)
  BY DEF BeginTable
<1> HIDE DEF b
<1>2. ASSUME table = "notes" PROVE CycleOK(b, used, written, doubled)
  <2>1. Table(RowsOf(d, table), NotesOf(used, written), doubled)
    BY <1>2 DEF RowsOf, AllStill
  <2>2. Table(b.rows, NotesOf(used, written), doubled)
    BY <1>1, <2>1, SinceIsTable
  <2> QED
    BY <1>1, <1>2, <2>2 DEF CycleOK
<1>3. ASSUME table = "todos" PROVE CycleOK(b, used, written, doubled)
  <2>1. Table(RowsOf(d, table), TodosOf(used), doubled)
    BY <1>3 DEF RowsOf, AllStill
  <2>2. Table(b.rows, TodosOf(used), doubled)
    BY <1>1, <2>1, SinceIsTable
  <2> QED
    BY <1>1, <1>3, <2>2 DEF CycleOK
<1> QED
  BY <1>2, <1>3 DEF b

\* The actions that begin a cloud cycle only move an exchange along.
LEMMA CloudStartMoves ==
  ASSUME AllStill, NEW d \in Device,
         D1SyncNow(d) \/ D1FullSync(d) \/ BackgroundSync(d)
  PROVE  ExchangesMove
<1>1. PICK whole, locked : CloudStart(d, whole, locked)
  BY DEF D1SyncNow, D1FullSync, BackgroundSync
<1>2. PICK seen : /\ cloud' = [cloud EXCEPT !.seen = seen]
                  /\ d1' = [d1 EXCEPT ![d] = BeginTable(d, "notes", whole, locked,
                                                        seen, TRUE)]
                  /\ UNCHANGED <<clock, replicas, lan, net, job, history>>
  BY <1>1 DEF CloudStart
<1>3. CycleOK(BeginTable(d, "notes", whole, locked, seen, TRUE), used, written, doubled)
  BY BeginTableIsCycle
<1>4. DOMAIN d1' = Device /\ \A e \in Device : CycleOK(d1'[e], used, written, doubled)
  BY <1>2, <1>3 DEF AllStill
<1>5. /\ DOMAIN cloud' = {"notes", "todos", "seen"}
      /\ cloud'.notes = cloud.notes /\ cloud'.todos = cloud.todos
  BY <1>2 DEF AllStill
<1> QED
  BY <1>2, <1>4, <1>5 DEF ExchangesMove, AllStill

\* A cycle that runs has rows of its table.
LEMMA CycleHolds ==
  ASSUME AllStill, NEW d \in Device, d1[d] # Idle
  PROVE  /\ {"phase", "table", "rows", "index"} \in SUBSET DOMAIN d1[d]
         /\ \/ d1[d].table = "notes" /\ Table(d1[d].rows, NotesOf(used, written), doubled)
            \/ d1[d].table = "todos" /\ Table(d1[d].rows, TodosOf(used), doubled)
BY DEF AllStill, CycleOK

LEMMA CloudPushMoves ==
  ASSUME AllStill, NEW d \in Device, CloudPush(d)
  PROVE  ExchangesMove
<1> DEFINE c == d1[d]
           next == [c EXCEPT !.rows = Tail(c.rows)]
<1>1. /\ c.phase = "push" /\ c.rows # <<>>
      /\ cloud' = [cloud EXCEPT ![c.table] = Upsert(cloud[c.table], Head(c.rows))]
      /\ DOMAIN d1' = Device /\ d1'[d] = next
      /\ \A e \in Device : e # d => d1'[e] \in {d1[e], Soiled(d1[e])}
      /\ UNCHANGED <<clock, replicas, lan, net, job, history>>
  BY DEF CloudPush
<1>2. c # Idle
  BY <1>1 DEF Idle
<1>3. /\ {"phase", "table", "rows", "index"} \in SUBSET DOMAIN c
      /\ \/ c.table = "notes" /\ Table(c.rows, NotesOf(used, written), doubled)
         \/ c.table = "todos" /\ Table(c.rows, TodosOf(used), doubled)
  BY <1>2, CycleHolds
<1>4. /\ DOMAIN next = DOMAIN c /\ next.table = c.table /\ next.phase = "push"
      /\ next.rows = Tail(c.rows)
  BY <1>1, <1>3
<1> HIDE DEF c, next
<1>5. /\ c.table = "notes" => /\ Table(Tail(c.rows), NotesOf(used, written), doubled)
                              /\ Head(c.rows) \in NotesOf(used, written)
      /\ c.table = "todos" => /\ Table(Tail(c.rows), TodosOf(used), doubled)
                              /\ Head(c.rows) \in TodosOf(used)
  BY <1>1, <1>3, TailIsTable
<1>6. CycleOK(next, used, written, doubled)
  BY <1>3, <1>4, <1>5 DEF CycleOK
<1>7. \A e \in Device : CycleOK(d1'[e], used, written, doubled)
  BY <1>1, <1>6 DEF AllStill
<1>8. /\ DOMAIN cloud' = {"notes", "todos", "seen"}
      /\ Table(cloud'.notes, NotesOf(used, written), {})
      /\ Table(cloud'.todos, TodosOf(used), {})
  <2>1. /\ Table(cloud.notes, NotesOf(used, written), {})
        /\ Table(cloud.todos, TodosOf(used), {})
        /\ DOMAIN cloud = {"notes", "todos", "seen"}
    BY DEF AllStill
  <2>2. CASE c.table = "notes"
    <3>1. Table(Upsert(cloud.notes, Head(c.rows)), NotesOf(used, written), {})
      BY <1>5, <2>1, <2>2, UpsertIsTable
    <3> QED
      BY <1>1, <2>1, <2>2, <3>1
  <2>3. CASE c.table = "todos"
    <3>1. Table(Upsert(cloud.todos, Head(c.rows)), TodosOf(used), {})
      BY <1>5, <2>1, <2>3, UpsertIsTable
    <3> QED
      BY <1>1, <2>1, <2>3, <3>1
  <2> QED
    BY <1>3, <2>2, <2>3
<1> QED
  BY <1>1, <1>7, <1>8 DEF ExchangesMove, AllStill

LEMMA CloudPullMoves ==
  ASSUME AllStill, NEW d \in Device, CloudPull(d)
  PROVE  ExchangesMove
<1> DEFINE c == d1[d]
           rows == Since(cloud[c.table], c.since)
           next == [c EXCEPT !.phase = "merge", !.rows = rows,
                             !.index = RowsOf(d, c.table)]
<1>1. /\ c.phase = "push"
      /\ UNCHANGED <<clock, replicas, lan, net, job, cloud, history>>
  BY DEF CloudPull
<1>2. c # Idle
  BY <1>1 DEF Idle
<1>3. /\ {"phase", "table", "rows", "index"} \in SUBSET DOMAIN c
      /\ c.table \in {"notes", "todos"}
  BY <1>2, CycleHolds
<1>4. d1' = [d1 EXCEPT ![d] = next]
  BY <1>3 DEF CloudPull, AllStill
<1>5. /\ DOMAIN next = DOMAIN c /\ next.table = c.table /\ next.phase = "merge"
      /\ next.rows = rows
  BY <1>3
<1>6. \/ c.table = "notes" /\ Table(rows, NotesOf(used, written), doubled)
      \/ c.table = "todos" /\ Table(rows, TodosOf(used), doubled)
  <2>1. /\ Table(cloud.notes, NotesOf(used, written), {})
        /\ Table(cloud.todos, TodosOf(used), {})
    BY DEF AllStill
  <2>2. CASE c.table = "notes"
    <3>1. Table(rows, NotesOf(used, written), {})
      BY <2>1, <2>2, SinceIsTable
    <3> HIDE DEF rows
    <3>2. Table(rows, NotesOf(used, written), doubled)
      BY <3>1, TableGrows
    <3> QED
      BY <2>2, <3>2
  <2>3. CASE c.table = "todos"
    <3>1. Table(rows, TodosOf(used), {})
      BY <2>1, <2>3, SinceIsTable
    <3> HIDE DEF rows
    <3>2. Table(rows, TodosOf(used), doubled)
      BY <3>1, TableGrows
    <3> QED
      BY <2>3, <3>2
  <2> QED
    BY <1>3, <2>2, <2>3
<1> HIDE DEF c, rows, next
<1>7. CycleOK(next, used, written, doubled)
  BY <1>3, <1>5, <1>6 DEF CycleOK
<1>8. DOMAIN d1' = Device /\ \A e \in Device : CycleOK(d1'[e], used, written, doubled)
  BY <1>4, <1>7 DEF AllStill
<1> QED
  BY <1>1, <1>8 DEF ExchangesMove, AllStill

LEMMA CloudMarkMoves ==
  ASSUME AllStill, NEW d \in Device, CloudMark(d)
  PROVE  ExchangesMove
<1> DEFINE next == IF d1[d].table = "notes"
                   THEN BeginTable(d, "todos", d1[d].whole, d1[d].locked, cloud.seen,
                                   d1[d].clean)
                   ELSE Idle
<1>1. /\ \E seen : cloud' = [cloud EXCEPT !.seen = seen]
      /\ d1' = [d1 EXCEPT ![d] = next]
      /\ UNCHANGED <<clock, replicas, lan, net, job, history>>
  BY DEF CloudMark
<1>2. CycleOK(next, used, written, doubled)
  BY BeginTableIsCycle DEF CycleOK
<1> HIDE DEF next
<1>3. DOMAIN d1' = Device /\ \A e \in Device : CycleOK(d1'[e], used, written, doubled)
  BY <1>1, <1>2 DEF AllStill
<1>4. /\ DOMAIN cloud' = {"notes", "todos", "seen"}
      /\ cloud'.notes = cloud.notes /\ cloud'.todos = cloud.todos
  BY <1>1 DEF AllStill
<1> QED
  BY <1>1, <1>3, <1>4 DEF ExchangesMove, AllStill

-----------------------------------------------------------------------------
(* The invariant holds                                                     *)

LEMMA InitIsInv ==
  ASSUME SyncAssumption, Init
  PROVE  SyncInv
<1>1. Shapes
  BY DEF Init, Shapes, SyncAssumption
<1>2. ReplicasOK
  BY EmptyIsOK DEF Init, ReplicasOK
<1>3. ExchangesOK
  BY DEF Init, ExchangesOK, LanOK, JobOK, CycleOK
<1>4. CloudOK
  BY DEF Init, CloudOK, Table, Keyed
<1> QED
  BY <1>1, <1>2, <1>3, <1>4 DEF SyncInv

LEMMA StutterKeepsInv ==
  ASSUME SyncInv, UNCHANGED vars
  PROVE  SyncInv'
<1>1. ExchangesMove
  BY BeforeExchange DEF ExchangesMove, AllStill, vars, exchanges
<1> QED
  BY <1>1, ExchangeStep

\* The exchanges of d that leave every replica alone.
Exchange(d) ==
  \/ \E p \in Device : FetchSnapshot(d, p) \/ PushTo(d, p)
  \/ ApplyFetched(d) \/ PushSnapshot(d) \/ ReceivePush(d)
  \/ LanFails(d) \/ CloudFails(d)
  \/ D1SyncNow(d) \/ D1FullSync(d) \/ BackgroundSync(d)
  \/ CloudPush(d) \/ CloudPull(d) \/ CloudMark(d)

\* So does every action of an exchange but the merges.
LEMMA ExchangeMoves ==
  ASSUME SyncInv, NEW d \in Device, Exchange(d)
  PROVE  ExchangesMove
<1>1. AllStill
  BY BeforeExchange
<1>2. CASE \E p \in Device : FetchSnapshot(d, p)
  BY <1>1, <1>2, FetchSnapshotMoves
<1>3. CASE ApplyFetched(d)
  BY <1>1, <1>3, ApplyFetchedMoves
<1>4. CASE PushSnapshot(d) \/ \E p \in Device : PushTo(d, p)
  BY <1>1, <1>4, PushesMove
<1>5. CASE ReceivePush(d)
  BY <1>1, <1>5, ReceivePushMoves
<1>6. CASE LanFails(d) \/ CloudFails(d)
  BY <1>1, <1>6, FailuresMove
<1>7. CASE D1SyncNow(d) \/ D1FullSync(d) \/ BackgroundSync(d)
  BY <1>1, <1>7, CloudStartMoves
<1>8. CASE CloudPush(d)
  BY <1>1, <1>8, CloudPushMoves
<1>9. CASE CloudPull(d)
  BY <1>1, <1>9, CloudPullMoves
<1>10. CASE CloudMark(d)
  BY <1>1, <1>10, CloudMarkMoves
<1> QED
  BY <1>2, <1>3, <1>4, <1>5, <1>6, <1>7, <1>8, <1>9, <1>10 DEF Exchange

\* Every step is one of these.
LEMMA StepsOfNext ==
  ASSUME Next
  PROVE  \E d \in Device :
            \/ WriteNote(d) \/ WriteTodo(d) \/ RestoreTrash(d)
            \/ DeleteTrash(d) \/ Reset(d) \/ ClearCheckpoint(d)
            \/ MergeNotes(d) \/ MergeTodos(d) \/ Crash(d) \/ CloudMerge(d)
            \/ Exchange(d)
BY DEF Next, LanStep, CloudStep, Exchange

LEMMA NextKeepsInv ==
  ASSUME SyncInv, Next
  PROVE  SyncInv'
<1>1. PICK d \in Device :
         \/ WriteNote(d) \/ WriteTodo(d) \/ RestoreTrash(d)
         \/ DeleteTrash(d) \/ Reset(d) \/ ClearCheckpoint(d)
         \/ MergeNotes(d) \/ MergeTodos(d) \/ Crash(d) \/ CloudMerge(d)
         \/ Exchange(d)
  BY StepsOfNext
<1>2. CASE WriteNote(d) \/ WriteTodo(d) \/ RestoreTrash(d)
  <2>1. \E notes, todos, t : UserActs(d, notes, todos, t)
    BY <1>2, WriteNoteActs, WriteTodoActs, RestoreTrashActs
  <2> QED
    BY <2>1, UserKeepsInv
<1>3. CASE DeleteTrash(d)
  BY <1>3, DeleteTrashKeepsInv
<1>4. CASE Reset(d)
  BY <1>4, ResetKeepsInv
<1>5. CASE ClearCheckpoint(d)
  BY <1>5, ClearCheckpointKeepsInv
<1>6. CASE MergeNotes(d)
  BY <1>6, MergeNotesKeepsInv
<1>7. CASE MergeTodos(d)
  BY <1>7, MergeTodosKeepsInv
<1>8. CASE Crash(d)
  BY <1>8, CrashKeepsInv
<1>9. CASE CloudMerge(d)
  BY <1>9, CloudMergeKeepsInv
<1>10. CASE Exchange(d)
  BY <1>10, ExchangeMoves, ExchangeStep
<1> QED
  BY <1>1, <1>2, <1>3, <1>4, <1>5, <1>6, <1>7, <1>8, <1>9, <1>10

\* However edits, merges, pushes, cloud cycles, crashes and resets overlap, the
\* replicas, the exchanges between them and the cloud hold rows that somebody
\* has written, with a revision that history knows, and no two of one uuid
\* except where two merges overlapped.
THEOREM SyncInvariance == Spec => []SyncInv
<1>1. Init => SyncInv
  BY SyncAssumption, InitIsInv
<1>2. SyncInv /\ [Next]_vars => SyncInv'
  BY NextKeepsInv, StutterKeepsInv
<1> QED
  BY <1>1, <1>2, PTL DEF Spec

\* A table has the shape the type invariant asks for.
LEMMA TablesAreRowsOK ==
  ASSUME NEW R, NEW X, NEW rows, Table(rows, R, X),
         \A row \in R : row.updated \in Stamp /\ row.uuid \in Uuid
  PROVE  RowsOK(rows, X)
<1>1. \A i \in DOMAIN rows : rows[i] \in R
  BY Positions DEF Table
<1> QED
  BY <1>1 DEF Table, Keyed, RowsOK

\* The invariant contains the type invariant.
LEMMA InvIsTypeOK ==
  ASSUME SyncInv
  PROVE  SyncTypeOK
<1>1. /\ \A row \in NotesOf(used, written) : row.updated \in Stamp /\ row.uuid \in Uuid
      /\ \A row \in TodosOf(used) : row.updated \in Stamp /\ row.uuid \in Uuid
  BY DEF NotesOf, TodosOf, NoteRow, TodoRow
<1>2. RowsOK(cloud.notes, {}) /\ RowsOK(cloud.todos, {})
  BY <1>1, TablesAreRowsOK DEF SyncInv, CloudOK
<1>3. ASSUME NEW d \in Device
      PROVE  RowsOK(notesDb[d].notes, doubled) /\ RowsOK(todoDb[d].todos, doubled)
  <2>1. /\ Table(notesDb[d].notes, NotesOf(used, written), doubled)
        /\ Table(todoDb[d].todos, TodosOf(used), doubled)
    BY DEF SyncInv, ReplicasOK, NotesOK, TodosOK
  <2> QED
    BY <1>1, <2>1, TablesAreRowsOK
<1>4. ASSUME NEW d \in Device
      PROVE  /\ lan[d].phase \in {"idle", "apply", "merge", "push"}
             /\ job[d].phase \in {"idle", "notes", "todos"}
             /\ d1[d].phase \in {"idle", "push", "merge", "mark"}
  <2>1. Idle.phase = "idle"
    BY DEF Idle
  <2>2. /\ LanOK(lan[d], used, written, doubled)
        /\ JobOK(job[d], used, written, doubled)
        /\ CycleOK(d1[d], used, written, doubled)
    BY DEF SyncInv, ExchangesOK
  <2> QED
    BY <2>1, <2>2 DEF LanOK, JobOK, CycleOK
<1>5. ASSUME NEW d \in Device, NEW e \in trash[d]
      PROVE  e.restored \in BOOLEAN
  <2>1. e \in TrashRow
    BY DEF SyncInv, ReplicasOK
  <2> QED
    BY <2>1 DEF TrashRow
<1>6. clock \in 0..MaxClock
  BY DEF SyncInv, Shapes
<1> QED
  BY <1>2, <1>3, <1>4, <1>5, <1>6 DEF SyncTypeOK

\* SyncTypeOK of the runs: each table holds rows with a time and a known uuid,
\* a device's at most one per uuid unless two merges overlapped, the cloud's
\* without exception; each exchange is in a phase of the code.
THEOREM SyncTypeCorrectness == Spec => []SyncTypeOK
<1>1. SyncInv => SyncTypeOK
  BY InvIsTypeOK
<1> QED
  BY <1>1, SyncInvariance, PTL

-----------------------------------------------------------------------------
(* What becomes of the notes a merge overwrites                            *)

Beats(s, r) == s.ms > r.ms \/ (s.ms = r.ms /\ Rank[s.dev] > Rank[r.dev])

\* A note is overwritten by a newer revision and archived, or is in "gone".
Replaced(old, new, archive, lost) ==
  /\ new.uuid = old.uuid
  /\ \/ new = old
     \/ Revision(old) \in lost
     \/ (\E e \in archive : e.row = old) /\ Beats(Revision(new), Revision(old))

\* It changed since the index was read, or is not the one that the index has
\* for its uuid; or it is what the incoming row was compared with.
LEMMA MergeReplaces ==
  ASSUME NEW R, NEW rows \in Seq(R), NEW index, NEW incoming \in Seq(R),
         NEW i \in DOMAIN rows
  PROVE  LET m == Merged(rows, index, incoming)
         IN  /\ DOMAIN rows \in SUBSET DOMAIN m
             /\ Replaced(rows[i], m[i], Archived(index, incoming),
                         Overrun(rows, m, index))
<1> DEFINE m == Merged(rows, index, incoming)
<1>1. MergedFrom(m, rows, index, incoming)
  BY MergeMakes
<1> HIDE DEF m
<1>2. /\ DOMAIN rows \in SUBSET DOMAIN m
      /\ \/ m[i] = rows[i]
         \/ \E k \in DOMAIN incoming : /\ m[i] = incoming[k]
                                       /\ incoming[k].uuid = rows[i].uuid
                                       /\ Wins(index, incoming[k])
  BY <1>1 DEF MergedFrom
<1>3. Replaced(rows[i], m[i], Archived(index, incoming), Overrun(rows, m, index))
  <2>1. CASE m[i] = rows[i]
    BY <2>1 DEF Replaced
  <2>2. CASE m[i] # rows[i]
    <3>1. PICK k \in DOMAIN incoming : /\ m[i] = incoming[k]
                                       /\ incoming[k].uuid = rows[i].uuid
                                       /\ Wins(index, incoming[k])
      BY <1>2, <2>2
    <3>2. CASE rows[i] # Local(index, rows[i])
      <4>1. Revision(rows[i]) \in Overrun(rows, m, index)
        BY <2>2, <3>2 DEF Overrun
      <4> QED
        BY <3>1, <4>1 DEF Replaced
    <3>3. CASE rows[i] = Local(index, rows[i])
      <4>1. Local(index, incoming[k]) = rows[i]
        BY <3>1, <3>3 DEF Local
      <4>2. Differs(index, incoming[k]) /\ IncomingNewer(incoming[k], rows[i])
        BY <3>1, <4>1 DEF Wins
      <4>3. [row |-> Loser(index, incoming[k], Wins(index, incoming[k])),
             restored |-> FALSE] \in Archived(index, incoming)
        BY <4>2 DEF Archived
      <4>4. Loser(index, incoming[k], Wins(index, incoming[k])) = rows[i]
        BY <3>1, <4>1 DEF Loser
      <4>5. \E e \in Archived(index, incoming) : e.row = rows[i]
        BY <4>3, <4>4
      <4>6. Beats(Revision(m[i]), Revision(rows[i]))
        BY <3>1, <4>2 DEF IncomingNewer, Beats, Revision
      <4> QED
        BY <3>1, <4>5, <4>6 DEF Replaced
    <3> QED
      BY <3>2, <3>3
  <2> QED
    BY <2>1, <2>2
<1> QED
  BY <1>2, <1>3 DEF m

NotesReplaced(old, new, archive, lost) ==
  /\ old.history \in SUBSET new.history
  /\ DOMAIN old.notes \in SUBSET DOMAIN new.notes
  /\ \A i \in DOMAIN old.notes : Replaced(old.notes[i], new.notes[i], archive, lost)

\* A step that is not a user's.
OthersKeep ==
  /\ written' = written
  /\ gone \in SUBSET gone'
  /\ \A d \in Device : /\ trash[d] \in SUBSET trash'[d]
                       /\ NotesReplaced(notesDb[d], notesDb'[d], trash'[d], gone')

\* A table left alone had nothing replaced.
LEMMA NothingReplaced ==
  ASSUME NEW db, NEW archive, NEW lost
  PROVE  NotesReplaced(db, db, archive, lost)
BY DEF NotesReplaced, Replaced

\* A merge replaces rows only by later ones, and tells the trash or the losses.
LEMMA MergeReplacesNotes ==
  ASSUME NEW db, NotesDbOK(db), NEW index, NEW R, NEW X, NEW incoming,
         Table(incoming, R, X), R \in SUBSET NoteRow,
         NEW new, new.history = db.history,
         new.notes = Merged(db.notes, index, incoming),
         NEW archive, NEW lost, Overrun(db.notes, new.notes, index) \in SUBSET lost,
         \/ Archived(index, incoming) \in SUBSET archive
         \/ {Revision(e.row) : e \in Archived(index, incoming)} \in SUBSET lost
  PROVE  NotesReplaced(db, new, archive, lost)
<1>1. db.notes \in Seq(NoteRow)
  BY DEF NotesDbOK
<1>2. Table(incoming, NoteRow, X)
  BY TableGrows
<1>3. incoming \in Seq(NoteRow)
  BY <1>2 DEF Table
<1>4. DOMAIN db.notes \in SUBSET DOMAIN new.notes
  <2>1. MergedFrom(Merged(db.notes, index, incoming), db.notes, index, incoming)
    BY <1>1, <1>3, MergeMakes
  <2> QED
    BY <2>1 DEF MergedFrom
<1>5. ASSUME NEW i \in DOMAIN db.notes
      PROVE  Replaced(db.notes[i], new.notes[i], archive, lost)
  <2>1. Replaced(db.notes[i], new.notes[i], Archived(index, incoming),
                 Overrun(db.notes, new.notes, index))
    BY <1>1, <1>3, MergeReplaces
  <2> QED
    BY <2>1 DEF Replaced
<1> QED
  BY <1>4, <1>5 DEF NotesReplaced

\* No action but those of the user and the resets loses content unseen.
LEMMA MergeNotesKeeps ==
  ASSUME SyncInv, NEW d \in Device, MergeNotes(d) \/ Crash(d)
  PROVE  OthersKeep
<1> DEFINE j == job[d]
           new == ImportInbox(notesDb[d], j.index, j.snap.notes)
           in == j.snap.notes.notes
<1>1. \/ /\ notesDb' = notesDb /\ trash' = trash /\ gone' = gone /\ written' = written
      \/ /\ j.phase = "notes"
         /\ notesDb' = [notesDb EXCEPT ![d] = new]
         /\ gone \cup Overrun(notesDb[d].notes, new.notes, j.index) \in SUBSET gone'
         /\ \/ trash' = [trash EXCEPT ![d] = @ \cup Archived(j.index, in)]
            \/ /\ trash' = trash
               /\ {Revision(e.row) : e \in Archived(j.index, in)} \in SUBSET gone'
         /\ written' = written
  BY DEF MergeNotes, Crash, PersistOutcome
<1>2. CASE notesDb' = notesDb /\ trash' = trash /\ gone' = gone /\ written' = written
  BY <1>2, NothingReplaced DEF OthersKeep
<1>3. CASE /\ j.phase = "notes"
           /\ notesDb' = [notesDb EXCEPT ![d] = new]
           /\ gone \cup Overrun(notesDb[d].notes, new.notes, j.index) \in SUBSET gone'
           /\ \/ trash' = [trash EXCEPT ![d] = @ \cup Archived(j.index, in)]
              \/ /\ trash' = trash
                 /\ {Revision(e.row) : e \in Archived(j.index, in)} \in SUBSET gone'
           /\ written' = written
  <2>1. Table(in, NotesOf(used, written), doubled)
    BY <1>3, JobHolds DEF SnapOK
  <2>2. NotesDbOK(notesDb[d]) /\ DOMAIN notesDb = Device /\ DOMAIN trash = Device
    BY DEF SyncInv, Shapes, ReplicasOK, NotesOK
  <2>3. /\ new.history = notesDb[d].history
        /\ new.notes = Merged(notesDb[d].notes, j.index, in)
    BY <2>2 DEF ImportInbox, NotesDbOK
  <2>4. NotesOf(used, written) \in SUBSET NoteRow
    BY DEF NotesOf
  <2>5. /\ \A e \in Device : trash[e] \in SUBSET trash'[e]
        /\ \/ Archived(j.index, in) \in SUBSET trash'[d]
           \/ {Revision(e.row) : e \in Archived(j.index, in)} \in SUBSET gone'
    BY <1>3, <2>2
  <2>6. Overrun(notesDb[d].notes, new.notes, j.index) \in SUBSET gone'
        /\ gone \in SUBSET gone'
    BY <1>3
  <2>7. notesDb'[d] = new /\ \A e \in Device : e # d => notesDb'[e] = notesDb[e]
    BY <1>3, <2>2
  <2> HIDE DEF new, in
  <2>8. NotesReplaced(notesDb[d], new, trash'[d], gone')
    BY <2>1, <2>2, <2>3, <2>4, <2>5, <2>6, MergeReplacesNotes
  <2> QED
    BY <1>3, <2>5, <2>6, <2>7, <2>8, NothingReplaced DEF OthersKeep
<1> QED
  BY <1>1, <1>2, <1>3

LEMMA CloudMergeKeeps ==
  ASSUME SyncInv, NEW d \in Device, CloudMerge(d)
  PROVE  OthersKeep
<1> DEFINE c == d1[d]
           new == [notesDb[d] EXCEPT !.notes = Merged(notesDb[d].notes, c.index, c.rows)]
           merged == Merged(notesDb[d].notes, c.index, c.rows)
<1>1. /\ c.phase = "merge" /\ trash' = trash /\ written' = written
      /\ \/ /\ c.table = "notes"
            /\ notesDb' = [notesDb EXCEPT ![d] = new]
            /\ gone' = gone \cup Overrun(notesDb[d].notes, merged, c.index) \cup
                     {Revision(a.row) : a \in Archived(c.index, c.rows)}
         \/ notesDb' = notesDb /\ gone' = gone
  BY DEF CloudMerge
<1>2. CASE notesDb' = notesDb /\ gone' = gone
  BY <1>1, <1>2, NothingReplaced DEF OthersKeep
<1>3. CASE /\ c.table = "notes"
           /\ notesDb' = [notesDb EXCEPT ![d] = new]
           /\ gone' = gone \cup Overrun(notesDb[d].notes, merged, c.index) \cup
                     {Revision(a.row) : a \in Archived(c.index, c.rows)}
  <2>1. Table(c.rows, NotesOf(used, written), doubled)
    <3>1. c # Idle
      BY <1>1 DEF Idle
    <3>2. CycleOK(c, used, written, doubled)
      BY DEF SyncInv, ExchangesOK
    <3> QED
      BY <1>3, <3>1, <3>2 DEF CycleOK
  <2>2. NotesDbOK(notesDb[d]) /\ DOMAIN notesDb = Device
    BY DEF SyncInv, Shapes, ReplicasOK, NotesOK
  <2>3. /\ new.history = notesDb[d].history
        /\ new.notes = merged
    BY <2>2 DEF NotesDbOK
  <2>4. NotesOf(used, written) \in SUBSET NoteRow
    BY DEF NotesOf
  <2>5. {Revision(e.row) : e \in Archived(c.index, c.rows)} \in SUBSET gone'
    BY <1>3
  <2>6. Overrun(notesDb[d].notes, new.notes, c.index) \in SUBSET gone'
        /\ gone \in SUBSET gone'
    BY <1>3, <2>3
  <2>7. notesDb'[d] = new /\ \A e \in Device : e # d => notesDb'[e] = notesDb[e]
    BY <1>3, <2>2
  <2> HIDE DEF new, c
  <2>8. NotesReplaced(notesDb[d], new, trash'[d], gone')
    BY <2>1, <2>2, <2>3, <2>4, <2>5, <2>6, MergeReplacesNotes
  <2> QED
    BY <1>1, <2>6, <2>7, <2>8, NothingReplaced DEF OthersKeep
<1> QED
  BY <1>1, <1>2, <1>3

\* The other steps of an exchange replace nothing.
LEMMA RestKeeps ==
  ASSUME SyncInv, NEW d \in Device, MergeTodos(d) \/ ClearCheckpoint(d) \/ Exchange(d)
  PROVE  OthersKeep
<1>1. /\ written' = written /\ gone' = gone /\ notesDb' = notesDb
      /\ \/ trash' = trash
         \/ \E archived : trash' = [trash EXCEPT ![d] = @ \cup archived]
  <2>1. CASE MergeTodos(d)
    BY <2>1 DEF MergeTodos, PersistOutcome
  <2>2. CASE ClearCheckpoint(d)
    BY <2>2 DEF ClearCheckpoint, replicas, history
  <2>3. CASE Exchange(d)
    BY <2>3, ExchangeMoves DEF ExchangesMove, replicas, history
  <2> QED
    BY <2>1, <2>2, <2>3
<1>2. \A e \in Device : trash[e] \in SUBSET trash'[e]
  BY <1>1 DEF SyncInv, Shapes
<1> QED
  BY <1>1, <1>2, NothingReplaced DEF OthersKeep

\* Every step is a user's, a reset of some kind, or keeps the notes.
LEMMA StepsKeep ==
  ASSUME SyncInv, [Next]_vars
  PROVE  \/ \E d \in Device : \E notes, todos, t : UserActs(d, notes, todos, t)
         \/ \E d \in Device : DeleteTrash(d) \/ Reset(d)
         \/ OthersKeep
<1>1. CASE UNCHANGED vars
  BY <1>1, NothingReplaced DEF OthersKeep, vars, replicas, history
<1>2. CASE Next
  <2>1. PICK d \in Device :
           \/ WriteNote(d) \/ WriteTodo(d) \/ RestoreTrash(d)
           \/ DeleteTrash(d) \/ Reset(d) \/ ClearCheckpoint(d)
           \/ MergeNotes(d) \/ MergeTodos(d) \/ Crash(d) \/ CloudMerge(d)
           \/ Exchange(d)
    BY <1>2, StepsOfNext
  <2>2. CASE WriteNote(d) \/ WriteTodo(d) \/ RestoreTrash(d)
    <3>1. \E notes, todos, t : UserActs(d, notes, todos, t)
      BY <2>2, WriteNoteActs, WriteTodoActs, RestoreTrashActs
    <3> QED
      BY <3>1
  <2>3. CASE MergeNotes(d) \/ Crash(d)
    BY <2>3, MergeNotesKeeps
  <2>4. CASE CloudMerge(d)
    BY <2>4, CloudMergeKeeps
  <2>5. CASE MergeTodos(d) \/ ClearCheckpoint(d) \/ Exchange(d)
    BY <2>5, RestKeeps
  <2> QED
    BY <2>1, <2>2, <2>3, <2>4, <2>5
<1> QED
  BY <1>1, <1>2

-----------------------------------------------------------------------------
(* No edit is lost                                                         *)

\* Kept, by the database and the trash of one device.
KeptIn(db, archive, u, c) ==
  \/ \E i \in WithUuid(db.notes, u) :
        db.notes[i].content = c \/ \E h \in db.history : h.note = i /\ h.content = c
  \/ \E e \in archive : "content" \in DOMAIN e.row /\ e.row.uuid = u
                                                   /\ e.row.content = c

Listed(lost, u, c) == \E g \in lost : g.uuid = u /\ g.content = c

\* A content is kept when some device keeps it.
LEMMA KeptSomewhere ==
  ASSUME NEW u, NEW c
  PROVE  /\ Kept(u, c) <=> \E d \in Device : KeptIn(notesDb[d], trash[d], u, c)
         /\ Kept(u, c)' <=> \E d \in Device : KeptIn(notesDb'[d], trash'[d], u, c)
BY DEF Kept, KeptIn

\* What a merge replaces is kept by the archive, or is listed as lost.
LEMMA MergeKeepsContent ==
  ASSUME NEW db, NEW new, NEW archive, NEW archive2, archive \in SUBSET archive2,
         NEW lost, NEW u, NEW c, db.notes \in Seq(NoteRow),
         NotesReplaced(db, new, archive2, lost), KeptIn(db, archive, u, c)
  PROVE  KeptIn(new, archive2, u, c) \/ Listed(lost, u, c)
<1>1. CASE \E e \in archive : "content" \in DOMAIN e.row /\ e.row.uuid = u
                                                         /\ e.row.content = c
  BY <1>1 DEF KeptIn
<1>2. ASSUME NEW i \in WithUuid(db.notes, u),
             \E h \in db.history : h.note = i /\ h.content = c
      PROVE  KeptIn(new, archive2, u, c)
  <2>1. i \in WithUuid(new.notes, u)
    BY DEF NotesReplaced, Replaced, WithUuid
  <2> QED
    BY <1>2, <2>1 DEF NotesReplaced, KeptIn
<1>3. ASSUME NEW i \in WithUuid(db.notes, u), db.notes[i].content = c
      PROVE  KeptIn(new, archive2, u, c) \/ Listed(lost, u, c)
  <2>1. i \in DOMAIN db.notes /\ db.notes[i].uuid = u
    BY DEF WithUuid
  <2>2. i \in WithUuid(new.notes, u)
    BY <2>1 DEF NotesReplaced, Replaced, WithUuid
  <2>3. CASE new.notes[i] = db.notes[i]
    BY <1>3, <2>2, <2>3 DEF KeptIn
  <2>4. CASE Revision(db.notes[i]) \in lost
    BY <1>3, <2>1, <2>4 DEF Listed, Revision
  <2>5. CASE \E e \in archive2 : e.row = db.notes[i]
    <3>1. db.notes[i] \in NoteRow
      BY <2>1, Positions
    <3>2. "content" \in DOMAIN db.notes[i]
      BY <3>1, NotesHaveContent
    <3> QED
      BY <1>3, <2>1, <2>5, <3>2 DEF KeptIn
  <2>6. Replaced(db.notes[i], new.notes[i], archive2, lost)
    BY <2>1 DEF NotesReplaced
  <2> QED
    BY <2>3, <2>4, <2>5, <2>6 DEF Replaced
<1> QED
  BY <1>1, <1>2, <1>3 DEF KeptIn

\* The user's writes keep every content, here or in the trash.
LEMMA UserKeepsContent ==
  ASSUME NEW db, NEW new, NEW t, NotesWritten(db, new, t), NEW archive, NEW archive2,
         \A x \in archive : \E y \in archive2 : y.row = x.row,
         NEW u, NEW c, KeptIn(db, archive, u, c)
  PROVE  KeptIn(new, archive2, u, c)
<1>1. /\ RowsWritten(db.notes, new.notes) /\ Remembered(db, new)
      /\ \A i \in WithUuid(db.notes, u) : i \in DOMAIN db.notes /\ i \in WithUuid(new.notes, u)
  BY DEF NotesWritten, RowsWritten, WithUuid
<1>2. CASE \E e \in archive : "content" \in DOMAIN e.row /\ e.row.uuid = u
                                                         /\ e.row.content = c
  BY <1>2 DEF KeptIn
<1>3. ASSUME NEW i \in WithUuid(db.notes, u),
             \E h \in db.history : h.note = i /\ h.content = c
      PROVE  KeptIn(new, archive2, u, c)
  BY <1>1, <1>3 DEF Remembered, KeptIn
<1>4. ASSUME NEW i \in WithUuid(db.notes, u), db.notes[i].content = c
      PROVE  KeptIn(new, archive2, u, c)
  BY <1>1, <1>4 DEF Remembered, KeptIn
<1> QED
  BY <1>2, <1>3, <1>4 DEF KeptIn

LEMMA UserKeepsEdits ==
  ASSUME SyncInv, NoEditLost, NEW d \in Device, NEW notes, NEW todos, NEW t,
         UserActs(d, notes, todos, t)
  PROVE  NoEditLost'
<1>1. /\ notesDb' = [notesDb EXCEPT ![d] = notes]
      /\ written' = written \cup Revisions(notes.notes)
      /\ gone' = gone
      /\ NotesWritten(notesDb[d], notes, t)
      /\ \A e \in Device : \A x \in trash[e] : \E y \in trash'[e] : y.row = x.row
  BY DEF UserActs, UserWrites
<1>2. /\ DOMAIN notesDb = Device
      /\ \A e \in Device : NotesDbOK(notesDb[e])
  BY DEF SyncInv, Shapes, ReplicasOK, NotesOK
<1>3. \A e \in Device : NotesWritten(notesDb[e], notesDb'[e], t)
  BY <1>1, <1>2, NothingWritten
<1>4. SUFFICES ASSUME NEW r \in written'
               PROVE  Kept(r.uuid, r.content)' \/ Listed(gone', r.uuid, r.content)
  BY DEF NoEditLost, Listed
<1>5. CASE r \in written
  <2>1. CASE Listed(gone, r.uuid, r.content)
    BY <1>1, <2>1
  <2>2. CASE Kept(r.uuid, r.content)
    <3>1. PICK e \in Device : KeptIn(notesDb[e], trash[e], r.uuid, r.content)
      BY <2>2, KeptSomewhere
    <3>2. KeptIn(notesDb'[e], trash'[e], r.uuid, r.content)
      BY <1>1, <1>3, <3>1, UserKeepsContent
    <3> QED
      BY <3>2, KeptSomewhere
  <2> QED
    BY <1>5, <2>1, <2>2 DEF NoEditLost, Listed
<1>6. CASE r \in Revisions(notes.notes)
  <2>1. PICK i \in DOMAIN notes.notes : r = Revision(notes.notes[i])
    BY <1>6 DEF Revisions
  <2>2. notesDb'[d] = notes
    BY <1>1, <1>2
  <2>3. i \in WithUuid(notes.notes, r.uuid) /\ notes.notes[i].content = r.content
    BY <2>1 DEF WithUuid, Revision
  <2>4. KeptIn(notesDb'[d], trash'[d], r.uuid, r.content)
    BY <2>2, <2>3 DEF KeptIn
  <2> QED
    BY <2>4, KeptSomewhere
<1> QED
  BY <1>1, <1>5, <1>6

LEMMA OthersKeepEdits ==
  ASSUME SyncInv, NoEditLost, OthersKeep
  PROVE  NoEditLost'
<1>1. SUFFICES ASSUME NEW r \in written
               PROVE  Kept(r.uuid, r.content)' \/ Listed(gone', r.uuid, r.content)
  BY DEF NoEditLost, Listed, OthersKeep
<1>2. CASE Listed(gone, r.uuid, r.content)
  BY <1>2 DEF Listed, OthersKeep
<1>3. CASE Kept(r.uuid, r.content)
  <2>1. PICK e \in Device : KeptIn(notesDb[e], trash[e], r.uuid, r.content)
    BY <1>3, KeptSomewhere
  <2>2. /\ trash[e] \in SUBSET trash'[e]
        /\ NotesReplaced(notesDb[e], notesDb'[e], trash'[e], gone')
        /\ notesDb[e].notes \in Seq(NoteRow)
    BY DEF OthersKeep, SyncInv, ReplicasOK, NotesOK, NotesDbOK
  <2>3. \/ KeptIn(notesDb'[e], trash'[e], r.uuid, r.content)
        \/ Listed(gone', r.uuid, r.content)
    BY <2>1, <2>2, MergeKeepsContent
  <2> QED
    BY <2>3, KeptSomewhere
<1> QED
  BY <1>2, <1>3 DEF NoEditLost, Listed

LEMMA ResetKeepsEdits ==
  ASSUME SyncInv, NoEditLost, NEW d \in Device, Reset(d)
  PROVE  NoEditLost'
<1> DEFINE lost(h) == [uuid |-> notesDb[d].notes[h.note].uuid, ms |-> 0,
                       content |-> h.content, dev |-> None]
<1>1. /\ notesDb' = [notesDb EXCEPT ![d] = EmptyNotes]
      /\ trash' = trash /\ written' = written
      /\ gone' = gone \cup Revisions(notesDb[d].notes)
                      \cup {lost(h) : h \in notesDb[d].history}
  BY DEF Reset
<1>2. \A h : lost(h).uuid = notesDb[d].notes[h.note].uuid /\ lost(h).content = h.content
  OBVIOUS
<1> HIDE DEF lost
<1>3. \A e \in Device : e # d => notesDb'[e] = notesDb[e]
  BY <1>1 DEF SyncInv, Shapes
<1>4. SUFFICES ASSUME NEW r \in written
               PROVE  Kept(r.uuid, r.content)' \/ Listed(gone', r.uuid, r.content)
  BY <1>1 DEF NoEditLost, Listed
<1>5. CASE Listed(gone, r.uuid, r.content)
  BY <1>1, <1>5 DEF Listed
<1>6. CASE Kept(r.uuid, r.content)
  <2>1. PICK e \in Device : KeptIn(notesDb[e], trash[e], r.uuid, r.content)
    BY <1>6, KeptSomewhere
  <2>2. CASE e # d
    BY <1>1, <1>3, <2>1, <2>2, KeptSomewhere
  <2>3. CASE e = d
    <3>1. CASE \E x \in trash[d] : "content" \in DOMAIN x.row /\ x.row.uuid = r.uuid
                                                      /\ x.row.content = r.content
      <4>1. KeptIn(notesDb'[d], trash'[d], r.uuid, r.content)
        BY <1>1, <3>1 DEF KeptIn
      <4> QED
        BY <4>1, KeptSomewhere
    <3>2. ASSUME NEW i \in WithUuid(notesDb[d].notes, r.uuid),
                 notesDb[d].notes[i].content = r.content
          PROVE  Listed(gone', r.uuid, r.content)
      <4>1. Revision(notesDb[d].notes[i]) \in gone'
        BY <1>1 DEF Revisions, WithUuid
      <4> QED
        BY <3>2, <4>1 DEF Listed, Revision, WithUuid
    <3>3. ASSUME NEW i \in WithUuid(notesDb[d].notes, r.uuid),
                 NEW h \in notesDb[d].history, h.note = i, h.content = r.content
          PROVE  Listed(gone', r.uuid, r.content)
      <4>1. lost(h) \in gone'
        BY <1>1
      <4>2. lost(h).uuid = r.uuid /\ lost(h).content = r.content
        BY <1>2, <3>3 DEF WithUuid
      <4> QED
        BY <4>1, <4>2 DEF Listed
    <3> QED
      BY <2>1, <2>3, <3>1, <3>2, <3>3 DEF KeptIn
  <2> QED
    BY <2>2, <2>3
<1> QED
  BY <1>5, <1>6 DEF NoEditLost, Listed

LEMMA DeleteTrashKeepsEdits ==
  ASSUME SyncInv, NoEditLost, NEW d \in Device, DeleteTrash(d)
  PROVE  NoEditLost'
<1>1. PICK es : /\ trash' = [trash EXCEPT ![d] = @ \ es]
                /\ gone' = gone \cup {Revision(e.row) :
                              e \in {x \in es : "content" \in DOMAIN x.row}}
                /\ notesDb' = notesDb /\ written' = written
  BY DEF DeleteTrash
<1>2. /\ trash'[d] = trash[d] \ es
      /\ \A e \in Device : e # d => trash'[e] = trash[e]
  BY <1>1 DEF SyncInv, Shapes
<1>3. SUFFICES ASSUME NEW r \in written
               PROVE  Kept(r.uuid, r.content)' \/ Listed(gone', r.uuid, r.content)
  BY <1>1 DEF NoEditLost, Listed
<1>4. CASE Listed(gone, r.uuid, r.content)
  BY <1>1, <1>4 DEF Listed
<1>5. CASE Kept(r.uuid, r.content)
  <2>1. PICK e \in Device : KeptIn(notesDb[e], trash[e], r.uuid, r.content)
    BY <1>5, KeptSomewhere
  <2>2. CASE KeptIn(notesDb'[e], trash'[e], r.uuid, r.content)
    BY <2>2, KeptSomewhere
  <2>3. CASE ~KeptIn(notesDb'[e], trash'[e], r.uuid, r.content)
    <3>1. PICK x \in trash[e] : /\ "content" \in DOMAIN x.row /\ x.row.uuid = r.uuid
                                /\ x.row.content = r.content /\ x \notin trash'[e]
      BY <1>1, <2>1, <2>3 DEF KeptIn
    <3>2. x \in es
      BY <1>2, <3>1
    <3>3. Revision(x.row) \in gone'
      BY <1>1, <3>1, <3>2
    <3> QED
      BY <3>1, <3>3 DEF Listed, Revision
  <2> QED
    BY <2>2, <2>3
<1> QED
  BY <1>4, <1>5 DEF NoEditLost, Listed

\* NoEditLost of the runs: every content that a note ever had is its content
\* somewhere, or in its history, or in a trash, or was overwritten without an
\* archive in one of the ways that "gone" records; however the merges, the
\* pushes and the cloud cycles of any number of devices overlap.
THEOREM EditsAreKept == Spec => []NoEditLost
<1>1. Init => NoEditLost
  BY DEF Init, NoEditLost
<1>2. SyncInv /\ NoEditLost /\ [Next]_vars => NoEditLost'
  BY StepsKeep, UserKeepsEdits, OthersKeepEdits, ResetKeepsEdits,
     DeleteTrashKeepsEdits
<1> QED
  BY <1>1, <1>2, SyncInvariance, PTL DEF Spec

-----------------------------------------------------------------------------
(* The newest revision survives                                            *)

Unbeaten(r) == \A s \in written : s.uuid = r.uuid => ~Beats(s, r)

\* Not only of the newest: of every revision that none beats.
UnbeatenSurvive ==
  \A r \in written :
     Unbeaten(r) => \/ r \in gone
                    \/ \E d \in Device : r \in Revisions(notesDb[d].notes)

WrittenOK == \A r \in written : r.ms \in 0..MaxClock /\ r.dev \in Dev

RevisionsInv == WrittenOK /\ UnbeatenSurvive

\* Times and devices of one note: some revision is the newest.
LEMMA NewestExists ==
  ASSUME SyncAssumption, WrittenOK, NEW q \in written
  PROVE  /\ Newest(q.uuid) \in written /\ Newest(q.uuid).uuid = q.uuid
         /\ Unbeaten(Newest(q.uuid))
<1> DEFINE u == q.uuid
           ofU == {r \in written : r.uuid = u}
           times == {r.ms : r \in ofU}
<1>1. MaxClock \in Nat /\ IsFiniteSet(Dev) /\ \A d \in Dev : Rank[d] \in Nat
  BY FS_AddElement DEF SyncAssumption, Dev
<1>2. \A r \in ofU : r.ms \in 0..MaxClock /\ r.dev \in Dev
  BY DEF WrittenOK
<1>3. PICK p \in ofU : \A r \in ofU : r.ms <= p.ms
  <2>1. times \in SUBSET (0..MaxClock) /\ times # {}
    BY <1>2
  <2>2. times \in SUBSET Nat /\ IsFiniteSet(times)
    <3> HIDE DEF times
    <3>1. IsFiniteSet(0..MaxClock) /\ 0..MaxClock \in SUBSET Nat
      BY <1>1, FS_Interval
    <3>2. IsFiniteSet(times)
      BY <2>1, <3>1, FS_Subset
    <3> QED
      BY <2>1, <3>1, <3>2
  <2>3. PICK x \in times : \A y \in times : x >= y
    BY <2>1, <2>2, LatestExists
  <2>4. PICK p \in ofU : p.ms = x
    BY <2>3
  <2>5. \A r \in ofU : r.ms <= p.ms
    BY <1>1, <1>2, <2>3, <2>4
  <2> QED
    BY <2>5
<1> DEFINE latest == {r \in ofU : r.ms = p.ms}
           ranks == {Rank[r.dev] : r \in latest}
           all == {Rank[d] : d \in Dev}
<1>4. PICK n \in latest : \A r \in latest : Rank[r.dev] <= Rank[n.dev]
  <2>1. ranks \in SUBSET all /\ ranks # {} /\ ranks \in SUBSET Nat
    BY <1>1, <1>2
  <2>2. IsFiniteSet(all)
    <3> DEFINE f == [d \in Dev |-> Rank[d]]
    <3>1. f \in Surjection(Dev, all)
      BY DEF Surjection
    <3> HIDE DEF f, all
    <3> QED
      BY <1>1, <3>1, FS_Surjection
  <2>3. IsFiniteSet(ranks)
    BY <2>1, <2>2, FS_Subset
  <2>4. PICK x \in ranks : \A y \in ranks : x >= y
    BY <2>1, <2>3, LatestExists
  <2>5. PICK n \in latest : Rank[n.dev] = x
    BY <2>4
  <2>6. \A r \in latest : Rank[r.dev] <= Rank[n.dev]
    BY <1>1, <1>2, <2>4, <2>5
  <2> QED
    BY <2>6
<1>5. /\ n \in written /\ n.uuid = u
      /\ \A s \in written : s.uuid = u =>
            s.ms < n.ms \/ (s.ms = n.ms /\ Rank[s.dev] <= Rank[n.dev])
  <2>1. ASSUME NEW s \in ofU PROVE s.ms < n.ms \/ s.ms = n.ms
    BY <1>1, <1>2, <1>3, <1>4
  <2>2. ASSUME NEW s \in ofU, s.ms = n.ms PROVE Rank[s.dev] <= Rank[n.dev]
    BY <1>4, <2>2
  <2> QED
    BY <2>1, <2>2
<1> DEFINE w == Newest(u)
<1>6. /\ w \in written /\ w.uuid = u
      /\ \A s \in written : s.uuid = u =>
            s.ms < w.ms \/ (s.ms = w.ms /\ Rank[s.dev] <= Rank[w.dev])
  BY <1>5 DEF Newest
<1> HIDE DEF w
<1>7. ASSUME NEW s \in written, s.uuid = u PROVE ~Beats(s, w)
  <2>1. /\ s.ms \in 0..MaxClock /\ w.ms \in 0..MaxClock
        /\ Rank[s.dev] \in Nat /\ Rank[w.dev] \in Nat
    BY <1>1, <1>6 DEF WrittenOK
  <2>2. s.ms < w.ms \/ (s.ms = w.ms /\ Rank[s.dev] <= Rank[w.dev])
    BY <1>6, <1>7
  <2> QED
    BY <1>1, <2>1, <2>2 DEF Beats
<1> QED
  BY <1>6, <1>7 DEF Unbeaten, w

\* Nothing is unbeaten that was beaten before.
LEMMA UnbeatenBefore ==
  ASSUME written \in SUBSET written'
  PROVE  \A r : Unbeaten(r)' => Unbeaten(r)
BY DEF Unbeaten

LEMMA UserKeepsNewest ==
  ASSUME SyncInv, RevisionsInv, NEW d \in Device, NEW notes, NEW todos, NEW t,
         UserActs(d, notes, todos, t)
  PROVE  RevisionsInv'
<1>1. /\ notesDb' = [notesDb EXCEPT ![d] = notes]
      /\ written' = written \cup Revisions(notes.notes)
      /\ gone' = gone
      /\ NotesWritten(notesDb[d], notes, t)
      /\ t \in 0..MaxClock
  BY DEF UserActs, UserWrites
<1>2. /\ notesDb'[d] = notes /\ \A e \in Device : e # d => notesDb'[e] = notesDb[e]
      /\ NotesDbOK(notesDb[d])
  BY <1>1 DEF SyncInv, Shapes, ReplicasOK, NotesOK
<1>3. /\ \A i \in DOMAIN notes.notes : notes.notes[i] \in NoteRow
      /\ \A i \in DOMAIN notesDb[d].notes : notesDb[d].notes[i] \in NoteRow
  BY <1>1, <1>2, Positions DEF NotesWritten, NotesDbOK
<1>4. WrittenOK'
  <2>1. \A r \in Revisions(notes.notes) : r.ms \in 0..MaxClock /\ r.dev \in Dev
    BY <1>3 DEF Revisions, Revision, NoteRow, Stamp
  <2> QED
    BY <1>1, <2>1 DEF RevisionsInv, WrittenOK
<1>5. UnbeatenSurvive'
  <2>1. SUFFICES ASSUME NEW r \in written', Unbeaten(r)'
                 PROVE  r \in gone' \/ \E e \in Device : r \in Revisions(notesDb'[e].notes)
    BY DEF UnbeatenSurvive
  <2>2. CASE r \in Revisions(notes.notes)
    BY <1>2, <2>2
  <2>3. CASE r \notin Revisions(notes.notes)
    <3>1. r \in written /\ Unbeaten(r)
      BY <1>1, <2>1, <2>3, UnbeatenBefore
    <3>2. CASE r \in gone
      BY <1>1, <3>2
    <3>3. ASSUME NEW e \in Device, r \in Revisions(notesDb[e].notes)
          PROVE  \E x \in Device : r \in Revisions(notesDb'[x].notes)
      <4>1. CASE e # d
        BY <1>2, <3>3, <4>1
      <4>2. CASE e = d
        <5>1. PICK i \in DOMAIN notesDb[d].notes : r = Revision(notesDb[d].notes[i])
          BY <3>3, <4>2 DEF Revisions
        <5> DEFINE old == notesDb[d].notes[i]
                   new == notes.notes[i]
        <5>2. /\ i \in DOMAIN notes.notes /\ new.uuid = old.uuid
              /\ new = old \/ (old.updated.ms < t /\ new.updated.ms = t)
          BY <1>1 DEF NotesWritten, RowsWritten, Touched
        <5>3. Revision(new) \in Revisions(notes.notes)
          BY <5>2 DEF Revisions
        <5>4. new # old
          BY <2>3, <5>1, <5>3
        <5>5. Revision(new) \in written' /\ Revision(new).uuid = r.uuid
          BY <1>1, <5>1, <5>2, <5>3 DEF Revision
        <5>6. old.updated.ms \in 0..MaxClock
          BY <1>3 DEF NoteRow, Stamp
        <5>7. Beats(Revision(new), r)
          BY <1>1, <5>1, <5>2, <5>4, <5>6 DEF Beats, Revision
        <5>8. \A s \in written' : s.uuid = r.uuid => ~Beats(s, r)
          BY <2>1 DEF Unbeaten
        <5> QED
          BY <5>5, <5>7, <5>8
      <4> QED
        BY <4>1, <4>2
    <3> QED
      BY <3>1, <3>2, <3>3 DEF RevisionsInv, UnbeatenSurvive
  <2> QED
    BY <2>2, <2>3
<1> QED
  BY <1>4, <1>5 DEF RevisionsInv

LEMMA OthersKeepNewest ==
  ASSUME SyncInv, SyncInv', RevisionsInv, OthersKeep
  PROVE  RevisionsInv'
<1>1. WrittenOK'
  BY DEF RevisionsInv, WrittenOK, OthersKeep
<1>2. ASSUME NEW r \in written', Unbeaten(r)'
      PROVE  r \in gone' \/ \E e \in Device : r \in Revisions(notesDb'[e].notes)
  <2>1. r \in written /\ Unbeaten(r) /\ written' = written /\ gone \in SUBSET gone'
    BY <1>2, UnbeatenBefore DEF OthersKeep
  <2>2. ASSUME NEW e \in Device, r \in Revisions(notesDb[e].notes)
        PROVE  r \in gone' \/ r \in Revisions(notesDb'[e].notes)
    <3>1. PICK i \in DOMAIN notesDb[e].notes : r = Revision(notesDb[e].notes[i])
      BY <2>2 DEF Revisions
    <3> DEFINE old == notesDb[e].notes[i]
               new == notesDb'[e].notes[i]
    <3>2. i \in DOMAIN notesDb'[e].notes /\ Replaced(old, new, trash'[e], gone')
      BY DEF OthersKeep, NotesReplaced
    <3>3. CASE new = old
      BY <3>1, <3>2, <3>3 DEF Revisions
    <3>4. CASE Beats(Revision(new), Revision(old))
      <4>1. Revision(new) \in written'
        <5>1. notesDb'[e].notes \in Seq(NotesOf(used', written'))
          BY DEF SyncInv, ReplicasOK, NotesOK, Table
        <5>2. new \in NotesOf(used', written')
          BY <3>2, <5>1, Positions
        <5> QED
          BY <5>2 DEF NotesOf
      <4>2. Revision(new).uuid = r.uuid
        BY <3>1, <3>2 DEF Replaced, Revision
      <4> QED
        BY <1>2, <3>1, <3>4, <4>1, <4>2 DEF Unbeaten
    <3> QED
      BY <3>1, <3>2, <3>3, <3>4 DEF Replaced
  <2> QED
    BY <2>1, <2>2 DEF RevisionsInv, UnbeatenSurvive
<1>3. UnbeatenSurvive'
  BY <1>2 DEF UnbeatenSurvive
<1> QED
  BY <1>1, <1>3 DEF RevisionsInv

LEMMA ResetsKeepNewest ==
  ASSUME SyncInv, RevisionsInv, NEW d \in Device, DeleteTrash(d) \/ Reset(d)
  PROVE  RevisionsInv'
<1>1. /\ written' = written /\ gone \in SUBSET gone'
      /\ \/ notesDb' = notesDb
         \/ /\ notesDb' = [notesDb EXCEPT ![d] = EmptyNotes]
            /\ Revisions(notesDb[d].notes) \in SUBSET gone'
  BY DEF DeleteTrash, Reset
<1>2. WrittenOK'
  BY <1>1 DEF RevisionsInv, WrittenOK
<1>3. ASSUME NEW r \in written', Unbeaten(r)'
      PROVE  r \in gone' \/ \E e \in Device : r \in Revisions(notesDb'[e].notes)
  <2>1. r \in written /\ Unbeaten(r)
    BY <1>1, <1>3, UnbeatenBefore
  <2>2. ASSUME NEW e \in Device, r \in Revisions(notesDb[e].notes)
        PROVE  r \in gone' \/ r \in Revisions(notesDb'[e].notes)
    <3>1. \/ notesDb'[e] = notesDb[e]
          \/ e = d /\ Revisions(notesDb[d].notes) \in SUBSET gone'
      BY <1>1 DEF SyncInv, Shapes
    <3> QED
      BY <2>2, <3>1
  <2> QED
    BY <1>1, <2>1, <2>2 DEF RevisionsInv, UnbeatenSurvive
<1>4. UnbeatenSurvive'
  BY <1>3 DEF UnbeatenSurvive
<1> QED
  BY <1>2, <1>4 DEF RevisionsInv

\* The history of revisions agrees with the rows in every state.
LEMMA RevisionsInvariance == Spec => []RevisionsInv
<1>1. Init => RevisionsInv
  BY DEF Init, RevisionsInv, WrittenOK, UnbeatenSurvive
<1>2. SyncInv /\ SyncInv' /\ RevisionsInv /\ [Next]_vars => RevisionsInv'
  BY StepsKeep, UserKeepsNewest, OthersKeepNewest, ResetsKeepNewest
<1> QED
  BY <1>1, <1>2, SyncInvariance, PTL DEF Spec

\* NewestSurvives of the runs, last writer wins: the newest revision of a note
\* is the current row of some replica or is in "gone", whatever snapshots
\* arrive late, twice or over each other.
THEOREM LastWriterWins == Spec => []NewestSurvives
<1>1. RevisionsInv => NewestSurvives
  <2>1. ASSUME RevisionsInv, NEW u \in {r.uuid : r \in written}
        PROVE  \/ Newest(u) \in gone
               \/ \E d \in Device : Newest(u) \in Revisions(notesDb[d].notes)
    <3>1. PICK q \in written : u = q.uuid
      BY <2>1
    <3>2. Newest(u) \in written /\ Unbeaten(Newest(u))
      BY <2>1, <3>1, SyncAssumption, NewestExists DEF RevisionsInv
    <3> QED
      BY <2>1, <3>2 DEF RevisionsInv, UnbeatenSurvive
  <2> QED
    BY <2>1 DEF NewestSurvives
<1> QED
  BY <1>1, RevisionsInvariance, PTL
-----------------------------------------------------------------------------
(* Two tables after a merge                                                *)

\* A row that the holder of y has no reason to take.
Behind(x, y) == Same(x, y) \/ ~IncomingNewer(x, y)

\* One side has all that the other has, or something newer.
Covers(mine, theirs, X) ==
  \A k \in DOMAIN theirs :
     theirs[k].uuid \notin X =>
        /\ Known(mine, theirs[k])
        /\ \A i \in DOMAIN mine :
              mine[i].uuid = theirs[k].uuid => Behind(theirs[k], mine[i])

\* The two have the same uuids, and rows of one uuid are alike.
Matched(mine, theirs, X) ==
  /\ \A i \in DOMAIN mine : mine[i].uuid \notin X => Known(theirs, mine[i])
  /\ \A k \in DOMAIN theirs : theirs[k].uuid \notin X => Known(mine, theirs[k])
  /\ \A i \in DOMAIN mine, k \in DOMAIN theirs :
        mine[i].uuid = theirs[k].uuid /\ mine[i].uuid \notin X =>
           Same(mine[i], theirs[k]) \/ Tied(mine[i], theirs[k])

\* Rows of one kind.
Kind(R) == R \in SUBSET NoteRow \/ R \in SUBSET TodoRow

\* Same is reflexive and symmetric on rows of one kind.
LEMMA KindsAreSame ==
  ASSUME NEW R, Kind(R), NEW x \in R, NEW y \in R
  PROVE  Same(x, x) /\ (Same(x, y) => Same(y, x))
<1>1. CASE R \in SUBSET NoteRow
  <2>1. "content" \in DOMAIN x /\ "content" \in DOMAIN y
    BY <1>1 DEF NoteRow
  <2> QED
    BY <2>1 DEF Same, SameNote
<1>2. CASE R \in SUBSET TodoRow
  <2>1. "content" \notin DOMAIN x /\ "content" \notin DOMAIN y
    BY <1>2 DEF TodoRow
  <2> QED
    BY <2>1 DEF Same, SameTodo
<1> QED
  BY <1>1, <1>2 DEF Kind

\* What a merge leaves when nobody has written to the table since the index
\* was read.
Took(m, rows, incoming, X) ==
  /\ DOMAIN rows \in SUBSET DOMAIN m
  /\ \A i \in DOMAIN rows : m[i].uuid = rows[i].uuid
  /\ \A i \in DOMAIN m \ DOMAIN rows : \E k \in DOMAIN incoming : m[i] = incoming[k]
  /\ \A k \in DOMAIN incoming : Known(m, incoming[k])
  /\ \A i \in DOMAIN m, k \in DOMAIN incoming :
        m[i].uuid = incoming[k].uuid /\ m[i].uuid \notin X =>
           \/ m[i] = incoming[k]
           \/ i \in DOMAIN rows /\ m[i] = rows[i] /\ Behind(incoming[k], rows[i])

\* So it does, when the index it compares with is the table itself.
LEMMA MergeTakes ==
  ASSUME NEW R, Kind(R), NEW X, NEW rows, Table(rows, R, X),
         NEW incoming, Table(incoming, R, X)
  PROVE  Took(Merged(rows, rows, incoming), rows, incoming, X)
<1> DEFINE m == Merged(rows, rows, incoming)
<1>1. rows \in Seq(R) /\ incoming \in Seq(R) /\ Keyed(rows, X) /\ Keyed(incoming, X)
  BY DEF Table
<1>2. MergedFrom(m, rows, rows, incoming)
  BY <1>1, MergeMakes
<1> HIDE DEF m
<1>3. /\ \A i \in DOMAIN rows : rows[i] \in R
      /\ \A k \in DOMAIN incoming : incoming[k] \in R
  BY <1>1, Positions
<1>4. \A i \in DOMAIN rows : m[i].uuid = rows[i].uuid
  BY <1>2 DEF MergedFrom
<1>5. ASSUME NEW k \in DOMAIN incoming PROVE Known(m, incoming[k])
  <2>1. CASE Known(rows, incoming[k])
    <3>1. PICK i \in DOMAIN rows : rows[i].uuid = incoming[k].uuid
      BY <2>1 DEF Known, WithUuid
    <3>2. i \in DOMAIN m /\ m[i].uuid = incoming[k].uuid
      BY <1>2, <1>4, <3>1 DEF MergedFrom
    <3> QED
      BY <3>2 DEF Known, WithUuid
  <2>2. CASE ~Known(rows, incoming[k])
    <3>1. \E i \in DOMAIN m : m[i] = incoming[k]
      BY <1>2, <2>2 DEF MergedFrom
    <3> QED
      BY <3>1 DEF Known, WithUuid
  <2> QED
    BY <2>1, <2>2
<1>6. ASSUME NEW i \in DOMAIN m, NEW k \in DOMAIN incoming,
             m[i].uuid = incoming[k].uuid, m[i].uuid \notin X
      PROVE  \/ m[i] = incoming[k]
             \/ i \in DOMAIN rows /\ m[i] = rows[i] /\ Behind(incoming[k], rows[i])
  <2>1. ASSUME NEW l \in DOMAIN incoming, m[i] = incoming[l]
        PROVE  m[i] = incoming[k]
    BY <1>1, <1>6, <2>1 DEF Keyed
  <2>2. CASE i \notin DOMAIN rows
    BY <1>2, <2>1, <2>2 DEF MergedFrom
  <2>3. CASE i \in DOMAIN rows
    <3>1. CASE \E l \in DOMAIN incoming : m[i] = incoming[l]
      BY <2>1, <3>1
    <3>2. CASE ~\E l \in DOMAIN incoming : m[i] = incoming[l]
      <4>1. m[i] = rows[i] /\ ~Wins(rows, incoming[k])
        BY <1>2, <1>4, <1>6, <2>3, <3>2 DEF MergedFrom
      <4> DEFINE K == WithUuid(rows, incoming[k].uuid)
      <4>2. K = {i}
        BY <1>1, <1>4, <1>6, <2>3 DEF Keyed, WithUuid
      <4>3. Known(rows, incoming[k])
        BY <4>2 DEF Known
      <4> HIDE DEF K
      <4>4. LastOf(K) = i
        <5>1. K \in SUBSET DOMAIN rows /\ K # {}
          BY <2>3, <4>2
        <5>2. rows \in Seq(R)
          BY <1>1
        <5>3. LastOf(K) \in K
          BY <5>1, <5>2, LastIsOne
        <5> QED
          BY <4>2, <5>3
      <4>5. Local(rows, incoming[k]) = rows[i]
        BY <4>4 DEF Local, K
      <4>6. Same(rows[i], incoming[k]) \/ ~IncomingNewer(incoming[k], rows[i])
        BY <4>1, <4>3, <4>5 DEF Wins, Differs
      <4>7. Same(rows[i], incoming[k]) => Same(incoming[k], rows[i])
        BY <1>3, <2>3, KindsAreSame
      <4> QED
        BY <2>3, <4>1, <4>6, <4>7 DEF Behind
    <3> QED
      BY <3>1, <3>2
  <2> QED
    BY <2>2, <2>3
<1>7. /\ DOMAIN rows \in SUBSET DOMAIN m
      /\ \A i \in DOMAIN m \ DOMAIN rows : \E k \in DOMAIN incoming : m[i] = incoming[k]
  BY <1>2 DEF MergedFrom
<1>8. Took(m, rows, incoming, X)
  BY <1>4, <1>5, <1>6, <1>7 DEF Took
<1> QED
  BY <1>8 DEF m

\* The table covers what it took.
LEMMA TakerCovers ==
  ASSUME NEW R, Kind(R), NEW X, NEW rows, NEW incoming, Table(incoming, R, X),
         NEW m, Took(m, rows, incoming, X)
  PROVE  Covers(m, incoming, X)
<1>1. \A k \in DOMAIN incoming : incoming[k] \in R
  BY Positions DEF Table
<1>2. ASSUME NEW k \in DOMAIN incoming, incoming[k].uuid \notin X,
             NEW i \in DOMAIN m, m[i].uuid = incoming[k].uuid
      PROVE  Behind(incoming[k], m[i])
  <2>1. \/ m[i] = incoming[k]
        \/ m[i] = rows[i] /\ Behind(incoming[k], rows[i])
    BY <1>2 DEF Took
  <2> QED
    BY <1>1, <2>1, KindsAreSame DEF Behind
<1> QED
  BY <1>2 DEF Covers, Took

\* If the other side covered it before, the two now match.
LEMMA TakerMatches ==
  ASSUME NEW R, Kind(R), NEW X, NEW rows, Table(rows, R, X),
         NEW incoming, Table(incoming, R, X),
         NEW m, Took(m, rows, incoming, X), Covers(incoming, rows, X)
  PROVE  Matched(m, incoming, X)
<1>1. /\ \A k \in DOMAIN incoming : incoming[k] \in R
      /\ \A i \in DOMAIN rows : rows[i] \in R
  BY Positions DEF Table
<1>2. ASSUME NEW i \in DOMAIN m, m[i].uuid \notin X
      PROVE  Known(incoming, m[i])
  <2>1. CASE i \in DOMAIN rows
    BY <1>2, <2>1 DEF Took, Covers, Known
  <2>2. CASE i \notin DOMAIN rows
    BY <2>2 DEF Took, Known, WithUuid
  <2> QED
    BY <2>1, <2>2
<1>3. ASSUME NEW i \in DOMAIN m, NEW k \in DOMAIN incoming,
             m[i].uuid = incoming[k].uuid, m[i].uuid \notin X
      PROVE  Same(m[i], incoming[k]) \/ Tied(m[i], incoming[k])
  <2>1. CASE m[i] = incoming[k]
    BY <1>1, <2>1, KindsAreSame
  <2>2. CASE i \in DOMAIN rows /\ m[i] = rows[i] /\ Behind(incoming[k], rows[i])
    <3>1. Behind(rows[i], incoming[k])
      BY <1>3, <2>2 DEF Covers
    <3>2. Same(incoming[k], rows[i]) => Same(rows[i], incoming[k])
      BY <1>1, <2>2, KindsAreSame
    <3> QED
      BY <2>2, <3>1, <3>2 DEF Behind, Tied
  <2> QED
    BY <1>3, <2>1, <2>2 DEF Took
<1> QED
  BY <1>2, <1>3 DEF Matched, Took

\* Matched tables agree on every uuid that was not doubled.
LEMMA MatchedIsAgree ==
  ASSUME NEW mine, NEW theirs, NEW X, Matched(mine, theirs, X), NEW u, u \notin X
  PROVE  /\ WithUuid(mine, u) \cup WithUuid(theirs, u) # {} =>
               WithUuid(mine, u) # {} /\ WithUuid(theirs, u) # {}
         /\ \A i \in WithUuid(mine, u), k \in WithUuid(theirs, u) :
               Same(mine[i], theirs[k]) \/ Tied(mine[i], theirs[k])
BY DEF Matched, Known, WithUuid
-----------------------------------------------------------------------------
(* The cloud's order                                                       *)

TextNewer(x, y) ==
  \/ TextLess(y.updated, x.updated)
  \/ y.updated = x.updated /\ Rank[x.dev] > Rank[y.dev]

\* The cloud holds the row, or one that it does not beat.
HasAsNew(there, row) ==
  \E j \in DOMAIN there : there[j].uuid = row.uuid /\ ~TextNewer(row, there[j])

Timed(R) == \A row \in R : row.updated \in Stamp /\ row.dev \in Dev

\* Rows of one kind have a time.
LEMMA KindsAreTimed ==
  ASSUME NEW R, Kind(R)
  PROVE  Timed(R)
BY DEF Kind, Timed, NoteRow, TodoRow

\* A later instant falls on the same day or a later one.
LEMMA DaysGoOn ==
  ASSUME SyncAssumption, NEW s \in Nat, NEW t \in Nat
  PROVE  /\ s \div DayLength \in Int /\ t \div DayLength \in Int
         /\ s <= t => s \div DayLength <= t \div DayLength
BY DEF SyncAssumption

\* It is a strict order: irreflexive and transitive.
LEMMA TextOrder ==
  ASSUME SyncAssumption, NEW R, Timed(R), NEW x \in R, NEW y \in R, NEW z \in R
  PROVE  /\ ~TextNewer(x, x)
         /\ TextNewer(x, y) /\ TextNewer(y, z) => TextNewer(x, z)
<1> DEFINE day(r) == r.updated.ms \div DayLength
           rank(r) == Rank[r.dev]
<1>1. /\ \A r \in {x, y, z} : /\ r.updated \in Stamp /\ r.dev \in Dev
                               /\ r.updated.ms \in Nat /\ r.updated.iso \in BOOLEAN
      /\ \A r \in {x, y, z} : day(r) \in Int /\ rank(r) \in Nat
  <2>1. \A r \in {x, y, z} : /\ r.updated \in Stamp /\ r.dev \in Dev
                              /\ r.updated.ms \in Nat /\ r.updated.iso \in BOOLEAN
    BY DEF Timed, Stamp
  <2>2. \A r \in {x, y, z} : rank(r) \in Nat
    BY <2>1 DEF SyncAssumption, Dev
  <2>3. \A r \in {x, y, z} : day(r) \in Int
    BY <2>1, DaysGoOn
  <2> QED
    BY <2>1, <2>2, <2>3
<1>2. \A r, s \in {x, y, z} :
         TextNewer(r, s) <=>
            \/ day(s) < day(r)
            \/ day(s) = day(r) /\ ~s.updated.iso /\ r.updated.iso
            \/ /\ day(s) = day(r) /\ s.updated.iso = r.updated.iso
               /\ s.updated.ms < r.updated.ms
            \/ s.updated = r.updated /\ rank(r) > rank(s)
  BY DEF TextNewer, TextLess
<1>3. \A r, s \in {x, y, z} : s.updated = r.updated => day(s) = day(r)
  OBVIOUS
<1> HIDE DEF day, rank
<1> QED
  BY <1>1, <1>2, <1>3

\* Between two texts of one form, it is the order of the times.
LEMMA TextOrderIsTime ==
  ASSUME SyncAssumption, NEW R, Timed(R), NEW x \in R, NEW y \in R,
         x.updated.iso = y.updated.iso, ~TextNewer(x, y)
  PROVE  ~IncomingNewer(x, y)
<1>1. /\ x.updated \in Stamp /\ y.updated \in Stamp
      /\ x.updated.ms \in Nat /\ y.updated.ms \in Nat
  BY DEF Timed, Stamp
<1>2. ASSUME x.updated.ms > y.updated.ms PROVE FALSE
  <2>1. /\ y.updated.ms \div DayLength <= x.updated.ms \div DayLength
        /\ y.updated.ms \div DayLength \in Int /\ x.updated.ms \div DayLength \in Int
    BY <1>1, <1>2, DaysGoOn
  <2>2. TextLess(y.updated, x.updated)
    BY <1>1, <1>2, <2>1 DEF TextLess
  <2> QED
    BY <2>2 DEF TextNewer
<1>3. ASSUME x.updated.ms = y.updated.ms PROVE x.updated = y.updated
  BY <1>1, <1>3 DEF Stamp
<1> QED
  BY <1>1, <1>2, <1>3 DEF IncomingNewer, TextNewer

\* An upsert leaves the cloud with a row as new as the one sent, and forgets none.
LEMMA UpsertHas ==
  ASSUME SyncAssumption, NEW R, Timed(R), NEW there \in Seq(R), NEW row \in R
  PROVE  /\ HasAsNew(Upsert(there, row), row)
         /\ \A r \in R : HasAsNew(there, r) => HasAsNew(Upsert(there, row), r)
<1>1. /\ Len(there) \in Nat /\ DOMAIN there = 1..Len(there)
      /\ \A i \in DOMAIN there : there[i] \in R
  BY Positions
<1>2. ~TextNewer(row, row)
  BY TextOrder
<1>3. CASE ~Known(there, row)
  <2>1. Upsert(there, row) = Append(there, row)
    BY <1>3 DEF Upsert
  <2> DEFINE t == Append(there, row)
  <2>2. /\ DOMAIN t = 1..(Len(there) + 1) /\ t[Len(there) + 1] = row
        /\ \A i \in DOMAIN there : i \in DOMAIN t /\ t[i] = there[i]
        /\ Len(there) + 1 \in DOMAIN t
    BY <1>1
  <2> HIDE DEF t
  <2>3. HasAsNew(t, row) /\ \A r \in R : HasAsNew(there, r) => HasAsNew(t, r)
    BY <1>2, <2>2 DEF HasAsNew
  <2> QED
    BY <2>1, <2>3 DEF t
<1>4. CASE Known(there, row)
  <2> DEFINE t == [i \in DOMAIN there |->
                     IF there[i].uuid = row.uuid /\ TextNewer(row, there[i])
                     THEN row ELSE there[i]]
  <2>1. Upsert(there, row) = t
    BY <1>4 DEF Upsert, TextNewer
  <2>2. /\ DOMAIN t = DOMAIN there
        /\ \A i \in DOMAIN there :
              \/ t[i] = row /\ there[i].uuid = row.uuid /\ TextNewer(row, there[i])
              \/ t[i] = there[i] /\ (there[i].uuid = row.uuid => ~TextNewer(row, there[i]))
    OBVIOUS
  <2> HIDE DEF t
  <2>3. HasAsNew(t, row)
    <3>1. PICK i \in DOMAIN there : there[i].uuid = row.uuid
      BY <1>4 DEF Known, WithUuid
    <3> QED
      BY <1>2, <2>2, <3>1 DEF HasAsNew
  <2>4. ASSUME NEW r \in R, HasAsNew(there, r) PROVE HasAsNew(t, r)
    <3>1. PICK j \in DOMAIN there : there[j].uuid = r.uuid /\ ~TextNewer(r, there[j])
      BY <2>4 DEF HasAsNew
    <3>2. CASE t[j] = there[j]
      BY <2>2, <3>1, <3>2 DEF HasAsNew
    <3>3. CASE t[j] = row /\ there[j].uuid = row.uuid /\ TextNewer(row, there[j])
      <4>1. ~TextNewer(r, row)
        BY <1>1, <3>1, <3>3, TextOrder
      <4> QED
        BY <2>2, <3>1, <3>3, <4>1 DEF HasAsNew
    <3> QED
      BY <2>2, <3>2, <3>3
  <2> QED
    BY <2>1, <2>3, <2>4
<1> QED
  BY <1>3, <1>4

\* The same uuids, and rows of one uuid alike unless they are stamped in two
\* forms.
CloudMatched(mine, there, X) ==
  /\ \A i \in DOMAIN mine : mine[i].uuid \notin X => Known(there, mine[i])
  /\ \A k \in DOMAIN there : there[k].uuid \notin X => Known(mine, there[k])
  /\ \A i \in DOMAIN mine, k \in DOMAIN there :
        mine[i].uuid = there[k].uuid /\ mine[i].uuid \notin X =>
           \/ Same(mine[i], there[k]) \/ Tied(mine[i], there[k])
           \/ mine[i].updated.iso # there[k].updated.iso

\* The elements of s are those of t.
SameRows(s, t) ==
  /\ \A i \in DOMAIN s : \E k \in DOMAIN t : s[i] = t[k]
  /\ \A k \in DOMAIN t : \E i \in DOMAIN s : s[i] = t[k]

\* A device that has pushed all it has, and then takes all that the cloud has.
LEMMA PullMatches ==
  ASSUME SyncAssumption, NEW R, Kind(R), NEW X, NEW rows, Table(rows, R, X),
         NEW there, Table(there, R, {}), NEW incoming, SameRows(incoming, there),
         NEW m, Took(m, rows, incoming, X),
         \A i \in DOMAIN rows : rows[i].uuid \notin X => HasAsNew(there, rows[i])
  PROVE  CloudMatched(m, there, X)
<1>1. /\ \A k \in DOMAIN there : there[k] \in R
      /\ \A i \in DOMAIN rows : rows[i] \in R
  BY Positions DEF Table
<1>2. Timed(R)
  BY KindsAreTimed
<1>3. ASSUME NEW i \in DOMAIN m, m[i].uuid \notin X
      PROVE  Known(there, m[i])
  <2>1. CASE i \in DOMAIN rows
    BY <1>3, <2>1 DEF Took, HasAsNew, Known, WithUuid
  <2>2. CASE i \notin DOMAIN rows
    <3>1. PICK l \in DOMAIN incoming : m[i] = incoming[l]
      BY <2>2 DEF Took
    <3> QED
      BY <3>1 DEF SameRows, Known, WithUuid
  <2> QED
    BY <2>1, <2>2
<1>4. ASSUME NEW k \in DOMAIN there PROVE Known(m, there[k])
  BY DEF Took, SameRows
<1>5. ASSUME NEW i \in DOMAIN m, NEW k \in DOMAIN there,
             m[i].uuid = there[k].uuid, m[i].uuid \notin X,
             m[i].updated.iso = there[k].updated.iso
      PROVE  Same(m[i], there[k]) \/ Tied(m[i], there[k])
  <2>1. PICK l \in DOMAIN incoming : incoming[l] = there[k]
    BY DEF SameRows
  <2>2. CASE m[i] = incoming[l]
    BY <1>1, <2>1, <2>2, KindsAreSame
  <2>3. CASE i \in DOMAIN rows /\ m[i] = rows[i] /\ Behind(incoming[l], rows[i])
    <3>1. PICK j \in DOMAIN there :
             there[j].uuid = rows[i].uuid /\ ~TextNewer(rows[i], there[j])
      BY <1>5, <2>3 DEF HasAsNew
    <3>2. j = k
      BY <1>5, <2>3, <3>1 DEF Table, Keyed
    <3>3. ~IncomingNewer(rows[i], there[k])
      BY <1>1, <1>2, <1>5, <2>3, <3>1, <3>2, TextOrderIsTime
    <3>4. Same(there[k], rows[i]) => Same(rows[i], there[k])
      BY <1>1, <2>3, KindsAreSame
    <3> QED
      BY <2>1, <2>3, <3>3, <3>4 DEF Behind, Tied
  <2> QED
    BY <1>5, <2>1, <2>2, <2>3 DEF Took
<1> QED
  BY <1>3, <1>4, <1>5 DEF CloudMatched

\* Without a checkpoint, everything is pushed or pulled.
LEMMA SinceAll ==
  ASSUME NEW R, NEW rows \in Seq(R)
  PROVE  SameRows(Since(rows, None), rows)
<1> DEFINE t == Since(rows, None)
<1>1. t = Subsequence(rows, DOMAIN rows)
  BY DEF Since
<1> DEFINE K == DOMAIN rows
<1>2. /\ \A k \in DOMAIN t : Nth(K, k) \in K /\ t[k] = rows[Nth(K, k)]
      /\ \A i \in K : \E k \in DOMAIN t : t[k] = rows[i]
  BY <1>1, SubsequenceElements
<1> HIDE DEF t
<1>3. SameRows(t, rows)
  BY <1>2 DEF SameRows
<1> QED
  BY <1>3 DEF t
-----------------------------------------------------------------------------
(* What an exchange knows as long as it is clean.  All of it is said of the *)
(* databases N and T by device, the cloud C and the doubled uuids X.       *)

ShowsNow(snap, p, N, T) ==
  snap.notes.notes = N[p].notes /\ snap.todos.todos = T[p].todos

CoversBoth(d, p, N, T, X) ==
  Covers(N[d].notes, N[p].notes, X) /\ Covers(T[d].todos, T[p].todos, X)

\* Before the merge, d has what the peer has; after it, all of that is in its
\* own tables.
LanClean(x, d, N, T, X) ==
  /\ x.peer \in Device \ {d}
  /\ x.phase = "apply" => ShowsNow(x.snap, x.peer, N, T)
  /\ x.phase = "push" => CoversBoth(d, x.peer, N, T, X)

LanFits(x, d, N, T, X) ==
  x = Idle \/ ("clean" \in DOMAIN x /\ (x.clean => LanClean(x, d, N, T, X)))

\* What is pushed is what the sender has, which covers what the receiver has.
MessageClean(m, N, T, X) ==
  /\ m.to \in Device \ {m.from}
  /\ ShowsNow(m.snap, m.from, N, T)
  /\ CoversBoth(m.from, m.to, N, T, X)

MessageFits(m, N, T, X) ==
  /\ "clean" \in DOMAIN m /\ m.from \in Device
  /\ m.clean => MessageClean(m, N, T, X)

\* The merge of what d fetched in its cycle x.
FetchClean(j, x, d, N, T, X) ==
  /\ x.peer \in Device \ {d}
  /\ j.phase = "notes" => j.index = N[d].notes /\ ShowsNow(j.snap, x.peer, N, T)
  /\ j.phase = "todos" => /\ j.index = T[d].todos
                         /\ j.snap.todos.todos = T[x.peer].todos
                         /\ Covers(N[d].notes, N[x.peer].notes, X)

\* The merge of what was pushed to d.
PushClean(j, d, N, T, X) ==
  /\ j.of \in Device \ {d}
  /\ j.phase = "notes" => /\ j.index = N[d].notes
                         /\ ShowsNow(j.snap, j.of, N, T)
                         /\ CoversBoth(j.of, d, N, T, X)
  /\ j.phase = "todos" => /\ j.index = T[d].todos
                         /\ j.snap.todos.todos = T[j.of].todos
                         /\ Matched(N[d].notes, N[j.of].notes, X)
                         /\ Covers(T[j.of].todos, T[d].todos, X)

JobFits(j, x, d, N, T, X) ==
  \/ j = Idle
  \/ /\ {"clean", "of"} \in SUBSET DOMAIN j
     /\ \/ j.of = "fetch" /\ x.phase = "merge" /\ (j.clean => FetchClean(j, x, d, N, T, X))
        \/ j.of \in Device /\ (j.clean => PushClean(j, d, N, T, X))

\* A cycle without a checkpoint: what is not in the cloud is still to be
\* pushed, then nothing is missing there, then nothing is missing here.
CycleClean(c, mine, there, X) ==
  /\ c.phase = "push" =>
        /\ c.since = None
        /\ \A i \in DOMAIN mine : mine[i].uuid \notin X =>
              HasAsNew(there, mine[i]) \/ \E k \in DOMAIN c.rows : c.rows[k] = mine[i]
  /\ c.phase = "merge" =>
        /\ c.index = mine /\ SameRows(c.rows, there)
        /\ \A i \in DOMAIN mine : mine[i].uuid \notin X => HasAsNew(there, mine[i])
  /\ c.phase = "mark" => CloudMatched(mine, there, X)

TableOf(N, T, d, table) == IF table = "notes" THEN N[d].notes ELSE T[d].todos

CycleFits(c, d, N, T, C, X) ==
  \/ c = Idle
  \/ /\ {"clean", "whole", "bare", "since", "table"} \in SUBSET DOMAIN c
     /\ c.table \in {"notes", "todos"}
     /\ c.clean /\ (c.whole \/ c.bare) =>
          CycleClean(c, TableOf(N, T, d, c.table), C[c.table], X)

CleanInv ==
  /\ \A d \in Device :
        /\ LanFits(lan[d], d, notesDb, todoDb, doubled)
        /\ JobFits(job[d], lan[d], d, notesDb, todoDb, doubled)
        /\ CycleFits(d1[d], d, notesDb, todoDb, cloud, doubled)
  /\ \A m \in net : MessageFits(m, notesDb, todoDb, doubled)

-----------------------------------------------------------------------------
(* What takes nothing from it                                              *)

\* A flag that is not set any more promises nothing.
LEMMA SoiledFits ==
  ASSUME NEW d, NEW N, NEW T, NEW C, NEW X, NEW N2, NEW T2, NEW C2, NEW X2
  PROVE  /\ \A x : LanFits(x, d, N, T, X) => LanFits(Soiled(x), d, N2, T2, X2)
         /\ \A m : MessageFits(m, N, T, X) => MessageFits(Soiled(m), N2, T2, X2)
         /\ \A j, x, y : JobFits(j, x, d, N, T, X) /\ (x.phase = "merge" => y.phase = "merge")
                           => JobFits(Soiled(j), y, d, N2, T2, X2)
         /\ \A c : CycleFits(c, d, N, T, C, X) => CycleFits(Soiled(c), d, N2, T2, C2, X2)
<1>1. ASSUME NEW x, x # Idle, "clean" \in DOMAIN x
      PROVE  /\ DOMAIN Soiled(x) = DOMAIN x /\ Soiled(x).clean = FALSE
             /\ \A f \in DOMAIN x : f # "clean" => Soiled(x)[f] = x[f]
  BY <1>1 DEF Soiled
<1>2. Soiled(Idle) = Idle /\ "clean" \notin DOMAIN Idle
  BY DEF Soiled, Idle
<1>3. \A x : LanFits(x, d, N, T, X) => LanFits(Soiled(x), d, N2, T2, X2)
  BY <1>1, <1>2 DEF LanFits
<1>4. ASSUME NEW m, MessageFits(m, N, T, X) PROVE MessageFits(Soiled(m), N2, T2, X2)
  <2>1. m # Idle /\ "clean" \in DOMAIN m
    BY <1>2, <1>4 DEF MessageFits
  <2>2. Soiled(m).from = m.from
    BY <2>1, <1>4 DEF Soiled
  <2> QED
    BY <1>1, <1>4, <2>1, <2>2 DEF MessageFits
<1>5. ASSUME NEW j, NEW x, NEW y, JobFits(j, x, d, N, T, X),
             x.phase = "merge" => y.phase = "merge"
      PROVE  JobFits(Soiled(j), y, d, N2, T2, X2)
  <2>1. CASE j = Idle
    BY <1>2, <2>1 DEF JobFits
  <2>2. CASE j # Idle
    <3>1. {"clean", "of"} \in SUBSET DOMAIN j
      BY <1>5, <2>2 DEF JobFits
    <3>2. /\ Soiled(j).of = j.of /\ Soiled(j).clean = FALSE
          /\ {"clean", "of"} \in SUBSET DOMAIN Soiled(j)
      BY <2>2, <3>1 DEF Soiled
    <3> QED
      BY <1>5, <2>2, <3>2 DEF JobFits
  <2> QED
    BY <2>1, <2>2
<1>6. \A c : CycleFits(c, d, N, T, C, X) => CycleFits(Soiled(c), d, N2, T2, C2, X2)
  BY <1>1, <1>2 DEF CycleFits
<1> QED
  BY <1>3, <1>4, <1>5, <1>6

\* More doubled uuids ask for less.
LEMMA ExcusesGrow ==
  ASSUME NEW X, NEW X2, X \in SUBSET X2, NEW s, NEW t
  PROVE  /\ Covers(s, t, X) => Covers(s, t, X2)
         /\ Matched(s, t, X) => Matched(s, t, X2)
         /\ CloudMatched(s, t, X) => CloudMatched(s, t, X2)
<1>1. Covers(s, t, X) => Covers(s, t, X2)
  BY DEF Covers
<1>2. Matched(s, t, X) => Matched(s, t, X2)
  BY DEF Matched
<1>3. CloudMatched(s, t, X) => CloudMatched(s, t, X2)
  BY DEF CloudMatched
<1> QED
  BY <1>1, <1>2, <1>3

\* Where the rows of the replicas are the same, the exchanges know the same.
LEMMA FitsKept ==
  ASSUME NEW N, NEW T, NEW X, NEW N2, NEW T2, NEW X2, X \in SUBSET X2,
         \A e \in Device : N2[e].notes = N[e].notes /\ T2[e].todos = T[e].todos,
         NEW d \in Device
  PROVE  /\ \A x : LanFits(x, d, N, T, X) => LanFits(x, d, N2, T2, X2)
         /\ \A m : MessageFits(m, N, T, X) => MessageFits(m, N2, T2, X2)
         /\ \A j, x : JobFits(j, x, d, N, T, X) => JobFits(j, x, d, N2, T2, X2)
<1>1. \A p \in Device, q \in Device :
         CoversBoth(p, q, N, T, X) => CoversBoth(p, q, N2, T2, X2)
  BY ExcusesGrow DEF CoversBoth
<1>2. \A p \in Device : \A snap : ShowsNow(snap, p, N, T) => ShowsNow(snap, p, N2, T2)
  BY DEF ShowsNow
<1>3. \A x : LanFits(x, d, N, T, X) => LanFits(x, d, N2, T2, X2)
  BY <1>1, <1>2 DEF LanFits, LanClean
<1>4. \A m : MessageFits(m, N, T, X) => MessageFits(m, N2, T2, X2)
  BY <1>1, <1>2 DEF MessageFits, MessageClean
<1>5. ASSUME NEW j, NEW x, FetchClean(j, x, d, N, T, X)
      PROVE  FetchClean(j, x, d, N2, T2, X2)
  BY <1>2, <1>5, ExcusesGrow DEF FetchClean
<1>6. ASSUME NEW j, PushClean(j, d, N, T, X)
      PROVE  PushClean(j, d, N2, T2, X2)
  BY <1>1, <1>2, <1>6, ExcusesGrow DEF PushClean
<1>7. \A j, x : JobFits(j, x, d, N, T, X) => JobFits(j, x, d, N2, T2, X2)
  BY <1>5, <1>6 DEF JobFits
<1> QED
  BY <1>3, <1>4, <1>7

\* A clean cycle stays so while the tables stay.
LEMMA CyclesKept ==
  ASSUME NEW N, NEW T, NEW C, NEW X, NEW N2, NEW T2, NEW C2, NEW X2, X \in SUBSET X2,
         NEW d, N2[d].notes = N[d].notes, T2[d].todos = T[d].todos,
         C2.notes = C.notes, C2.todos = C.todos
  PROVE  \A c : CycleFits(c, d, N, T, C, X) => CycleFits(c, d, N2, T2, C2, X2)
<1>1. ASSUME NEW c, NEW mine, NEW there, CycleClean(c, mine, there, X)
      PROVE  CycleClean(c, mine, there, X2)
  BY <1>1, ExcusesGrow DEF CycleClean
<1>2. \A table \in {"notes", "todos"} :
         /\ TableOf(N2, T2, d, table) = TableOf(N, T, d, table)
         /\ C2[table] = C[table]
  BY DEF TableOf
<1> QED
  BY <1>1, <1>2 DEF CycleFits
-----------------------------------------------------------------------------
(* The steps                                                               *)

\* The parts of the invariant that are about one device.
LEMMA CleanParts ==
  ASSUME CleanInv, NEW e \in Device
  PROVE  /\ LanFits(lan[e], e, notesDb, todoDb, doubled)
         /\ JobFits(job[e], lan[e], e, notesDb, todoDb, doubled)
         /\ CycleFits(d1[e], e, notesDb, todoDb, cloud, doubled)
BY DEF CleanInv

\* Somebody else has written: every exchange is soiled, or has ended.
Interferes ==
  /\ \A e \in Device : /\ lan'[e] = Soiled(lan[e]) \/ (lan'[e] = Idle /\ job'[e] = Idle)
                       /\ job'[e] \in {Soiled(job[e]), Idle}
                       /\ d1'[e] \in {Soiled(d1[e]), Idle}
  /\ net' = {Soiled(m) : m \in net}

\* A step that soils every exchange it may disturb keeps the invariant.
LEMMA InterferenceIsClean ==
  ASSUME CleanInv, Interferes
  PROVE  CleanInv'
<1> DEFINE N == notesDb'
           T == todoDb'
           C == cloud'
           X == doubled'
<1>1. ASSUME NEW e \in Device
      PROVE  /\ LanFits(lan'[e], e, N, T, X)
             /\ JobFits(job'[e], lan'[e], e, N, T, X)
             /\ CycleFits(d1'[e], e, N, T, C, X)
  <2>1. /\ LanFits(lan[e], e, notesDb, todoDb, doubled)
        /\ JobFits(job[e], lan[e], e, notesDb, todoDb, doubled)
        /\ CycleFits(d1[e], e, notesDb, todoDb, cloud, doubled)
    BY CleanParts
  <2>2. /\ lan'[e] = Soiled(lan[e]) \/ (lan'[e] = Idle /\ job'[e] = Idle)
        /\ job'[e] \in {Soiled(job[e]), Idle}
        /\ d1'[e] \in {Soiled(d1[e]), Idle}
    BY DEF Interferes
  <2> HIDE DEF N, T, C, X
  <2>3. /\ LanFits(Idle, e, N, T, X) /\ CycleFits(Idle, e, N, T, C, X)
        /\ \A x : JobFits(Idle, x, e, N, T, X)
    BY DEF LanFits, CycleFits, JobFits
  <2>4. LanFits(Soiled(lan[e]), e, N, T, X) /\ CycleFits(Soiled(d1[e]), e, N, T, C, X)
    BY <2>1, SoiledFits
  <2>5. lan[e].phase = "merge" => Soiled(lan[e]).phase = "merge"
    BY DEF Soiled
  <2>6. JobFits(Soiled(job[e]), Soiled(lan[e]), e, N, T, X)
    BY <2>1, <2>5, SoiledFits
  <2> QED
    BY <2>2, <2>3, <2>4, <2>6
<1>2. ASSUME NEW m \in net' PROVE MessageFits(m, N, T, X)
  <2>1. PICK o \in net : m = Soiled(o)
    BY DEF Interferes
  <2>2. MessageFits(o, notesDb, todoDb, doubled)
    BY DEF CleanInv
  <2> HIDE DEF N, T, X
  <2> QED
    BY <2>1, <2>2, SoiledFits
<1> QED
  BY <1>1, <1>2 DEF CleanInv

\* The user's writes, resets and crashes are steps of that kind.
LEMMA OutsidersInterfere ==
  ASSUME SyncInv, NEW d \in Device,
         \/ \E notes, todos, t : UserActs(d, notes, todos, t)
         \/ Reset(d) \/ Crash(d)
  PROVE  Interferes
<1>1. DOMAIN lan = Device /\ DOMAIN job = Device /\ DOMAIN d1 = Device
  BY DEF SyncInv, Shapes
<1>2. CASE \E notes, todos, t : UserActs(d, notes, todos, t)
  BY <1>1, <1>2 DEF UserActs, UserWrites, Interferes, SoiledAll
<1>3. CASE Reset(d)
  <2>1. job[d] = Idle
    BY <1>3 DEF Reset, LockFree
  <2> QED
    BY <1>1, <1>3, <2>1 DEF Reset, Interferes, SoiledAll, Soiled
<1>4. CASE Crash(d)
  BY <1>1, <1>4 DEF Crash, Interferes, SoiledAll
<1> QED
  BY <1>2, <1>3, <1>4

\* A step of a LAN cycle that leaves every row alone.
LanMoves ==
  /\ UNCHANGED <<notesDb, todoDb, d1, doubled>>
  /\ cloud' = cloud
  /\ \A e \in Device : /\ LanFits(lan'[e], e, notesDb, todoDb, doubled)
                       /\ JobFits(job'[e], lan'[e], e, notesDb, todoDb, doubled)
  /\ \A m \in net' : MessageFits(m, notesDb, todoDb, doubled)

\* A step that moves one LAN exchange keeps the invariant.
LEMMA LanMovesAreClean ==
  ASSUME CleanInv, LanMoves
  PROVE  CleanInv'
BY DEF CleanInv, LanMoves

\* A snapshot shows its device's rows when it is taken.
LEMMA SnapshotShows ==
  ASSUME NEW d \in Device
  PROVE  ShowsNow(Snapshot(d), d, notesDb, todoDb)
BY DEF Snapshot, ExportInbox, ExportTodo, ShowsNow

LEMMA FetchIsClean ==
  ASSUME AllStill, CleanInv, NEW d \in Device, NEW p \in Device, FetchSnapshot(d, p)
  PROVE  LanMoves
<1> DEFINE x == [phase |-> "apply", peer |-> p, snap |-> Snapshot(p), clean |-> TRUE]
<1>1. /\ p # d /\ lan[d] = Idle /\ lan' = [lan EXCEPT ![d] = x]
      /\ UNCHANGED <<notesDb, todoDb, net, job, d1, cloud, doubled>>
  BY DEF FetchSnapshot, replicas, history
<1>2. LanFits(x, d, notesDb, todoDb, doubled)
  BY <1>1, SnapshotShows DEF LanFits, LanClean
<1> HIDE DEF x
<1>3. JobFits(job[d], x, d, notesDb, todoDb, doubled)
  <2>1. JobFits(job[d], lan[d], d, notesDb, todoDb, doubled)
    BY CleanParts
  <2> QED
    BY <1>1, <2>1 DEF JobFits, Idle
<1>4. \A e \in Device : /\ LanFits(lan'[e], e, notesDb, todoDb, doubled)
                        /\ JobFits(job'[e], lan'[e], e, notesDb, todoDb, doubled)
  BY <1>1, <1>2, <1>3, CleanParts DEF AllStill
<1> QED
  BY <1>1, <1>4 DEF LanMoves, CleanInv

LEMMA ApplyIsClean ==
  ASSUME AllStill, CleanInv, NEW d \in Device, ApplyFetched(d)
  PROVE  LanMoves
<1> DEFINE x == [phase |-> "merge", peer |-> lan[d].peer, clean |-> lan[d].clean]
           j == [phase |-> "notes", snap |-> lan[d].snap, of |-> "fetch",
                 index |-> notesDb[d].notes, clean |-> lan[d].clean]
<1>1. /\ lan[d].phase = "apply" /\ lan[d] # Idle
      /\ lan' = [lan EXCEPT ![d] = x] /\ job' = [job EXCEPT ![d] = j]
      /\ UNCHANGED <<notesDb, todoDb, net, d1, cloud, doubled>>
  BY DEF ApplyFetched, StartMerge, replicas, history, Idle
<1>2. lan[d].clean => LanClean(lan[d], d, notesDb, todoDb, doubled)
  BY <1>1, CleanParts DEF LanFits
<1>3. LanFits(x, d, notesDb, todoDb, doubled)
  BY <1>2 DEF LanFits, LanClean
<1>4. JobFits(j, x, d, notesDb, todoDb, doubled)
  BY <1>1, <1>2 DEF JobFits, FetchClean, LanClean
<1> HIDE DEF x, j
<1>5. \A e \in Device : /\ LanFits(lan'[e], e, notesDb, todoDb, doubled)
                        /\ JobFits(job'[e], lan'[e], e, notesDb, todoDb, doubled)
  BY <1>1, <1>3, <1>4, CleanParts DEF AllStill
<1> QED
  BY <1>1, <1>5 DEF LanMoves, CleanInv

LEMMA PushIsClean ==
  ASSUME AllStill, CleanInv, NEW d \in Device, PushSnapshot(d)
  PROVE  LanMoves
<1> DEFINE m == [phase |-> "sent", from |-> d, to |-> lan[d].peer,
                 snap |-> Snapshot(d), clean |-> lan[d].clean]
<1>1. /\ lan[d].phase = "push" /\ lan[d] # Idle /\ job[d] = Idle
      /\ lan' = [lan EXCEPT ![d] = Idle] /\ net' = net \cup {m}
      /\ UNCHANGED <<notesDb, todoDb, job, d1, cloud, doubled>>
  BY DEF PushSnapshot, LockFree, replicas, history, Idle
<1>2. lan[d].clean => LanClean(lan[d], d, notesDb, todoDb, doubled)
  BY <1>1, CleanParts DEF LanFits
<1>3. MessageFits(m, notesDb, todoDb, doubled)
  BY <1>1, <1>2, SnapshotShows DEF MessageFits, MessageClean, LanClean
<1>4. \A e \in Device : /\ LanFits(lan'[e], e, notesDb, todoDb, doubled)
                        /\ JobFits(job'[e], lan'[e], e, notesDb, todoDb, doubled)
  BY <1>1, CleanParts DEF AllStill, LanFits, JobFits
<1> HIDE DEF m
<1>5. \A o \in net' : MessageFits(o, notesDb, todoDb, doubled)
  BY <1>1, <1>3 DEF CleanInv
<1> QED
  BY <1>1, <1>4, <1>5 DEF LanMoves

LEMMA PushToIsClean ==
  ASSUME AllStill, CleanInv, NEW d \in Device, NEW p \in Device, PushTo(d, p)
  PROVE  LanMoves
<1> DEFINE m == [phase |-> "sent", from |-> d, to |-> p, snap |-> Snapshot(d),
                 clean |-> FALSE]
<1>1. /\ net' = net \cup {m}
      /\ UNCHANGED <<notesDb, todoDb, lan, job, d1, cloud, doubled>>
  BY DEF PushTo, replicas, history
<1>2. MessageFits(m, notesDb, todoDb, doubled)
  BY DEF MessageFits
<1> HIDE DEF m
<1>3. \A o \in net' : MessageFits(o, notesDb, todoDb, doubled)
  BY <1>1, <1>2 DEF CleanInv
<1> QED
  BY <1>1, <1>3 DEF LanMoves, CleanInv

LEMMA ReceiveIsClean ==
  ASSUME AllStill, CleanInv, NEW d \in Device, ReceivePush(d)
  PROVE  LanMoves
<1>1. PICK m \in net : m.to = d /\ LockFree(d) /\ StartMerge(d, m.snap, m.from, m.clean)
                      /\ net' = net \ {m}
                      /\ UNCHANGED <<clock, replicas, lan, d1, cloud, budget, history>>
  BY DEF ReceivePush
<1> DEFINE j == [phase |-> "notes", snap |-> m.snap, of |-> m.from,
                 index |-> notesDb[d].notes, clean |-> m.clean]
<1>2. /\ job' = [job EXCEPT ![d] = j]
      /\ UNCHANGED <<notesDb, todoDb, lan, d1, cloud, doubled>>
  BY <1>1 DEF StartMerge, replicas, history
<1>3. MessageFits(m, notesDb, todoDb, doubled)
  BY DEF CleanInv
<1>4. JobFits(j, lan[d], d, notesDb, todoDb, doubled)
  BY <1>1, <1>3 DEF MessageFits, MessageClean, JobFits, PushClean
<1> HIDE DEF j
<1>5. \A e \in Device : /\ LanFits(lan'[e], e, notesDb, todoDb, doubled)
                        /\ JobFits(job'[e], lan'[e], e, notesDb, todoDb, doubled)
  BY <1>2, <1>4, CleanParts DEF AllStill
<1> QED
  BY <1>1, <1>2, <1>5 DEF LanMoves, CleanInv

LEMMA LanFailureIsClean ==
  ASSUME AllStill, CleanInv, NEW d \in Device, LanFails(d)
  PROVE  LanMoves
<1>1. /\ \/ lan[d].phase \in {"apply", "push"} /\ lan' = [lan EXCEPT ![d] = Idle]
         \/ lan' = lan
      /\ net' \in SUBSET net
      /\ UNCHANGED <<notesDb, todoDb, job, d1, cloud, doubled>>
  BY DEF LanFails, replicas, history
<1>2. ASSUME lan[d].phase \in {"apply", "push"}
      PROVE  JobFits(job[d], Idle, d, notesDb, todoDb, doubled)
  BY <1>2, CleanParts DEF JobFits
<1>3. \A e \in Device : /\ LanFits(lan'[e], e, notesDb, todoDb, doubled)
                        /\ JobFits(job'[e], lan'[e], e, notesDb, todoDb, doubled)
  BY <1>1, <1>2, CleanParts DEF AllStill, LanFits
<1> QED
  BY <1>1, <1>3 DEF LanMoves, CleanInv
\* The rows of both kinds, and what a clean merge makes of them.
LEMMA KindsOfRows ==
  Kind(NotesOf(used, written)) /\ Kind(TodosOf(used))
BY DEF Kind, NotesOf, TodosOf

\* The rows of every replica are tables.
LEMMA ReplicasAreTables ==
  ASSUME SyncInv, NEW d \in Device
  PROVE  /\ Table(notesDb[d].notes, NotesOf(used, written), doubled)
         /\ Table(todoDb[d].todos, TodosOf(used), doubled)
BY DEF SyncInv, ReplicasOK, NotesOK, TodosOK

\* So after a merge the rows cover the incoming ones, and match them if those
\* covered the old.
LEMMA NotesTake ==
  ASSUME SyncInv, NEW d \in Device, NEW p \in Device,
         NEW m, m = Merged(notesDb[d].notes, notesDb[d].notes, notesDb[p].notes)
  PROVE  /\ Covers(m, notesDb[p].notes, doubled)
         /\ Covers(notesDb[p].notes, notesDb[d].notes, doubled)
               => Matched(m, notesDb[p].notes, doubled)
<1> DEFINE R == NotesOf(used, written)
           rows == notesDb[d].notes
           incoming == notesDb[p].notes
<1>1. Kind(R) /\ Table(rows, R, doubled) /\ Table(incoming, R, doubled)
  BY KindsOfRows, ReplicasAreTables
<1> HIDE DEF R, rows, incoming
<1>2. Took(m, rows, incoming, doubled)
  BY <1>1, MergeTakes DEF rows, incoming
<1>3. /\ Covers(m, incoming, doubled)
      /\ Covers(incoming, rows, doubled) => Matched(m, incoming, doubled)
  BY <1>1, <1>2, TakerCovers, TakerMatches
<1> QED
  BY <1>3 DEF rows, incoming

LEMMA TodosTake ==
  ASSUME SyncInv, NEW d \in Device, NEW p \in Device,
         NEW m, m = Merged(todoDb[d].todos, todoDb[d].todos, todoDb[p].todos)
  PROVE  /\ Covers(m, todoDb[p].todos, doubled)
         /\ Covers(todoDb[p].todos, todoDb[d].todos, doubled)
               => Matched(m, todoDb[p].todos, doubled)
<1> DEFINE R == TodosOf(used)
           rows == todoDb[d].todos
           incoming == todoDb[p].todos
<1>1. Kind(R) /\ Table(rows, R, doubled) /\ Table(incoming, R, doubled)
  BY KindsOfRows, ReplicasAreTables
<1> HIDE DEF R, rows, incoming
<1>2. Took(m, rows, incoming, doubled)
  BY <1>1, MergeTakes DEF rows, incoming
<1>3. /\ Covers(m, incoming, doubled)
      /\ Covers(incoming, rows, doubled) => Matched(m, incoming, doubled)
  BY <1>1, <1>2, TakerCovers, TakerMatches
<1> QED
  BY <1>3 DEF rows, incoming

\* A merge into d moves one job and one cycle.  It soils every other exchange if
\* it changes a row; if not, the others know what they knew.
MergeMoves(d) ==
  /\ doubled \in SUBSET doubled'
  /\ cloud' = cloud
  /\ DOMAIN d1' = Device
  /\ LanFits(lan'[d], d, notesDb', todoDb', doubled')
  /\ JobFits(job'[d], lan'[d], d, notesDb', todoDb', doubled')
  /\ \/ /\ \A e \in Device : e # d => lan'[e] = Soiled(lan[e]) /\ job'[e] = Soiled(job[e])
        /\ \A e \in Device : d1'[e] = Soiled(d1[e])
        /\ net' = {Soiled(m) : m \in net}
     \/ /\ \A e \in Device : /\ notesDb'[e].notes = notesDb[e].notes
                             /\ todoDb'[e].todos = todoDb[e].todos
        /\ \A e \in Device : e # d => lan'[e] = lan[e] /\ job'[e] = job[e]
        /\ d1' = d1
        /\ net' = net

\* A merge that leaves its own exchange true to its flag keeps the invariant.
LEMMA MergeMovesAreClean ==
  ASSUME CleanInv, NEW d \in Device, MergeMoves(d)
  PROVE  CleanInv'
<1> DEFINE N == notesDb'
           T == todoDb'
           C == cloud'
           X == doubled'
<1>1. /\ doubled \in SUBSET X /\ C = cloud
      /\ LanFits(lan'[d], d, N, T, X) /\ JobFits(job'[d], lan'[d], d, N, T, X)
  BY DEF MergeMoves
<1>2. CASE /\ \A e \in Device : e # d => /\ lan'[e] = Soiled(lan[e])
                                         /\ job'[e] = Soiled(job[e])
           /\ \A e \in Device : d1'[e] = Soiled(d1[e])
           /\ net' = {Soiled(m) : m \in net}
  <2> HIDE DEF N, T, C, X
  <2>1. ASSUME NEW e \in Device, e # d
        PROVE  LanFits(lan'[e], e, N, T, X) /\ JobFits(job'[e], lan'[e], e, N, T, X)
    <3>1. lan[e].phase = "merge" => Soiled(lan[e]).phase = "merge"
      BY DEF Soiled
    <3>2. /\ LanFits(lan[e], e, notesDb, todoDb, doubled)
          /\ JobFits(job[e], lan[e], e, notesDb, todoDb, doubled)
      BY CleanParts
    <3>3. LanFits(Soiled(lan[e]), e, N, T, X)
      BY <3>2, SoiledFits
    <3>4. JobFits(Soiled(job[e]), Soiled(lan[e]), e, N, T, X)
      BY <3>1, <3>2, SoiledFits
    <3> QED
      BY <1>2, <2>1, <3>3, <3>4
  <2>2. ASSUME NEW e \in Device PROVE CycleFits(d1'[e], e, N, T, C, X)
    <3>1. CycleFits(d1[e], e, notesDb, todoDb, cloud, doubled)
      BY CleanParts
    <3>2. CycleFits(Soiled(d1[e]), e, N, T, C, X)
      BY <3>1, SoiledFits
    <3> QED
      BY <1>2, <3>2
  <2>3. ASSUME NEW m \in net' PROVE MessageFits(m, N, T, X)
    <3>1. PICK o \in net : m = Soiled(o)
      BY <1>2
    <3>2. MessageFits(o, notesDb, todoDb, doubled)
      BY DEF CleanInv
    <3> QED
      BY <3>1, <3>2, SoiledFits
  <2> QED
    BY <1>1, <2>1, <2>2, <2>3 DEF CleanInv, N, T, C, X
<1>3. CASE /\ \A e \in Device : /\ notesDb'[e].notes = notesDb[e].notes
                                /\ todoDb'[e].todos = todoDb[e].todos
           /\ \A e \in Device : e # d => lan'[e] = lan[e] /\ job'[e] = job[e]
           /\ d1' = d1
           /\ net' = net
  <2>1. \A e \in Device : N[e].notes = notesDb[e].notes /\ T[e].todos = todoDb[e].todos
    BY <1>3
  <2> HIDE DEF N, T, C, X
  <2>2. ASSUME NEW e \in Device, e # d
        PROVE  LanFits(lan'[e], e, N, T, X) /\ JobFits(job'[e], lan'[e], e, N, T, X)
    <3>1. /\ LanFits(lan[e], e, notesDb, todoDb, doubled)
          /\ JobFits(job[e], lan[e], e, notesDb, todoDb, doubled)
      BY CleanParts
    <3>2. LanFits(lan[e], e, N, T, X) /\ JobFits(job[e], lan[e], e, N, T, X)
      BY <1>1, <2>1, <3>1, FitsKept
    <3> QED
      BY <1>3, <2>2, <3>2
  <2>3. ASSUME NEW e \in Device PROVE CycleFits(d1'[e], e, N, T, C, X)
    <3>1. CycleFits(d1[e], e, notesDb, todoDb, cloud, doubled)
      BY CleanParts
    <3>2. CycleFits(d1[e], e, N, T, C, X)
      BY <1>1, <2>1, <3>1, CyclesKept
    <3> QED
      BY <1>3, <3>2
  <2>4. ASSUME NEW m \in net' PROVE MessageFits(m, N, T, X)
    <3>1. MessageFits(m, notesDb, todoDb, doubled)
      BY <1>3 DEF CleanInv
    <3> QED
      BY <1>1, <2>1, <3>1, FitsKept
  <2> QED
    BY <1>1, <2>2, <2>3, <2>4 DEF CleanInv, N, T, C, X
<1> QED
  BY <1>2, <1>3 DEF MergeMoves

\* What a job that runs knows.
LEMMA JobKnows ==
  ASSUME CleanInv, NEW d \in Device, job[d].phase \in {"notes", "todos"}
  PROVE  /\ {"clean", "of"} \in SUBSET DOMAIN job[d]
         /\ \/ /\ job[d].of = "fetch" /\ lan[d].phase = "merge"
               /\ job[d].clean => FetchClean(job[d], lan[d], d, notesDb, todoDb, doubled)
            \/ /\ job[d].of \in Device
               /\ job[d].clean => PushClean(job[d], d, notesDb, todoDb, doubled)
<1>1. job[d] # Idle
  BY DEF Idle
<1> QED
  BY <1>1, CleanParts DEF JobFits

LEMMA MergeNotesMoves ==
  ASSUME SyncAssumption, SyncInv, CleanInv, NEW d \in Device, MergeNotes(d)
  PROVE  MergeMoves(d)
<1> DEFINE j == job[d]
           new == ImportInbox(notesDb[d], j.index, j.snap.notes)
           soil == new.notes # notesDb[d].notes
           next == [j EXCEPT !.phase = "todos", !.index = todoDb[d].todos]
           N == notesDb'
           X == doubled'
<1>1. /\ j.phase = "notes"
      /\ notesDb' = [notesDb EXCEPT ![d] = new]
      /\ job' = [e \in Device |-> IF e = d THEN next
                                  ELSE IF soil THEN Soiled(job[e]) ELSE job[e]]
      /\ lan' = [e \in Device |->
                    IF soil /\ ~(e = d /\ j.of = "fetch") THEN Soiled(lan[e]) ELSE lan[e]]
      /\ net' = IF soil THEN {Soiled(m) : m \in net} ELSE net
      /\ d1' = IF soil THEN SoiledAll(d1) ELSE d1
      /\ UNCHANGED <<todoDb, cloud>>
      /\ doubled \in SUBSET X
  BY DEF MergeNotes
<1>2. /\ DOMAIN notesDb = Device /\ DOMAIN d1 = Device /\ NotesDbOK(notesDb[d])
  BY DEF SyncInv, Shapes, ReplicasOK, NotesOK
<1>3. j # Idle /\ {"phase", "snap", "index"} \in SUBSET DOMAIN j
  BY <1>1, JobHolds
<1>4. new.notes = Merged(notesDb[d].notes, j.index, j.snap.notes.notes)
  BY <1>2 DEF ImportInbox, NotesDbOK
<1>5. /\ {"clean", "of"} \in SUBSET DOMAIN j
      /\ \/ /\ j.of = "fetch" /\ lan[d].phase = "merge"
            /\ j.clean => FetchClean(j, lan[d], d, notesDb, todoDb, doubled)
         \/ /\ j.of \in Device
            /\ j.clean => PushClean(j, d, notesDb, todoDb, doubled)
  BY <1>1, JobKnows
<1>6. /\ next.phase = "todos" /\ next.index = todoDb[d].todos /\ DOMAIN next = DOMAIN j
      /\ next.snap = j.snap /\ next.of = j.of /\ next.clean = j.clean
  BY <1>3, <1>5
<1> HIDE DEF next
<1>7. /\ \A e \in Device : e # d => N[e] = notesDb[e]
      /\ N[d].notes = Merged(notesDb[d].notes, j.index, j.snap.notes.notes)
      /\ N[d].notes = new.notes
      /\ lan'[d] = (IF soil /\ j.of # "fetch" THEN Soiled(lan[d]) ELSE lan[d])
      /\ job'[d] = next /\ todoDb' = todoDb
  BY <1>1, <1>2, <1>4
<1> HIDE DEF j, new, N, X
<1>8. ASSUME ~soil, NEW e \in Device
      PROVE  N[e].notes = notesDb[e].notes /\ todoDb'[e].todos = todoDb[e].todos
  BY <1>7, <1>8
<1> HIDE DEF soil
<1>9. LanFits(lan'[d], d, N, todoDb', X)
  <2>1. LanFits(lan[d], d, notesDb, todoDb, doubled)
    BY CleanParts
  <2>2. CASE j.of = "fetch"
    <3>1. lan[d].phase = "merge" /\ lan'[d] = lan[d]
      BY <1>5, <1>7, <2>2, SyncAssumption DEF SyncAssumption
    <3> QED
      BY <2>1, <3>1 DEF LanFits, LanClean
  <2>3. CASE j.of # "fetch" /\ soil
    BY <1>7, <2>1, <2>3, SoiledFits
  <2>4. CASE ~soil
    BY <1>1, <1>7, <1>8, <2>1, <2>4, FitsKept
  <2> QED
    BY <2>2, <2>3, <2>4
<1>10. ASSUME NEW p \in Device \ {d}, j.index = notesDb[d].notes,
              ShowsNow(j.snap, p, notesDb, todoDb)
       PROVE  /\ j.snap.todos.todos = todoDb'[p].todos
              /\ Covers(N[d].notes, N[p].notes, X)
              /\ Covers(notesDb[p].notes, notesDb[d].notes, doubled)
                    => Matched(N[d].notes, N[p].notes, X)
  <2>1. N[d].notes = Merged(notesDb[d].notes, notesDb[d].notes, notesDb[p].notes)
    BY <1>7, <1>10 DEF ShowsNow
  <2>2. /\ Covers(N[d].notes, notesDb[p].notes, doubled)
        /\ Covers(notesDb[p].notes, notesDb[d].notes, doubled)
              => Matched(N[d].notes, notesDb[p].notes, doubled)
    BY <2>1, NotesTake
  <2>3. N[p] = notesDb[p]
    BY <1>7
  <2> QED
    BY <1>1, <1>7, <1>10, <2>2, <2>3, ExcusesGrow DEF ShowsNow
<1>11. JobFits(next, lan'[d], d, N, todoDb', X)
  <2>1. CASE j.of = "fetch"
    <3>1. /\ lan[d].phase = "merge" /\ lan'[d] = lan[d]
          /\ j.clean => FetchClean(j, lan[d], d, notesDb, todoDb, doubled)
      BY <1>5, <1>7, <2>1, SyncAssumption DEF SyncAssumption
    <3>2. ASSUME j.clean PROVE FetchClean(next, lan[d], d, N, todoDb', X)
      <4>1. /\ lan[d].peer \in Device \ {d} /\ j.index = notesDb[d].notes
            /\ ShowsNow(j.snap, lan[d].peer, notesDb, todoDb)
        BY <1>1, <3>1, <3>2 DEF FetchClean
      <4>2. /\ j.snap.todos.todos = todoDb'[lan[d].peer].todos
            /\ Covers(N[d].notes, N[lan[d].peer].notes, X)
        BY <1>10, <4>1
      <4> QED
        BY <1>6, <1>7, <4>1, <4>2 DEF FetchClean
    <3> QED
      BY <1>5, <1>6, <2>1, <3>1, <3>2 DEF JobFits
  <2>2. CASE j.of # "fetch"
    <3>1. j.of \in Device /\ (j.clean => PushClean(j, d, notesDb, todoDb, doubled))
      BY <1>5, <2>2
    <3>2. ASSUME j.clean PROVE PushClean(next, d, N, todoDb', X)
      <4>1. /\ j.of \in Device \ {d} /\ j.index = notesDb[d].notes
            /\ ShowsNow(j.snap, j.of, notesDb, todoDb)
            /\ CoversBoth(j.of, d, notesDb, todoDb, doubled)
        BY <1>1, <3>1, <3>2 DEF PushClean
      <4>2. /\ j.snap.todos.todos = todoDb'[j.of].todos
            /\ Matched(N[d].notes, N[j.of].notes, X)
        BY <1>10, <4>1 DEF CoversBoth
      <4>3. Covers(todoDb'[j.of].todos, todoDb'[d].todos, X)
        BY <1>1, <1>7, <4>1, ExcusesGrow DEF CoversBoth
      <4> QED
        BY <1>6, <1>7, <4>1, <4>2, <4>3 DEF PushClean
    <3> QED
      BY <1>5, <1>6, <3>1, <3>2 DEF JobFits
  <2> QED
    BY <2>1, <2>2
<1>12. CASE soil
  <2>1. /\ \A e \in Device : e # d => lan'[e] = Soiled(lan[e]) /\ job'[e] = Soiled(job[e])
        /\ \A e \in Device : d1'[e] = Soiled(d1[e])
        /\ net' = {Soiled(m) : m \in net} /\ DOMAIN d1' = Device
    BY <1>1, <1>12 DEF SoiledAll
  <2> QED
    BY <1>1, <1>7, <1>9, <1>11, <2>1 DEF MergeMoves, N, X
<1>13. CASE ~soil
  <2>1. /\ \A e \in Device : e # d => lan'[e] = lan[e] /\ job'[e] = job[e]
        /\ d1' = d1 /\ net' = net /\ DOMAIN d1' = Device
    BY <1>1, <1>2, <1>13
  <2>2. \A e \in Device : /\ notesDb'[e].notes = notesDb[e].notes
                          /\ todoDb'[e].todos = todoDb[e].todos
    BY <1>8, <1>13 DEF N
  <2> QED
    BY <1>1, <1>7, <1>9, <1>11, <2>1, <2>2 DEF MergeMoves, N, X
<1> QED
  BY <1>12, <1>13

\* What a clean merge of p's todos makes of d's.
LEMMA TodosMerged ==
  ASSUME SyncInv, NEW d \in Device, MergeTodos(d), NEW p \in Device \ {d},
         job[d].index = todoDb[d].todos, job[d].snap.todos.todos = todoDb[p].todos
  PROVE  /\ todoDb'[p] = todoDb[p]
         /\ Covers(todoDb'[d].todos, todoDb[p].todos, doubled)
         /\ Covers(todoDb[p].todos, todoDb[d].todos, doubled)
               => Matched(todoDb'[d].todos, todoDb[p].todos, doubled)
<1> DEFINE new == ImportTodo(todoDb[d], job[d].index, job[d].snap.todos)
<1>1. todoDb' = [todoDb EXCEPT ![d] = new]
  BY DEF MergeTodos
<1>2. DOMAIN todoDb = Device /\ TodoDbOK(todoDb[d])
  BY DEF SyncInv, Shapes, ReplicasOK, TodosOK
<1>3. new.todos = Merged(todoDb[d].todos, todoDb[d].todos, todoDb[p].todos)
  BY <1>2 DEF ImportTodo, TodoDbOK
<1> HIDE DEF new
<1>4. todoDb'[p] = todoDb[p] /\ todoDb'[d] = new
  BY <1>1, <1>2
<1>5. /\ Covers(new.todos, todoDb[p].todos, doubled)
      /\ Covers(todoDb[p].todos, todoDb[d].todos, doubled)
            => Matched(new.todos, todoDb[p].todos, doubled)
  BY <1>3, TodosTake
<1> QED
  BY <1>4, <1>5

LEMMA MergeTodosMoves ==
  ASSUME SyncAssumption, SyncInv, CleanInv, NEW d \in Device, MergeTodos(d)
  PROVE  MergeMoves(d)
<1> DEFINE j == job[d]
           new == ImportTodo(todoDb[d], j.index, j.snap.todos)
           soil == new.todos # todoDb[d].todos
           x == [phase |-> "push", peer |-> lan[d].peer, clean |-> j.clean]
           T == todoDb'
           X == doubled'
<1>1. /\ j.phase = "todos"
      /\ T = [todoDb EXCEPT ![d] = new]
      /\ job' = [e \in Device |-> IF e = d THEN Idle
                                  ELSE IF soil THEN Soiled(job[e]) ELSE job[e]]
      /\ lan' = [e \in Device |-> IF e = d /\ j.of = "fetch" THEN x
                                  ELSE IF soil THEN Soiled(lan[e]) ELSE lan[e]]
      /\ net' = IF soil THEN {Soiled(m) : m \in net} ELSE net
      /\ d1' = IF soil THEN SoiledAll(d1) ELSE d1
      /\ UNCHANGED <<notesDb, cloud>>
      /\ doubled \in SUBSET X
  BY DEF MergeTodos
<1>2. DOMAIN todoDb = Device /\ DOMAIN d1 = Device
  BY DEF SyncInv, Shapes
<1>3. /\ {"clean", "of"} \in SUBSET DOMAIN j
      /\ \/ /\ j.of = "fetch" /\ lan[d].phase = "merge"
            /\ j.clean => FetchClean(j, lan[d], d, notesDb, todoDb, doubled)
         \/ /\ j.of \in Device
            /\ j.clean => PushClean(j, d, notesDb, todoDb, doubled)
  BY <1>1, JobKnows
<1>4. /\ \A e \in Device : e # d => T[e] = todoDb[e]
      /\ T[d].todos = new.todos
      /\ lan'[d] = (IF j.of = "fetch" THEN x
                    ELSE IF soil THEN Soiled(lan[d]) ELSE lan[d])
      /\ job'[d] = Idle /\ notesDb' = notesDb
  BY <1>1, <1>2
<1>5. LanFits(x, d, notesDb', T, X) \/ j.of # "fetch"
  <2>1. SUFFICES ASSUME j.of = "fetch", j.clean
                 PROVE  LanClean(x, d, notesDb', T, X)
    BY DEF LanFits
  <2>2. FetchClean(j, lan[d], d, notesDb, todoDb, doubled)
    BY <1>3, <2>1, SyncAssumption DEF SyncAssumption
  <2> DEFINE p == lan[d].peer
  <2>3. /\ p \in Device \ {d} /\ j.index = todoDb[d].todos
        /\ j.snap.todos.todos = todoDb[p].todos
        /\ Covers(notesDb[d].notes, notesDb[p].notes, doubled)
    BY <1>1, <2>2 DEF FetchClean
  <2>4. /\ x.peer = p /\ x.phase = "push"
    OBVIOUS
  <2> HIDE DEF p, x, new
  <2>5. Covers(T[d].todos, T[p].todos, doubled)
    BY <2>3, TodosMerged
  <2>6. CoversBoth(d, p, notesDb', T, X)
    BY <1>1, <1>4, <2>3, <2>5, ExcusesGrow DEF CoversBoth
  <2> QED
    BY <2>3, <2>4, <2>6 DEF LanClean
<1> HIDE DEF j, new, T, X, x
<1>6. ASSUME ~soil, NEW e \in Device
      PROVE  notesDb'[e].notes = notesDb[e].notes /\ T[e].todos = todoDb[e].todos
  BY <1>4, <1>6
<1> HIDE DEF soil
<1>7. LanFits(lan'[d], d, notesDb', T, X)
  <2>1. LanFits(lan[d], d, notesDb, todoDb, doubled)
    BY CleanParts
  <2>2. CASE j.of = "fetch"
    BY <1>4, <1>5, <2>2
  <2>3. CASE j.of # "fetch" /\ soil
    BY <1>4, <2>1, <2>3, SoiledFits
  <2>4. CASE j.of # "fetch" /\ ~soil
    <3>1. lan'[d] = lan[d]
      BY <1>4, <2>4
    <3>2. \A e \in Device : /\ notesDb'[e].notes = notesDb[e].notes
                            /\ T[e].todos = todoDb[e].todos
      BY <1>6, <2>4
    <3>3. LanFits(lan[d], d, notesDb', T, X)
      BY <1>1, <2>1, <3>2, FitsKept
    <3> QED
      BY <3>1, <3>3
  <2> QED
    BY <2>2, <2>3, <2>4
<1>8. JobFits(job'[d], lan'[d], d, notesDb', T, X)
  BY <1>4 DEF JobFits
<1>9. CASE soil
  <2>1. /\ \A e \in Device : e # d => lan'[e] = Soiled(lan[e]) /\ job'[e] = Soiled(job[e])
        /\ \A e \in Device : d1'[e] = Soiled(d1[e])
        /\ net' = {Soiled(m) : m \in net} /\ DOMAIN d1' = Device
    BY <1>1, <1>9 DEF SoiledAll
  <2> QED
    BY <1>1, <1>7, <1>8, <2>1 DEF MergeMoves, T, X
<1>10. CASE ~soil
  <2>1. /\ \A e \in Device : e # d => lan'[e] = lan[e] /\ job'[e] = job[e]
        /\ d1' = d1 /\ net' = net /\ DOMAIN d1' = Device
    BY <1>1, <1>2, <1>10
  <2>2. \A e \in Device : /\ notesDb'[e].notes = notesDb[e].notes
                          /\ todoDb'[e].todos = todoDb[e].todos
    BY <1>6, <1>10 DEF T
  <2> QED
    BY <1>1, <1>7, <1>8, <2>1, <2>2 DEF MergeMoves, T, X
<1> QED
  BY <1>9, <1>10

-----------------------------------------------------------------------------
(* Cloud cycles                                                            *)

\* A step of d's cycle, which leaves every replica and every other exchange
\* alone; the cycles of others are soiled if it changes the cloud.
CycleMoves(d) ==
  /\ UNCHANGED <<notesDb, todoDb, lan, net, job, doubled>>
  /\ CycleFits(d1'[d], d, notesDb, todoDb, cloud', doubled)
  /\ \/ \A e \in Device : e # d => d1'[e] = Soiled(d1[e])
     \/ /\ cloud'.notes = cloud.notes /\ cloud'.todos = cloud.todos
        /\ \A e \in Device : e # d => d1'[e] \in {d1[e], Soiled(d1[e])}

\* A step that moves one cloud cycle keeps the invariant.
LEMMA CycleMovesAreClean ==
  ASSUME CleanInv, NEW d \in Device, CycleMoves(d)
  PROVE  CleanInv'
<1> DEFINE C == cloud'
<1>1. UNCHANGED <<notesDb, todoDb, lan, net, job, doubled>>
  BY DEF CycleMoves
<1>2. ASSUME NEW e \in Device
      PROVE  CycleFits(d1'[e], e, notesDb, todoDb, C, doubled)
  <2>1. CycleFits(d1[e], e, notesDb, todoDb, cloud, doubled)
    BY CleanParts
  <2>2. CASE e = d
    BY <2>2 DEF CycleMoves
  <2>3. CASE e # d /\ d1'[e] = Soiled(d1[e])
    <3> HIDE DEF C
    <3> QED
      BY <2>1, <2>3, SoiledFits
  <2>4. CASE e # d /\ d1'[e] # Soiled(d1[e])
    <3>1. C.notes = cloud.notes /\ C.todos = cloud.todos /\ d1'[e] = d1[e]
      BY <2>4 DEF CycleMoves
    <3> HIDE DEF C
    <3> QED
      BY <2>1, <3>1, CyclesKept
  <2> QED
    BY <2>2, <2>3, <2>4
<1> QED
  BY <1>1, <1>2 DEF CleanInv

\* A cycle that begins with a table has all of its rows to push.
LEMMA BeginFits ==
  ASSUME SyncInv, NEW d \in Device, NEW table \in {"notes", "todos"},
         NEW whole, NEW locked, NEW seen, NEW clean, NEW C, NEW X
  PROVE  CycleFits(BeginTable(d, table, whole, locked, seen, clean), d,
                   notesDb, todoDb, C, X)
<1> DEFINE rows == RowsOf(d, table)
           since == IF whole \/ ShouldFullPull(rows, seen[d, table]) THEN None
                    ELSE seen[d, table]
           c == BeginTable(d, table, whole, locked, seen, clean)
<1>1. /\ DOMAIN c = {"phase", "table", "whole", "locked", "since", "rows", "index",
                     "bare", "clean"}
      /\ c.phase = "push" /\ c.table = table /\ c.whole = whole /\ c.since = since
      /\ c.rows = Since(rows, since) /\ c.bare = (rows = <<>>) /\ c.clean = clean
  BY DEF BeginTable
<1>2. whole \/ rows = <<>> => since = None
  BY DEF ShouldFullPull
<1>3. rows = TableOf(notesDb, todoDb, d, table)
  BY DEF RowsOf, TableOf
<1>4. \E R : rows \in Seq(R)
  BY <1>3, ReplicasAreTables DEF TableOf, Table
<1> HIDE DEF rows, since, c
<1>5. ASSUME c.whole \/ c.bare
      PROVE  CycleClean(c, rows, C[table], X)
  <2>1. c.since = None /\ c.rows = Since(rows, None)
    BY <1>1, <1>2, <1>5
  <2>2. SameRows(Since(rows, None), rows)
    BY <1>4, SinceAll
  <2> QED
    BY <1>1, <2>1, <2>2 DEF CycleClean, SameRows
<1>6. CycleFits(c, d, notesDb, todoDb, C, X)
  BY <1>1, <1>3, <1>5 DEF CycleFits
<1> QED
  BY <1>6 DEF c

\* The steps that move checkpoints, begin or end.
LEMMA CycleBoundsMove ==
  ASSUME SyncInv, CleanInv, NEW d \in Device,
         \/ D1SyncNow(d) \/ D1FullSync(d) \/ BackgroundSync(d)
         \/ ClearCheckpoint(d) \/ CloudMark(d) \/ CloudFails(d)
  PROVE  CycleMoves(d)
<1>1. DOMAIN d1 = Device /\ DOMAIN cloud = {"notes", "todos", "seen"}
  BY DEF SyncInv, Shapes
<1>2. ASSUME NEW seen, cloud' = [cloud EXCEPT !.seen = seen]
      PROVE  cloud'.notes = cloud.notes /\ cloud'.todos = cloud.todos
  BY <1>1, <1>2
<1>3. CASE D1SyncNow(d) \/ D1FullSync(d) \/ BackgroundSync(d)
  <2>1. PICK whole, locked : CloudStart(d, whole, locked)
    BY <1>3 DEF D1SyncNow, D1FullSync, BackgroundSync
  <2>2. PICK seen : /\ cloud' = [cloud EXCEPT !.seen = seen]
                    /\ d1' = [d1 EXCEPT ![d] = BeginTable(d, "notes", whole, locked,
                                                          seen, TRUE)]
                    /\ UNCHANGED <<clock, replicas, lan, net, job, history>>
    BY <2>1 DEF CloudStart
  <2> DEFINE c == BeginTable(d, "notes", whole, locked, seen, TRUE)
             C == cloud'
  <2>3. CycleFits(c, d, notesDb, todoDb, C, doubled)
    <3> HIDE DEF C
    <3> QED
      BY BeginFits
  <2>4. d1' = [d1 EXCEPT ![d] = c]
    BY <2>2
  <2> HIDE DEF c
  <2> QED
    BY <1>1, <1>2, <2>2, <2>3, <2>4 DEF CycleMoves, replicas, history
<1>4. CASE ClearCheckpoint(d)
  <2>1. /\ cloud' = [cloud EXCEPT !.seen = Forgotten(@, d)] /\ d1' = SoiledAll(d1)
        /\ UNCHANGED <<notesDb, todoDb, lan, net, job, doubled>>
    BY <1>4 DEF ClearCheckpoint, replicas, history
  <2>2. d1'[d] = Soiled(d1[d])
    BY <2>1 DEF SoiledAll
  <2> DEFINE C == cloud'
  <2>3. CycleFits(Soiled(d1[d]), d, notesDb, todoDb, C, doubled)
    <3>1. CycleFits(d1[d], d, notesDb, todoDb, cloud, doubled)
      BY CleanParts
    <3> HIDE DEF C
    <3> QED
      BY <3>1, SoiledFits
  <2> QED
    BY <1>2, <2>1, <2>2, <2>3 DEF CycleMoves, SoiledAll
<1>5. CASE CloudMark(d)
  <2> DEFINE c == BeginTable(d, "todos", d1[d].whole, d1[d].locked, cloud.seen,
                             d1[d].clean)
             C == cloud'
  <2>1. /\ cloud' = [cloud EXCEPT !.seen = [@ EXCEPT ![<<d, d1[d].table>>] = Iso(clock)]]
        /\ d1' = [d1 EXCEPT ![d] = IF d1[d].table = "notes" THEN c ELSE Idle]
        /\ UNCHANGED <<notesDb, todoDb, lan, net, job, doubled>>
    BY <1>5 DEF CloudMark, replicas, history
  <2>2. /\ CycleFits(c, d, notesDb, todoDb, C, doubled)
        /\ CycleFits(Idle, d, notesDb, todoDb, C, doubled)
    <3> HIDE DEF C
    <3> QED
      BY BeginFits DEF CycleFits
  <2> HIDE DEF c
  <2> QED
    BY <1>1, <1>2, <2>1, <2>2 DEF CycleMoves
<1>6. CASE CloudFails(d)
  <2>1. /\ d1' = [d1 EXCEPT ![d] = Idle]
        /\ UNCHANGED <<notesDb, todoDb, lan, net, job, cloud, doubled>>
    BY <1>6 DEF CloudFails, replicas, history
  <2>2. CycleFits(d1'[d], d, notesDb, todoDb, cloud', doubled)
    BY <1>1, <2>1 DEF CycleFits
  <2> QED
    BY <1>1, <2>1, <2>2 DEF CycleMoves
<1> QED
  BY <1>3, <1>4, <1>5, <1>6

\* The three tables that a cycle is about hold rows of one kind.
LEMMA CycleTables ==
  ASSUME SyncInv, CleanInv, NEW d \in Device, d1[d] # Idle
  PROVE  LET c == d1[d]
         IN  /\ {"phase", "table", "rows", "index", "clean", "whole", "bare", "since"}
                   \in SUBSET DOMAIN c
             /\ c.table \in {"notes", "todos"}
             /\ \E R : /\ Kind(R) /\ Table(c.rows, R, doubled)
                       /\ Table(TableOf(notesDb, todoDb, d, c.table), R, doubled)
                       /\ Table(cloud[c.table], R, {})
             /\ c.clean /\ (c.whole \/ c.bare) =>
                   CycleClean(c, TableOf(notesDb, todoDb, d, c.table), cloud[c.table],
                              doubled)
<1>1. /\ {"phase", "table", "rows", "index"} \in SUBSET DOMAIN d1[d]
      /\ \/ d1[d].table = "notes" /\ Table(d1[d].rows, NotesOf(used, written), doubled)
         \/ d1[d].table = "todos" /\ Table(d1[d].rows, TodosOf(used), doubled)
  BY BeforeExchange, CycleHolds
<1>2. /\ Table(cloud.notes, NotesOf(used, written), {})
      /\ Table(cloud.todos, TodosOf(used), {})
  BY DEF SyncInv, CloudOK
<1>3. /\ Table(notesDb[d].notes, NotesOf(used, written), doubled)
      /\ Table(todoDb[d].todos, TodosOf(used), doubled)
  BY ReplicasAreTables
<1>4. CycleFits(d1[d], d, notesDb, todoDb, cloud, doubled)
  BY CleanParts
<1>5. CASE d1[d].table = "notes"
  <2>1. /\ TableOf(notesDb, todoDb, d, d1[d].table) = notesDb[d].notes
        /\ cloud[d1[d].table] = cloud.notes
    BY <1>5 DEF TableOf
  <2> QED
    BY <1>1, <1>2, <1>3, <1>4, <1>5, <2>1, KindsOfRows DEF CycleFits
<1>6. CASE d1[d].table = "todos"
  <2>1. /\ TableOf(notesDb, todoDb, d, d1[d].table) = todoDb[d].todos
        /\ cloud[d1[d].table] = cloud.todos
    BY <1>6 DEF TableOf
  <2> QED
    BY <1>1, <1>2, <1>3, <1>4, <1>6, <2>1, KindsOfRows DEF CycleFits
<1> QED
  BY <1>1, <1>5, <1>6

LEMMA CloudPushIsClean ==
  ASSUME SyncAssumption, SyncInv, CleanInv, NEW d \in Device, CloudPush(d)
  PROVE  CycleMoves(d)
<1> DEFINE c == d1[d]
           next == [c EXCEPT !.rows = Tail(c.rows)]
           mine == TableOf(notesDb, todoDb, d, c.table)
           there == cloud[c.table]
           C == cloud'
<1>1. /\ c.phase = "push" /\ c.rows # <<>>
      /\ C = [cloud EXCEPT ![c.table] = Upsert(there, Head(c.rows))]
      /\ d1'[d] = next
      /\ \A e \in Device : e # d => d1'[e] = (IF cloud' # cloud THEN Soiled(d1[e])
                                             ELSE d1[e])
      /\ UNCHANGED <<notesDb, todoDb, lan, net, job, doubled>>
  BY DEF CloudPush, replicas, history
<1>2. c # Idle
  BY <1>1 DEF Idle
<1>3. /\ {"phase", "table", "rows", "index", "clean", "whole", "bare", "since"}
            \in SUBSET DOMAIN c
      /\ c.table \in {"notes", "todos"}
      /\ c.clean /\ (c.whole \/ c.bare) => CycleClean(c, mine, there, doubled)
  BY <1>2, CycleTables
<1>4. PICK R : /\ Kind(R) /\ Table(c.rows, R, doubled)
               /\ Table(mine, R, doubled) /\ Table(there, R, {})
  BY <1>2, CycleTables
<1>5. /\ DOMAIN next = DOMAIN c /\ next.table = c.table /\ next.phase = "push"
      /\ next.rows = Tail(c.rows) /\ next.clean = c.clean /\ next.whole = c.whole
      /\ next.bare = c.bare /\ next.since = c.since
  BY <1>1, <1>3
<1>6. C[c.table] = Upsert(there, Head(c.rows))
  BY <1>1, <1>3 DEF SyncInv, Shapes
<1> HIDE DEF c, next, mine, there, C
<1>7. /\ Head(c.rows) \in R /\ there \in Seq(R) /\ Timed(R)
      /\ \A i \in DOMAIN mine : mine[i] \in R
  <2>1. Head(c.rows) \in R
    BY <1>1, <1>4, TailIsTable
  <2>2. \A i \in DOMAIN mine : mine[i] \in R
    BY <1>4, Positions DEF Table
  <2> QED
    BY <1>4, <2>1, <2>2, KindsAreTimed DEF Table
<1>8. \A k \in DOMAIN c.rows :
         \/ c.rows[k] = Head(c.rows)
         \/ \E l \in DOMAIN Tail(c.rows) : Tail(c.rows)[l] = c.rows[k]
  <2>1. c.rows \in Seq(R)
    BY <1>4 DEF Table
  <2>2. /\ Len(c.rows) \in Nat /\ Len(c.rows) # 0 /\ DOMAIN c.rows = 1..Len(c.rows)
        /\ Head(c.rows) = c.rows[1]
        /\ DOMAIN Tail(c.rows) = 1..(Len(c.rows) - 1)
        /\ \A i \in 1..(Len(c.rows) - 1) : Tail(c.rows)[i] = c.rows[i + 1]
    BY <1>1, <2>1
  <2>3. ASSUME NEW k \in DOMAIN c.rows, k # 1
        PROVE  \E l \in DOMAIN Tail(c.rows) : Tail(c.rows)[l] = c.rows[k]
    <3>1. k - 1 \in 1..(Len(c.rows) - 1) /\ (k - 1) + 1 = k
      BY <2>2, <2>3
    <3> QED
      BY <2>2, <3>1
  <2> QED
    BY <2>2, <2>3
<1>9. /\ HasAsNew(C[c.table], Head(c.rows))
      /\ \A r \in R : HasAsNew(there, r) => HasAsNew(C[c.table], r)
  BY <1>6, <1>7, UpsertHas
<1>10. CycleFits(next, d, notesDb, todoDb, C, doubled)
  <2>1. ASSUME CycleClean(c, mine, there, doubled)
        PROVE  CycleClean(next, mine, C[c.table], doubled)
    <3>1. ASSUME NEW i \in DOMAIN mine, mine[i].uuid \notin doubled
          PROVE  \/ HasAsNew(C[c.table], mine[i])
                 \/ \E k \in DOMAIN next.rows : next.rows[k] = mine[i]
      <4>1. HasAsNew(there, mine[i]) \/ \E k \in DOMAIN c.rows : c.rows[k] = mine[i]
        BY <1>1, <2>1, <3>1 DEF CycleClean
      <4> QED
        BY <1>5, <1>7, <1>8, <1>9, <4>1
    <3> QED
      BY <1>1, <1>5, <2>1, <3>1 DEF CycleClean
  <2> QED
    BY <1>3, <1>5, <2>1 DEF CycleFits, mine
<1> QED
  BY <1>1, <1>10 DEF CycleMoves, C

LEMMA CloudPullIsClean ==
  ASSUME SyncAssumption, SyncInv, CleanInv, NEW d \in Device, CloudPull(d)
  PROVE  CycleMoves(d)
<1> DEFINE c == d1[d]
           mine == TableOf(notesDb, todoDb, d, c.table)
           there == cloud[c.table]
           next == [c EXCEPT !.phase = "merge", !.rows = Since(there, c.since),
                             !.index = mine]
<1>1. c.phase = "push" /\ c.rows = <<>>
      /\ UNCHANGED <<notesDb, todoDb, lan, net, job, cloud, doubled>>
  BY DEF CloudPull, replicas, history
<1>2. c # Idle
  BY <1>1 DEF Idle
<1>3. /\ {"phase", "table", "rows", "index", "clean", "whole", "bare", "since"}
            \in SUBSET DOMAIN c
      /\ c.table \in {"notes", "todos"}
      /\ c.clean /\ (c.whole \/ c.bare) => CycleClean(c, mine, there, doubled)
  BY <1>2, CycleTables
<1>4. PICK R : Kind(R) /\ Table(there, R, {})
  BY <1>2, CycleTables
<1>5. DOMAIN d1 = Device /\ RowsOf(d, c.table) = mine
  BY DEF SyncInv, Shapes, RowsOf, TableOf
<1>6. d1' = [d1 EXCEPT ![d] = next]
  BY <1>3, <1>5 DEF CloudPull
<1>7. /\ DOMAIN next = DOMAIN c /\ next.table = c.table /\ next.phase = "merge"
      /\ next.rows = Since(there, c.since) /\ next.index = mine
      /\ next.clean = c.clean /\ next.whole = c.whole /\ next.bare = c.bare
  BY <1>3
<1> HIDE DEF c, next, mine, there
<1>8. CycleFits(next, d, notesDb, todoDb, cloud, doubled)
  <2>1. ASSUME CycleClean(c, mine, there, doubled)
        PROVE  CycleClean(next, mine, there, doubled)
    <3>1. SameRows(next.rows, there)
      BY <1>1, <1>4, <1>7, <2>1, SinceAll DEF CycleClean, Table
    <3>2. DOMAIN c.rows = {}
      BY <1>1
    <3> QED
      BY <1>1, <1>7, <2>1, <3>1, <3>2 DEF CycleClean
  <2> QED
    BY <1>3, <1>7, <2>1 DEF CycleFits, mine, there
<1> QED
  BY <1>1, <1>5, <1>6, <1>8 DEF CycleMoves

\* The table after a merge with all that the cloud has matches the cloud's.
LEMMA CloudMergeMatches ==
  ASSUME SyncAssumption, SyncInv, CleanInv, NEW d \in Device, CloudMerge(d),
         d1[d].clean, d1[d].whole \/ d1[d].bare
  PROVE  LET mine == TableOf(notesDb, todoDb, d, d1[d].table)
         IN  CloudMatched(Merged(mine, d1[d].index, d1[d].rows), cloud[d1[d].table],
                          doubled)
<1> DEFINE c == d1[d]
           mine == TableOf(notesDb, todoDb, d, c.table)
           there == cloud[c.table]
<1>1. c.phase = "merge" /\ c # Idle
  BY DEF CloudMerge, Idle
<1>2. CycleClean(c, mine, there, doubled)
  BY <1>1, CycleTables
<1>3. PICK R : /\ Kind(R) /\ Table(c.rows, R, doubled)
               /\ Table(mine, R, doubled) /\ Table(there, R, {})
  BY <1>1, CycleTables
<1> HIDE DEF c, mine, there
<1>4. /\ c.index = mine /\ SameRows(c.rows, there)
      /\ \A i \in DOMAIN mine : mine[i].uuid \notin doubled => HasAsNew(there, mine[i])
  BY <1>1, <1>2 DEF CycleClean
<1> DEFINE m == Merged(mine, mine, c.rows)
<1>5. Took(m, mine, c.rows, doubled)
  BY <1>3, MergeTakes
<1> HIDE DEF m
<1>6. CloudMatched(m, there, doubled)
  BY <1>3, <1>4, <1>5, PullMatches
<1> QED
  BY <1>4, <1>6 DEF m, c, mine, there

LEMMA CloudMergeIsClean ==
  ASSUME SyncAssumption, SyncInv, CleanInv, NEW d \in Device, CloudMerge(d)
  PROVE  CleanInv'
<1> DEFINE c == d1[d]
           mine == TableOf(notesDb, todoDb, d, c.table)
           next == [c EXCEPT !.phase = "mark", !.rows = <<>>, !.index = <<>>]
           N == notesDb'
           T == todoDb'
           X == doubled'
<1>1. /\ c.phase = "merge" /\ c # Idle
      /\ lan' = SoiledAll(lan) /\ job' = SoiledAll(job)
      /\ net' = {Soiled(m) : m \in net}
      /\ d1' = [d1 EXCEPT ![d] = next]
      /\ UNCHANGED cloud
      /\ doubled \in SUBSET X
      /\ \/ /\ c.table = "notes"
            /\ N = [notesDb EXCEPT ![d].notes = Merged(notesDb[d].notes, c.index, c.rows)]
            /\ T = todoDb
         \/ /\ c.table = "todos"
            /\ T = [todoDb EXCEPT ![d].todos = Merged(todoDb[d].todos, c.index, c.rows)]
            /\ N = notesDb
  BY DEF CloudMerge, Idle
<1>2. /\ DOMAIN d1 = Device /\ DOMAIN notesDb = Device /\ DOMAIN todoDb = Device
      /\ NotesDbOK(notesDb[d]) /\ TodoDbOK(todoDb[d])
  BY DEF SyncInv, Shapes, ReplicasOK, NotesOK, TodosOK
<1>3. /\ \A e \in Device : e # d => N[e] = notesDb[e] /\ T[e] = todoDb[e]
      /\ TableOf(N, T, d, c.table) = Merged(mine, c.index, c.rows)
  <2>1. CASE c.table = "notes"
    BY <1>1, <1>2, <2>1 DEF TableOf, NotesDbOK
  <2>2. CASE c.table = "todos"
    BY <1>1, <1>2, <2>2 DEF TableOf, TodoDbOK
  <2> QED
    BY <1>1, <2>1, <2>2
<1>4. /\ {"phase", "table", "rows", "index", "clean", "whole", "bare", "since"}
            \in SUBSET DOMAIN c
      /\ c.table \in {"notes", "todos"}
  BY <1>1, CycleTables
<1>5. /\ DOMAIN next = DOMAIN c /\ next.table = c.table /\ next.phase = "mark"
      /\ next.clean = c.clean /\ next.whole = c.whole /\ next.bare = c.bare
  BY <1>4
<1>6. c.clean /\ (c.whole \/ c.bare) =>
         CloudMatched(Merged(mine, c.index, c.rows), cloud[c.table], doubled)
  BY CloudMergeMatches
<1> HIDE DEF c, mine, next, N, T, X
<1>7. CycleFits(next, d, N, T, cloud, X)
  <2>1. ASSUME c.clean /\ (c.whole \/ c.bare)
        PROVE  CycleClean(next, TableOf(N, T, d, c.table), cloud[c.table], X)
    BY <1>1, <1>3, <1>5, <1>6, <2>1, ExcusesGrow DEF CycleClean
  <2> QED
    BY <1>4, <1>5, <2>1 DEF CycleFits
<1>8. ASSUME NEW e \in Device
      PROVE  CycleFits(d1'[e], e, N, T, cloud, X)
  <2>1. CASE e = d
    BY <1>1, <1>2, <1>7, <2>1
  <2>2. CASE e # d
    <3>1. /\ d1'[e] = d1[e] /\ N[e].notes = notesDb[e].notes
          /\ T[e].todos = todoDb[e].todos
      BY <1>1, <1>2, <1>3, <2>2
    <3>2. CycleFits(d1[e], e, notesDb, todoDb, cloud, doubled)
      BY CleanParts
    <3>3. CycleFits(d1[e], e, N, T, cloud, X)
      BY <1>1, <3>1, <3>2, CyclesKept
    <3> QED
      BY <3>1, <3>3
  <2> QED
    BY <2>1, <2>2
<1>9. ASSUME NEW e \in Device
      PROVE  LanFits(lan'[e], e, N, T, X) /\ JobFits(job'[e], lan'[e], e, N, T, X)
  <2>1. lan'[e] = Soiled(lan[e]) /\ job'[e] = Soiled(job[e])
    BY <1>1 DEF SoiledAll
  <2>2. /\ LanFits(lan[e], e, notesDb, todoDb, doubled)
        /\ JobFits(job[e], lan[e], e, notesDb, todoDb, doubled)
        /\ lan[e].phase = "merge" => Soiled(lan[e]).phase = "merge"
    BY CleanParts DEF Soiled
  <2>3. LanFits(Soiled(lan[e]), e, N, T, X)
    BY <2>2, SoiledFits
  <2>4. JobFits(Soiled(job[e]), Soiled(lan[e]), e, N, T, X)
    BY <2>2, SoiledFits
  <2> QED
    BY <2>1, <2>3, <2>4
<1>10. ASSUME NEW m \in net' PROVE MessageFits(m, N, T, X)
  <2>1. PICK o \in net : m = Soiled(o)
    BY <1>1
  <2>2. MessageFits(o, notesDb, todoDb, doubled)
    BY DEF CleanInv
  <2> QED
    BY <2>1, <2>2, SoiledFits
<1> QED
  BY <1>1, <1>8, <1>9, <1>10 DEF CleanInv, N, T, X

-----------------------------------------------------------------------------
(* What a clean exchange comes to                                          *)

LEMMA ExchangeIsClean ==
  ASSUME SyncAssumption, SyncInv, CleanInv, NEW d \in Device, Exchange(d)
  PROVE  CleanInv'
<1>1. AllStill
  BY BeforeExchange
<1>2. CASE \E p \in Device : FetchSnapshot(d, p)
  BY <1>1, <1>2, FetchIsClean, LanMovesAreClean
<1>3. CASE \E p \in Device : PushTo(d, p)
  BY <1>1, <1>3, PushToIsClean, LanMovesAreClean
<1>4. CASE ApplyFetched(d)
  BY <1>1, <1>4, ApplyIsClean, LanMovesAreClean
<1>5. CASE PushSnapshot(d)
  BY <1>1, <1>5, PushIsClean, LanMovesAreClean
<1>6. CASE ReceivePush(d)
  BY <1>1, <1>6, ReceiveIsClean, LanMovesAreClean
<1>7. CASE LanFails(d)
  BY <1>1, <1>7, LanFailureIsClean, LanMovesAreClean
<1>8. CASE \/ D1SyncNow(d) \/ D1FullSync(d) \/ BackgroundSync(d)
           \/ CloudMark(d) \/ CloudFails(d)
  BY <1>8, CycleBoundsMove, CycleMovesAreClean
<1>9. CASE CloudPush(d)
  BY <1>9, CloudPushIsClean, CycleMovesAreClean
<1>10. CASE CloudPull(d)
  BY <1>10, CloudPullIsClean, CycleMovesAreClean
<1> QED
  BY <1>2, <1>3, <1>4, <1>5, <1>6, <1>7, <1>8, <1>9, <1>10 DEF Exchange

LEMMA StutterIsClean ==
  ASSUME CleanInv, UNCHANGED <<notesDb, todoDb, exchanges, cloud, doubled>>
  PROVE  CleanInv'
BY DEF CleanInv, exchanges

LEMMA NextIsClean ==
  ASSUME SyncAssumption, SyncInv, CleanInv, Next
  PROVE  CleanInv'
<1>1. PICK d \in Device :
         \/ WriteNote(d) \/ WriteTodo(d) \/ RestoreTrash(d)
         \/ DeleteTrash(d) \/ Reset(d) \/ ClearCheckpoint(d)
         \/ MergeNotes(d) \/ MergeTodos(d) \/ Crash(d) \/ CloudMerge(d)
         \/ Exchange(d)
  BY StepsOfNext
<1>2. CASE WriteNote(d) \/ WriteTodo(d) \/ RestoreTrash(d)
  <2>1. \E notes, todos, t : UserActs(d, notes, todos, t)
    BY <1>2, WriteNoteActs, WriteTodoActs, RestoreTrashActs
  <2> QED
    BY <2>1, OutsidersInterfere, InterferenceIsClean
<1>3. CASE Reset(d) \/ Crash(d)
  BY <1>3, OutsidersInterfere, InterferenceIsClean
<1>4. CASE DeleteTrash(d)
  BY <1>4, StutterIsClean DEF DeleteTrash
<1>5. CASE ClearCheckpoint(d)
  BY <1>5, CycleBoundsMove, CycleMovesAreClean
<1>6. CASE MergeNotes(d)
  BY <1>6, MergeNotesMoves, MergeMovesAreClean
<1>7. CASE MergeTodos(d)
  BY <1>7, MergeTodosMoves, MergeMovesAreClean
<1>8. CASE CloudMerge(d)
  BY <1>8, CloudMergeIsClean
<1>9. CASE Exchange(d)
  BY <1>9, ExchangeIsClean
<1> QED
  BY <1>1, <1>2, <1>3, <1>4, <1>5, <1>6, <1>7, <1>8, <1>9

\* Whatever else goes on, an exchange whose flag is still set knows what its
\* phase says: who has which rows, and that nobody lacks them.
THEOREM CleanInvariance == Spec => []CleanInv
<1>1. Init => CleanInv
  BY DEF Init, CleanInv, LanFits, JobFits, CycleFits
<1>2. SyncInv /\ CleanInv /\ [Next]_vars => CleanInv'
  BY SyncAssumption, NextIsClean, StutterIsClean DEF vars, replicas, history
<1> QED
  BY <1>1, <1>2, SyncInvariance, PTL DEF Spec

\* So every row of a table of notes has one, and no row of a table of todos.
LEMMA OnlyNotesHaveContent ==
  ASSUME NEW db
  PROVE  /\ NotesDbOK(db) =>
               \A i \in DOMAIN db.notes : "content" \in DOMAIN db.notes[i]
         /\ TodoDbOK(db) =>
               \A i \in DOMAIN db.todos : "content" \notin DOMAIN db.todos[i]
BY NotesHaveContent, Positions DEF NotesDbOK, TodoDbOK

\* The last step of a clean cycle: the peer has merged what was pushed.
LEMMA PushAgrees ==
  ASSUME SyncAssumption, SyncInv, CleanInv, NEW d \in Device, MergeTodos(d),
         job[d].of \in Device, job[d].clean, NEW u \in Uuid \ doubled
  PROVE  /\ Agree(notesDb'[d].notes, notesDb'[job[d].of].notes, u, NotesAlike)
         /\ Agree(todoDb'[d].todos, todoDb'[job[d].of].todos, u, TodosAlike)
<1> DEFINE p == job[d].of
<1>1. job[d].phase = "todos" /\ notesDb' = notesDb
  BY DEF MergeTodos
<1>2. PushClean(job[d], d, notesDb, todoDb, doubled)
  BY <1>1, JobKnows DEF SyncAssumption
<1>3. /\ p \in Device \ {d} /\ job[d].index = todoDb[d].todos
      /\ job[d].snap.todos.todos = todoDb[p].todos
      /\ Matched(notesDb[d].notes, notesDb[p].notes, doubled)
      /\ Covers(todoDb[p].todos, todoDb[d].todos, doubled)
  BY <1>1, <1>2 DEF PushClean
<1>4. /\ todoDb'[p] = todoDb[p]
      /\ Matched(todoDb'[d].todos, todoDb[p].todos, doubled)
  BY <1>3, TodosMerged
<1> HIDE DEF p
<1>5. /\ \A i \in DOMAIN notesDb[d].notes : "content" \in DOMAIN notesDb[d].notes[i]
      /\ \A i \in DOMAIN todoDb'[d].todos : "content" \notin DOMAIN todoDb'[d].todos[i]
  <2>1. NotesDbOK(notesDb[d])
    BY DEF SyncInv, ReplicasOK, NotesOK
  <2>2. TodoDbOK(todoDb'[d])
    BY MergeTodosKeepsInv DEF SyncInv, ReplicasOK, TodosOK
  <2> QED
    BY <2>1, <2>2, OnlyNotesHaveContent
<1>6. Agree(notesDb[d].notes, notesDb[p].notes, u, NotesAlike)
  BY <1>3, <1>5, MatchedIsAgree DEF Agree, NotesAlike, Same, WithUuid
<1>7. Agree(todoDb'[d].todos, todoDb[p].todos, u, TodosAlike)
  BY <1>4, <1>5, MatchedIsAgree DEF Agree, TodosAlike, Same, WithUuid
<1> QED
  BY <1>1, <1>4, <1>6, <1>7 DEF p

\* However many devices edit, sync and fail at the same time, a LAN cycle that
\* nobody interfered with ends with two replicas that agree.
THEOREM CleanCyclesAgree == Spec => CleanCycleAgrees
<1>1. SyncInv /\ CleanInv /\ [Next]_vars =>
        [\A d \in Device :
            PushMerged(d) /\ job[d].clean =>
                LET p == job[d].of
                IN  \A u \in Uuid \ doubled :
                       /\ Agree(notesDb'[d].notes, notesDb'[p].notes, u, NotesAlike)
                       /\ Agree(todoDb'[d].todos, todoDb'[p].todos, u, TodosAlike)]_vars
  BY SyncAssumption, PushAgrees DEF PushMerged
<1> QED
  BY <1>1, SyncInvariance, CleanInvariance, PTL DEF Spec, CleanCycleAgrees

\* The last step of a clean cloud cycle of one table.
LEMMA MarkAgrees ==
  ASSUME SyncAssumption, SyncInv, CleanInv, NEW d \in Device, CloudMark(d),
         d1[d].clean, d1[d].whole \/ d1[d].bare, NEW u \in Uuid \ doubled
  PROVE  IF d1[d].table = "notes"
         THEN Agree(notesDb'[d].notes, cloud'.notes, u, CloudNotesAlike)
         ELSE Agree(todoDb'[d].todos, cloud'.todos, u, CloudTodosAlike)
<1> DEFINE c == d1[d]
           mine == TableOf(notesDb, todoDb, d, c.table)
           there == cloud[c.table]
<1>1. c.phase = "mark" /\ c # Idle /\ UNCHANGED <<notesDb, todoDb>>
  BY DEF CloudMark, Idle, replicas
<1>2. cloud'.notes = cloud.notes /\ cloud'.todos = cloud.todos
  BY DEF CloudMark, SyncInv, Shapes
<1>3. c.table \in {"notes", "todos"} /\ CloudMatched(mine, there, doubled)
  BY <1>1, CycleTables DEF CycleClean
<1>4. /\ WithUuid(mine, u) \cup WithUuid(there, u) # {} =>
            WithUuid(mine, u) # {} /\ WithUuid(there, u) # {}
      /\ \A i \in WithUuid(mine, u), k \in WithUuid(there, u) :
            \/ Same(mine[i], there[k]) \/ Tied(mine[i], there[k])
            \/ mine[i].updated.iso # there[k].updated.iso
  <2> HIDE DEF mine, there
  <2> QED
    BY <1>3 DEF CloudMatched, Known, WithUuid
<1>5. NotesDbOK(notesDb[d]) /\ TodoDbOK(todoDb[d])
  BY DEF SyncInv, ReplicasOK, NotesOK, TodosOK
<1>6. /\ \A i \in DOMAIN notesDb[d].notes : "content" \in DOMAIN notesDb[d].notes[i]
      /\ \A i \in DOMAIN todoDb[d].todos : "content" \notin DOMAIN todoDb[d].todos[i]
  BY <1>5, OnlyNotesHaveContent
<1>7. CASE c.table = "notes"
  <2>1. mine = notesDb[d].notes /\ there = cloud.notes
    BY <1>7 DEF TableOf
  <2> HIDE DEF mine, there, c
  <2>2. Agree(mine, there, u, CloudNotesAlike)
    BY <1>4, <1>6, <2>1 DEF Agree, CloudNotesAlike, NotesAlike, Same, WithUuid
  <2> QED
    BY <1>1, <1>2, <1>7, <2>1, <2>2 DEF c
<1>8. CASE c.table = "todos"
  <2>1. mine = todoDb[d].todos /\ there = cloud.todos
    BY <1>8 DEF TableOf
  <2> HIDE DEF mine, there, c
  <2>2. Agree(mine, there, u, CloudTodosAlike)
    BY <1>4, <1>6, <2>1 DEF Agree, CloudTodosAlike, TodosAlike, Same, WithUuid
  <2> QED
    BY <1>1, <1>2, <1>8, <2>1, <2>2 DEF c
<1> QED
  BY <1>3, <1>7, <1>8

\* So does a full cloud cycle, for the device and the cloud.
THEOREM CleanFullSyncsAgree == Spec => CleanFullSyncAgrees
<1>1. SyncInv /\ CleanInv /\ [Next]_vars =>
        [\A d \in Device :
            LET c == d1[d]
            IN  CloudMark(d) /\ c.clean /\ (c.whole \/ c.bare)
                => \A u \in Uuid \ doubled :
                      IF c.table = "notes"
                      THEN Agree(notesDb'[d].notes, cloud'.notes, u, CloudNotesAlike)
                      ELSE Agree(todoDb'[d].todos, cloud'.todos, u, CloudTodosAlike)]_vars
  BY SyncAssumption, MarkAgrees
<1> QED
  BY <1>1, SyncInvariance, CleanInvariance, PTL DEF Spec, CleanFullSyncAgrees
=============================================================================
