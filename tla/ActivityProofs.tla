--------------------------- MODULE ActivityProofs ---------------------------
(* What the table of events keeps, for every set of buckets, events, uploads
   and rows of the peer: its type and the agreement of the heartbeat cache, that
   recorded time stays recorded, and that a merge takes what the peer had. *)
EXTENDS Activity, TransformProofs, TLAPS

(***************************************************************************)
(* The inductive invariant.                                                *)
(***************************************************************************)
Entry == [id : Nat, row : StoredEvent]

TablesOK ==
    /\ file \in Seq(StoredEvent) /\ Len(file) <= MaxRows
    /\ tx \in Seq(StoredEvent) /\ Len(tx) <= MaxRows
    /\ open \in BOOLEAN /\ replaced \in BOOLEAN
    /\ open => Len(file) <= Len(tx)

LastOK == last \in [Bucket -> {None} \cup Entry]

SyncOK ==
    \/ sync = Idle
    \/ /\ sync \in [kind : {"read"}, snap : SUBSET StoredEvent, news : SUBSET StoredEvent]
       /\ IsFiniteSet(sync.news)

RestOK == rest \in {Idle} \cup [kind : {"read"}, bucket : Bucket, events : Seq(FileEvent)]

PeerOK == peer \in SUBSET StoredEvent /\ IsFiniteSet(peer)

\* t begins with the rows of s.
Begins(s, t) == Len(s) <= Len(t) /\ \A i \in DOMAIN s : t[i] = s[i]

TimeOfRow(r) == {<<r.b, r.d>>} \X Span(r)

\* What the cache holds is a row of its bucket as it is.
CacheFits(t, cache) ==
    \A b \in Bucket : cache[b] # None => /\ cache[b].id \in Rows(t, b)
                                         /\ t[cache[b].id] = cache[b].row

\* The open transaction has not taken time from the file, and a finished one is
\* in the file, behind which a merge may have appended.
TablesFollow == /\ open => Recorded(file) \subseteq Recorded(tx)
                /\ ~open => Begins(tx, file)

\* What the merge does not count as new is in the file.
SnapshotCovered ==
    sync # Idle => \A r \in sync.snap : r \in sync.news \/ TimeOfRow(r) \subseteq Recorded(file)

Faithful == CacheFits(tx, last) /\ TablesFollow /\ SnapshotCovered

ActivityInv ==
    /\ TablesOK /\ LastOK /\ SyncOK /\ RestOK /\ PeerOK
    /\ ~replaced => Faithful

(***************************************************************************)
(* The operators.                                                          *)
(***************************************************************************)
LEMMA AtomsOfActivity ==
  ASSUME TablesOK
  PROVE  /\ MaxRows \in Nat /\ Pulse \in Nat
         /\ Len(file) \in Nat /\ DOMAIN file = 1..Len(file)
         /\ Len(tx) \in Nat /\ DOMAIN tx = 1..Len(tx)
         /\ \A i \in DOMAIN file : file[i] \in StoredEvent
         /\ \A i \in DOMAIN tx : tx[i] \in StoredEvent
BY ActivityAssumption DEF TablesOK

LEMMA RecordedHas ==
  ASSUME NEW t, NEW x
  PROVE  x \in Recorded(t) <=> \E i \in DOMAIN t : x \in TimeOfRow(t[i])
BY DEF Recorded, TimeOfRow

LEMMA RowIsStored ==
  ASSUME NEW b \in Bucket, NEW v \in Event \cup FileEvent
  PROVE  Row(b, v) \in StoredEvent
BY DEF Row, Event, FileEvent, StoredEvent

\* A table that begins with another one has recorded what that has.
LEMMA RecordedGrows ==
  ASSUME NEW s \in Seq(StoredEvent), NEW t \in Seq(StoredEvent), Begins(s, t)
  PROVE  Recorded(s) \subseteq Recorded(t)
<1>1. \A i \in DOMAIN s : i \in DOMAIN t /\ t[i] = s[i]
  BY DEF Begins
<1> QED
  BY <1>1, RecordedHas

LEMMA BeginsIsTransitive ==
  ASSUME NEW r \in Seq(StoredEvent), NEW s \in Seq(StoredEvent), NEW t \in Seq(StoredEvent),
         Begins(r, s), Begins(s, t)
  PROVE  Begins(r, t)
<1>1. \A i \in DOMAIN r : i \in DOMAIN s
  BY DEF Begins
<1> QED
  BY <1>1 DEF Begins

LEMMA CacheFitsLonger ==
  ASSUME NEW s \in Seq(StoredEvent), NEW t \in Seq(StoredEvent), Begins(s, t),
         NEW cache, CacheFits(s, cache)
  PROVE  CacheFits(t, cache)
<1>1. \A i \in DOMAIN s : i \in DOMAIN t /\ t[i] = s[i]
  BY DEF Begins
<1> QED
  BY <1>1 DEF CacheFits, Rows

\* A row whose event grows.
LEMMA GrowingKeepsRecord ==
  ASSUME NEW t \in Seq(StoredEvent), NEW i \in DOMAIN t, NEW r \in StoredEvent,
         r.b = t[i].b, r.d = t[i].d, r.s = t[i].s, t[i].e <= r.e
  PROVE  /\ [t EXCEPT ![i] = r] \in Seq(StoredEvent)
         /\ Len([t EXCEPT ![i] = r]) = Len(t)
         /\ Recorded(t) \subseteq Recorded([t EXCEPT ![i] = r])
<1> DEFINE new == [t EXCEPT ![i] = r]
<1>1. new \in Seq(StoredEvent) /\ Len(new) = Len(t) /\ DOMAIN new = DOMAIN t
  OBVIOUS
<1>2. Span(t[i]) \subseteq Span(r)
  <2>1. t[i] \in StoredEvent
    OBVIOUS
  <2>2. t[i].s \in Nat /\ t[i].e \in Nat /\ r.s \in Nat /\ r.e \in Nat
    BY <2>1 DEF StoredEvent
  <2> QED
    BY <2>2 DEF Span
<1>3. \A j \in DOMAIN t : TimeOfRow(t[j]) \subseteq TimeOfRow(new[j])
  BY <1>2 DEF TimeOfRow
<1> QED
  BY <1>1, <1>3, RecordedHas

\* Two sequences put behind each other.
LEMMA AppendedBegins ==
  ASSUME NEW s \in Seq(StoredEvent), NEW t \in Seq(StoredEvent)
  PROVE  /\ s \o t \in Seq(StoredEvent)
         /\ Len(s \o t) = Len(s) + Len(t)
         /\ Begins(s, s \o t)
         /\ \A i \in DOMAIN t : Len(s) + i \in DOMAIN (s \o t) /\ (s \o t)[Len(s) + i] = t[i]
BY DEF Begins

LEMMA AppendBegins ==
  ASSUME NEW s \in Seq(StoredEvent), NEW r \in StoredEvent
  PROVE  /\ Append(s, r) \in Seq(StoredEvent)
         /\ Len(Append(s, r)) = Len(s) + 1
         /\ Append(s, r)[Len(s) + 1] = r
         /\ Begins(s, Append(s, r))
BY DEF Begins

\* One event put into a table, and its effect on the rows a table begins with.
LEMMA PutEventKeeps ==
  ASSUME NEW s \in Seq(StoredEvent), NEW t \in Seq(StoredEvent), Len(s) <= Len(t),
         NEW b \in Bucket, NEW ev \in FileEvent
  PROVE  /\ PutEvent(t, b, ev) \in Seq(StoredEvent)
         /\ Len(s) <= Len(PutEvent(t, b, ev))
         /\ ev.id \notin DOMAIN s /\ Begins(s, t) => Begins(s, PutEvent(t, b, ev))
<1>1. Row(b, ev) \in StoredEvent
  BY RowIsStored
<1>2. CASE ev.id # None /\ ev.id \in DOMAIN t
  <2>1. PutEvent(t, b, ev) = [t EXCEPT ![ev.id] = Row(b, ev)]
    BY <1>2 DEF PutEvent
  <2>2. /\ PutEvent(t, b, ev) \in Seq(StoredEvent)
        /\ Len(PutEvent(t, b, ev)) = Len(t)
        /\ \A i \in DOMAIN t : i # ev.id => PutEvent(t, b, ev)[i] = t[i]
    BY <1>1, <1>2, <2>1
  <2>3. DOMAIN s \subseteq DOMAIN t
    OBVIOUS
  <2> QED
    BY <2>2, <2>3 DEF Begins
<1>3. CASE ~(ev.id # None /\ ev.id \in DOMAIN t)
  <2>1. PutEvent(t, b, ev) = Append(t, Row(b, ev))
    BY <1>3 DEF PutEvent
  <2> DEFINE u == Append(t, Row(b, ev))
  <2>2. u \in Seq(StoredEvent) /\ Len(u) = Len(t) + 1 /\ Begins(t, u)
    BY <1>1, AppendBegins
  <2> HIDE DEF u
  <2>3. Begins(s, t) => Begins(s, u)
    BY <2>2, BeginsIsTransitive
  <2> QED
    BY <2>1, <2>2, <2>3 DEF u
<1> QED
  BY <1>2, <1>3

\* Some list of tables is the course of insert_events: no least number of events
\* is without one.
LEMMA PutEventsCourse ==
  ASSUME NEW t \in Seq(StoredEvent), NEW b \in Bucket, NEW evs \in Seq(FileEvent),
         NEW n \in 0..Len(evs)
  PROVE  \E p \in [0..n -> Seq(StoredEvent)] :
            /\ p[0] = t
            /\ \A k \in 1..n : p[k] = PutEvent(p[k - 1], b, evs[k])
<1> DEFINE Course(m, p) == p[0] = t /\ \A k \in 1..m : p[k] = PutEvent(p[k - 1], b, evs[k])
           Without == {m \in 0..Len(evs) : ~ \E p \in [0..m -> Seq(StoredEvent)] : Course(m, p)}
<1>1. SUFFICES ASSUME Without # {} PROVE FALSE
  OBVIOUS
<1>2. PICK m \in Without : \A k \in Without : m <= k
  <2> HIDE DEF Without
  <2>1. Without \in SUBSET Nat
    BY DEF Without
  <2> QED
    BY <1>1, <2>1, EarliestExists
<1>3. m \in Nat /\ m <= Len(evs) /\ m # 0
  <2>1. [k \in 0..0 |-> t] \in [0..0 -> Seq(StoredEvent)] /\ Course(0, [k \in 0..0 |-> t])
    OBVIOUS
  <2>2. 0 \notin Without
    <3> HIDE DEF Course
    <3> QED
      BY <2>1
  <2>3. m \in 0..Len(evs) /\ m # 0
    BY <1>2, <2>2
  <2> HIDE DEF Without
  <2> QED
    BY <2>3
<1>4. m - 1 \in 0..Len(evs) /\ m - 1 \notin Without
  <2>1. m - 1 \in 0..Len(evs) /\ ~(m <= m - 1)
    BY <1>3
  <2> HIDE DEF Without
  <2> QED
    BY <1>2, <2>1
<1>5. PICK p \in [0..(m - 1) -> Seq(StoredEvent)] : Course(m - 1, p)
  BY <1>4
<1> DEFINE last1 == PutEvent(p[m - 1], b, evs[m])
           q == [k \in 0..m |-> IF k = m THEN last1 ELSE p[k]]
<1>6. last1 \in Seq(StoredEvent)
  <2>1. p[m - 1] \in Seq(StoredEvent) /\ evs[m] \in FileEvent
    BY <1>3
  <2> DEFINE u == p[m - 1]
             e == evs[m]
  <2>2. u \in Seq(StoredEvent) /\ e \in FileEvent /\ Len(u) <= Len(u)
    BY <2>1
  <2> HIDE DEF u, e
  <2>3. PutEvent(u, b, e) \in Seq(StoredEvent)
    BY <2>2, PutEventKeeps
  <2> QED
    BY <2>3 DEF u, e
<1>7. q \in [0..m -> Seq(StoredEvent)]
  BY <1>3, <1>6
<1>8. Course(m, q)
  <2>1. q[0] = t
    BY <1>3, <1>5
  <2>2. ASSUME NEW k \in 1..m PROVE q[k] = PutEvent(q[k - 1], b, evs[k])
    <3>1. k - 1 \in 0..(m - 1) /\ q[k - 1] = p[k - 1]
      BY <1>3, <2>2
    <3>2. CASE k = m
      BY <3>1, <3>2
    <3>3. CASE k # m
      <4>1. k \in 1..(m - 1) /\ q[k] = p[k]
        BY <1>3, <2>2, <3>3
      <4> QED
        BY <1>5, <3>1, <4>1
    <3> QED
      BY <3>2, <3>3
  <2> QED
    BY <2>1, <2>2
<1> QED
  BY <1>7, <1>8

\* insert_events: a table again, that no row is missing from; and if no event has
\* the id of a row, with the same rows in front.
LEMMA PutEventsKeeps ==
  ASSUME NEW t \in Seq(StoredEvent), NEW b \in Bucket, NEW evs \in Seq(FileEvent)
  PROVE  /\ PutEvents(t, b, evs) \in Seq(StoredEvent)
         /\ Len(t) <= Len(PutEvents(t, b, evs))
         /\ (\A k \in DOMAIN evs : evs[k].id \notin DOMAIN t)
               => Begins(t, PutEvents(t, b, evs))
<1> DEFINE n == Len(evs)
           Is(f) == f = [k \in 0..n |-> IF k = 0 THEN t ELSE PutEvent(f[k - 1], b, evs[k])]
           put == CHOOSE f : Is(f)
<1>1. n \in Nat /\ DOMAIN evs = 1..n
  OBVIOUS
<1>2. Is(put)
  <2>1. PICK p \in [0..n -> Seq(StoredEvent)] :
           p[0] = t /\ \A k \in 1..n : p[k] = PutEvent(p[k - 1], b, evs[k])
    <3>1. n \in 0..Len(evs)
      BY <1>1
    <3> HIDE DEF n
    <3> QED
      BY <3>1, PutEventsCourse
  <2>2. \A k \in 0..n : p[k] = IF k = 0 THEN t ELSE PutEvent(p[k - 1], b, evs[k])
    BY <1>1, <2>1
  <2>3. Is(p)
    BY <2>1, <2>2
  <2> HIDE DEF Is
  <2> QED
    BY <2>3
<1>3. PutEvents(t, b, evs) = put[n]
  BY DEF PutEvents
<1> DEFINE Good(u) == /\ u \in Seq(StoredEvent) /\ Len(t) <= Len(u)
                      /\ (\A k \in DOMAIN evs : evs[k].id \notin DOMAIN t) => Begins(t, u)
           Bad == {k \in 0..n : ~Good(put[k])}
<1>4. put[0] = t /\ \A k \in 1..n : put[k] = PutEvent(put[k - 1], b, evs[k])
  <2> HIDE DEF put, n
  <2>1. 0 \in 0..n /\ \A k \in 1..n : k \in 0..n /\ k # 0
    BY <1>1
  <2> QED
    BY <1>2, <2>1
<1> HIDE DEF put, n
<1>5. ASSUME NEW k \in 1..n, Good(put[k - 1]) PROVE Good(put[k])
  <2>1. evs[k] \in FileEvent /\ k \in DOMAIN evs
    BY <1>1, <1>5
  <2> QED
    BY <1>4, <1>5, <2>1, PutEventKeeps
<1>6. Good(put[0])
  BY <1>4 DEF Begins
<1>7. Bad = {}
  <2>1. SUFFICES ASSUME Bad # {} PROVE FALSE
    OBVIOUS
  <2>2. PICK k \in Bad : \A j \in Bad : k <= j
    <3>1. Bad \in SUBSET Nat
      BY <1>1
    <3> HIDE DEF Bad
    <3> QED
      BY <2>1, <3>1, EarliestExists
  <2>3. k \in 0..n /\ k # 0
    BY <1>6, <2>2
  <2>4. k \in 1..n /\ k - 1 \in 0..n /\ k - 1 \notin Bad
    BY <1>1, <2>2, <2>3
  <2>5. Good(put[k - 1])
    BY <2>4
  <2> HIDE DEF Good
  <2> QED
    BY <1>5, <2>2, <2>4, <2>5
<1> QED
  BY <1>1, <1>3, <1>7

(***************************************************************************)
(* The steps that write to the open transaction.                           *)
(***************************************************************************)
\* What such a step has to show: a longer table that keeps the record, and a
\* cache that fits it.
TxStep(t) ==
    /\ open /\ tx' = t
    /\ t \in Seq(StoredEvent) /\ Len(t) <= MaxRows /\ Len(tx) <= Len(t)
    /\ LastOK' /\ RestOK' /\ replaced' \in BOOLEAN
    /\ replaced => replaced'
    /\ (~replaced' /\ Faithful) => /\ Recorded(tx) \subseteq Recorded(t)
                                   /\ CacheFits(t, last')
    /\ UNCHANGED <<file, open, sync, peer>>

LEMMA TxStepKeepsInv ==
  ASSUME ActivityInv, NEW t, TxStep(t)
  PROVE  ActivityInv'
<1>1. /\ TablesOK /\ SyncOK /\ PeerOK
      /\ ~replaced => Faithful
  BY DEF ActivityInv
<1>2. TablesOK'
  BY <1>1, AtomsOfActivity DEF TxStep, TablesOK
<1>3. LastOK' /\ SyncOK' /\ RestOK' /\ PeerOK'
  BY <1>1 DEF TxStep, SyncOK, PeerOK
<1>4. ASSUME ~replaced' PROVE Faithful'
  <2>1. /\ Faithful /\ Recorded(tx) \subseteq Recorded(t)
        /\ CacheFits(t, last') /\ tx' = t
    BY <1>1, <1>4 DEF TxStep
  <2>2. CacheFits(tx, last)'
    BY <2>1
  <2>3. TablesFollow'
    BY <2>1 DEF TxStep, TablesFollow, Faithful, Recorded
  <2>4. SnapshotCovered'
    BY <2>1 DEF TxStep, SnapshotCovered, Faithful
  <2> QED
    BY <2>2, <2>3, <2>4 DEF Faithful
<1> QED
  BY <1>2, <1>3, <1>4 DEF ActivityInv

LEMMA InsertEventsIsTxStep ==
  ASSUME ActivityInv, NEW b \in Bucket, NEW batch \in Batch[b], InsertEvents(b, batch)
  PROVE  \E t : TxStep(t)
<1> DEFINE new == [k \in DOMAIN batch |-> Row(b, batch[k])]
           t == tx \o new
<1>1. TablesOK /\ LastOK /\ RestOK
  BY DEF ActivityInv
<1>2. tx \in Seq(StoredEvent)
  BY <1>1 DEF TablesOK
<1>3. batch \in Seq(Event)
  BY ActivityAssumption
<1>4. \A k \in DOMAIN batch : Row(b, batch[k]) \in StoredEvent
  BY <1>3, RowIsStored
<1>5. new \in Seq(StoredEvent)
  BY <1>3, <1>4
<1> HIDE DEF new
<1>6. t \in Seq(StoredEvent) /\ Begins(tx, t)
  BY <1>2, <1>5, AppendedBegins
<1>7. /\ open /\ tx' = t /\ Len(t) <= MaxRows
      /\ last' = [last EXCEPT ![b] = None]
      /\ UNCHANGED <<file, open, sync, peer, rest, replaced>>
  BY DEF InsertEvents, Write, new
<1> HIDE DEF t
<1>8. Recorded(tx) \subseteq Recorded(t)
  BY <1>2, <1>6, RecordedGrows
<1>9. ASSUME Faithful PROVE CacheFits(t, last')
  <2>1. CacheFits(t, last)
    BY <1>2, <1>6, <1>9, CacheFitsLonger DEF Faithful
  <2> QED
    BY <1>1, <1>7, <2>1 DEF CacheFits, LastOK
<1>10. LastOK' /\ RestOK'
  BY <1>1, <1>7 DEF LastOK, RestOK
<1>11. Len(tx) <= Len(t) /\ replaced \in BOOLEAN
  BY <1>1, <1>6 DEF Begins, TablesOK
<1> QED
  BY <1>6, <1>7, <1>8, <1>9, <1>10, <1>11 DEF TxStep

\* The event a heartbeat merges with is a row of the bucket as it is.
LEMMA LastEventIsEntry ==
  ASSUME ActivityInv, NEW b \in Bucket, NEW l \in LastEvent(b)
  PROVE  /\ l \in Entry
         /\ Faithful => l.id \in Rows(tx, b) /\ tx[l.id] = l.row
<1>1. TablesOK /\ LastOK
  BY DEF ActivityInv
<1>2. CASE last[b] # None
  <2>1. l = last[b] /\ last[b] \in Entry
    BY <1>1, <1>2 DEF LastEvent, LastOK
  <2> QED
    BY <1>2, <2>1 DEF Faithful, CacheFits
<1>3. CASE last[b] = None
  <2>1. PICK i \in Rows(tx, b) : l = Cached(i, tx[i])
    BY <1>3 DEF LastEvent
  <2>2. i \in Nat /\ tx[i] \in StoredEvent
    BY <1>1, AtomsOfActivity DEF Rows
  <2> QED
    BY <2>1, <2>2 DEF Cached, Entry
<1> QED
  BY <1>2, <1>3

\* A heartbeat that makes a row of its own.
LEMMA BeatAppended ==
  ASSUME ActivityInv, NEW b \in Bucket, NEW hb \in Beat[b],
         Write(Append(tx, Row(b, hb))),
         last' = last \/ Remember(b, Cached(Len(tx) + 1, Row(b, hb))),
         UNCHANGED <<rest, replaced>>
  PROVE  \E t : TxStep(t)
<1> DEFINE r == Row(b, hb)
           t == Append(tx, r)
<1>1. TablesOK /\ LastOK /\ RestOK
  BY DEF ActivityInv
<1>2. tx \in Seq(StoredEvent) /\ Len(tx) \in Nat
  BY <1>1 DEF TablesOK
<1>3. r \in StoredEvent
  BY ActivityAssumption, RowIsStored
<1>4. r.b = b
  BY DEF Row
<1>5. /\ open /\ tx' = t /\ Len(t) <= MaxRows
      /\ last' = last \/ last' = [last EXCEPT ![b] = Cached(Len(tx) + 1, r)]
      /\ UNCHANGED <<file, open, sync, peer, rest, replaced>>
  BY DEF Write, Remember
<1> HIDE DEF r
<1>6. t \in Seq(StoredEvent) /\ Begins(tx, t) /\ Len(t) = Len(tx) + 1 /\ t[Len(tx) + 1] = r
  BY <1>2, <1>3, AppendBegins
<1> HIDE DEF t
<1>7. Recorded(tx) \subseteq Recorded(t)
  BY <1>2, <1>6, RecordedGrows
<1>8. Len(tx) + 1 \in Rows(t, b)
  BY <1>2, <1>4, <1>6 DEF Rows
<1>9. ASSUME Faithful PROVE CacheFits(t, last')
  <2>1. CacheFits(t, last)
    BY <1>2, <1>6, <1>9, CacheFitsLonger DEF Faithful
  <2>2. \A c \in Bucket : \/ last'[c] = last[c]
                          \/ c = b /\ last'[c] = Cached(Len(tx) + 1, r)
    BY <1>1, <1>5 DEF LastOK
  <2>3. /\ Cached(Len(tx) + 1, r).id \in Rows(t, b)
        /\ t[Cached(Len(tx) + 1, r).id] = Cached(Len(tx) + 1, r).row
    BY <1>6, <1>8 DEF Cached
  <2> QED
    BY <2>1, <2>2, <2>3 DEF CacheFits
<1>10. LastOK' /\ RestOK'
  <2>1. Cached(Len(tx) + 1, r) \in Entry
    BY <1>2, <1>3 DEF Cached, Entry
  <2> QED
    BY <1>1, <1>5, <2>1 DEF LastOK, RestOK
<1>11. Len(tx) <= Len(t) /\ replaced \in BOOLEAN
  BY <1>1, <1>2, <1>6 DEF TablesOK
<1> QED
  BY <1>5, <1>6, <1>7, <1>9, <1>10, <1>11 DEF TxStep

\* A heartbeat that merges with a row.
LEMMA BeatMerged ==
  ASSUME ActivityInv, NEW b \in Bucket, NEW hb \in Beat[b], NEW l \in LastEvent(b),
         NEW merged, merged = [l.row EXCEPT !.e = Later(@, hb.e)],
         l.id \in Rows(tx, b),
         Write(Replace(tx, b, l.id, merged)),
         Remember(b, Cached(l.id, merged)),
         UNCHANGED <<rest, replaced>>
  PROVE  \E t : TxStep(t)
<1> DEFINE i == l.id
           t == [tx EXCEPT ![i] = merged]
<1>1. TablesOK /\ LastOK /\ RestOK
  BY DEF ActivityInv
<1>2. tx \in Seq(StoredEvent) /\ Len(tx) \in Nat
  BY <1>1 DEF TablesOK
<1>3. l \in Entry /\ (Faithful => tx[i] = l.row)
  BY LastEventIsEntry
<1>4. hb \in Event
  BY ActivityAssumption
<1>5. /\ merged \in StoredEvent
      /\ merged.b = l.row.b /\ merged.d = l.row.d /\ merged.s = l.row.s
      /\ l.row.e <= merged.e
  <2>1. l.row \in StoredEvent
    BY <1>3 DEF Entry
  <2>2. /\ l.row.e \in Nat /\ l.row.s \in Nat /\ l.row.s <= l.row.e /\ hb.e \in Nat
    BY <1>4, <2>1 DEF StoredEvent, Event
  <2>3. /\ Later(l.row.e, hb.e) \in Nat /\ l.row.e <= Later(l.row.e, hb.e)
    BY <2>2 DEF Later
  <2>4. merged = [l.row EXCEPT !.e = Later(l.row.e, hb.e)]
    OBVIOUS
  <2> QED
    BY <2>1, <2>2, <2>3, <2>4 DEF StoredEvent
<1>6. i \in DOMAIN tx /\ tx[i].b = b /\ DOMAIN tx = 1..Len(tx)
  BY <1>1, AtomsOfActivity DEF Rows
<1>7. /\ open /\ tx' = t /\ Len(t) <= MaxRows
      /\ last' = [last EXCEPT ![b] = Cached(i, merged)]
      /\ UNCHANGED <<file, open, sync, peer, rest, replaced>>
  BY DEF Write, Remember, Replace
<1>8. /\ t \in Seq(StoredEvent) /\ Len(t) = Len(tx) /\ DOMAIN t = DOMAIN tx
      /\ t[i] = merged /\ \A j \in DOMAIN tx : j # i => t[j] = tx[j]
  BY <1>2, <1>5, <1>6
<1>9. ASSUME Faithful
      PROVE  Recorded(tx) \subseteq Recorded(t)
  <2> HIDE DEF i
  <2>1. merged.b = tx[i].b /\ merged.d = tx[i].d /\ merged.s = tx[i].s /\ tx[i].e <= merged.e
    BY <1>3, <1>5, <1>9
  <2> QED
    BY <1>2, <1>5, <1>6, <2>1, GrowingKeepsRecord
<1> HIDE DEF t
<1>10. ASSUME Faithful PROVE CacheFits(t, last')
  <2>1. CacheFits(tx, last) /\ tx[i].b = merged.b
    BY <1>3, <1>5, <1>10 DEF Faithful
  <2>2. ASSUME NEW c \in Bucket, last'[c] # None
        PROVE  last'[c].id \in Rows(t, c) /\ t[last'[c].id] = last'[c].row
    <3>1. CASE c = b
      <4>1. last'[c] = Cached(i, merged)
        BY <1>1, <1>7, <3>1 DEF LastOK
      <4>2. i \in Rows(t, c)
        BY <1>6, <1>8, <2>1, <3>1 DEF Rows
      <4> QED
        BY <1>8, <4>1, <4>2 DEF Cached
    <3>2. CASE c # b
      <4>1. last'[c] = last[c]
        BY <1>1, <1>7, <3>2 DEF LastOK
      <4>2. last[c].id \in Rows(tx, c) /\ tx[last[c].id] = last[c].row
        BY <2>1, <2>2, <4>1 DEF CacheFits
      <4>3. last[c].id # i
        BY <1>6, <3>2, <4>2 DEF Rows
      <4> QED
        BY <1>8, <4>1, <4>2, <4>3 DEF Rows
    <3> QED
      BY <3>1, <3>2
  <2> QED
    BY <2>2 DEF CacheFits
<1>11. LastOK' /\ RestOK'
  <2>1. Cached(i, merged) \in Entry
    BY <1>2, <1>3, <1>5 DEF Cached, Entry
  <2> QED
    BY <1>1, <1>7, <2>1 DEF LastOK, RestOK
<1>12. Len(tx) <= Len(t) /\ replaced \in BOOLEAN
  BY <1>1, <1>2, <1>8 DEF TablesOK
<1> QED
  BY <1>7, <1>8, <1>9, <1>10, <1>11, <1>12 DEF TxStep

LEMMA HeartbeatIsTxStep ==
  ASSUME ActivityInv, NEW b \in Bucket, NEW hb \in Beat[b], Heartbeat(b, hb)
  PROVE  \E t : TxStep(t)
<1>1. UNCHANGED <<rest, replaced>>
  BY DEF Heartbeat
<1>2. CASE LastEvent(b) = {} /\ Write(Append(tx, Row(b, hb))) /\ UNCHANGED last
  BY <1>1, <1>2, BeatAppended
<1>3. ASSUME NEW l \in LastEvent(b),
             Write(Append(tx, Row(b, hb))),
             Remember(b, Cached(Len(tx) + 1, Row(b, hb)))
      PROVE  \E t : TxStep(t)
  BY <1>1, <1>3, BeatAppended
<1>4. ASSUME NEW l \in LastEvent(b), l.id \in Rows(tx, b),
             Write(Replace(tx, b, l.id, [l.row EXCEPT !.e = Later(@, hb.e)])),
             Remember(b, Cached(l.id, [l.row EXCEPT !.e = Later(@, hb.e)]))
      PROVE  \E t : TxStep(t)
  <2> DEFINE merged == [l.row EXCEPT !.e = Later(@, hb.e)]
  <2>1. /\ Write(Replace(tx, b, l.id, merged))
        /\ Remember(b, Cached(l.id, merged))
        /\ merged = [l.row EXCEPT !.e = Later(@, hb.e)]
    BY <1>4
  <2> HIDE DEF merged
  <2> QED
    BY <1>1, <1>4, <2>1, BeatMerged
<1>5. ASSUME Write(tx), Remember(b, None) PROVE \E t : TxStep(t)
  <2>1. TablesOK /\ LastOK /\ RestOK
    BY DEF ActivityInv
  <2>2. /\ open /\ tx' = tx /\ last' = [last EXCEPT ![b] = None]
        /\ UNCHANGED <<file, open, sync, peer, rest, replaced>>
    BY <1>1, <1>5 DEF Write, Remember
  <2>3. LastOK' /\ RestOK'
    BY <2>1, <2>2 DEF LastOK, RestOK
  <2>4. Faithful => CacheFits(tx, last')
    BY <2>1, <2>2 DEF Faithful, CacheFits, LastOK
  <2>5. tx \in Seq(StoredEvent) /\ Len(tx) <= MaxRows /\ Len(tx) <= Len(tx)
        /\ replaced \in BOOLEAN
    BY <2>1, AtomsOfActivity DEF TablesOK
  <2>6. TxStep(tx)
    BY <2>2, <2>3, <2>4, <2>5 DEF TxStep
  <2> QED
    BY <2>6
<1> QED
  BY <1>2, <1>3, <1>4, <1>5 DEF Heartbeat

LEMMA ImportInsertKeepsInv ==
  ASSUME ActivityInv, ImportInsert
  PROVE  ActivityInv'
<1>1. TablesOK /\ LastOK /\ RestOK /\ SyncOK /\ PeerOK
  BY DEF ActivityInv
<1>2. /\ rest.bucket \in Bucket /\ rest.events \in Seq(FileEvent)
      /\ rest' = Idle
      /\ replaced' = (replaced \/ \E k \in DOMAIN rest.events : rest.events[k].id \in DOMAIN tx)
  BY <1>1 DEF ImportInsert, RestOK
<1>3. RestOK' /\ replaced' \in BOOLEAN
  BY <1>1, <1>2 DEF RestOK, TablesOK
<1>4. ASSUME rest.events # <<>>, Write(PutEvents(tx, rest.bucket, rest.events)),
             last' = [last EXCEPT ![rest.bucket] = None]
      PROVE  ActivityInv'
  <2> DEFINE b == rest.bucket
             evs == rest.events
             t == PutEvents(tx, b, evs)
  <2>1. tx \in Seq(StoredEvent) /\ b \in Bucket /\ evs \in Seq(FileEvent)
    BY <1>1, <1>2 DEF TablesOK
  <2>2. /\ open /\ tx' = t /\ Len(t) <= MaxRows /\ last' = [last EXCEPT ![b] = None]
        /\ UNCHANGED <<file, open, sync, peer>>
    BY <1>4 DEF Write
  <2>3. /\ replaced => replaced'
        /\ ~replaced' => \A k \in DOMAIN evs : evs[k].id \notin DOMAIN tx
    BY <1>2
  <2> HIDE DEF b, evs
  <2>4. /\ t \in Seq(StoredEvent) /\ Len(tx) <= Len(t)
        /\ ~replaced' => Begins(tx, t)
    BY <2>1, <2>3, PutEventsKeeps
  <2> HIDE DEF t
  <2>5. ASSUME ~replaced', Faithful
        PROVE  Recorded(tx) \subseteq Recorded(t) /\ CacheFits(t, last')
    <3>1. Recorded(tx) \subseteq Recorded(t) /\ CacheFits(t, last)
      BY <2>1, <2>4, <2>5, RecordedGrows, CacheFitsLonger DEF Faithful
    <3> QED
      BY <1>1, <2>2, <3>1 DEF CacheFits, LastOK
  <2>6. LastOK'
    BY <1>1, <2>2 DEF LastOK
  <2>7. TxStep(t)
    BY <1>3, <2>2, <2>3, <2>4, <2>5, <2>6 DEF TxStep
  <2> QED
    BY <2>7, TxStepKeepsInv
<1>5. ASSUME rest.events = <<>>, UNCHANGED <<file, tx, open, last, sync, peer>>
      PROVE  ActivityInv'
  <2>1. TablesOK' /\ LastOK' /\ SyncOK' /\ PeerOK'
    BY <1>1, <1>3, <1>5 DEF TablesOK, LastOK, SyncOK, PeerOK
  <2>2. ~replaced' => Faithful
    BY <1>2 DEF ActivityInv
  <2>3. Faithful => Faithful'
    BY <1>5 DEF Faithful, CacheFits, TablesFollow, SnapshotCovered
  <2> QED
    BY <1>3, <2>1, <2>2, <2>3 DEF ActivityInv
<1> QED
  BY <1>4, <1>5 DEF ImportInsert

(***************************************************************************)
(* The transaction, the crash, and the merge.                              *)
(***************************************************************************)
LEMMA BeginKeepsInv ==
  ASSUME ActivityInv, Begin
  PROVE  ActivityInv'
<1>1. TablesOK /\ LastOK /\ RestOK /\ SyncOK /\ PeerOK
  BY DEF ActivityInv
<1>2. ~open /\ open' = TRUE /\ tx' = file /\ UNCHANGED <<file, last, sync, rest, peer, replaced>>
  BY DEF Begin
<1>3. TablesOK' /\ LastOK' /\ RestOK' /\ SyncOK' /\ PeerOK'
  BY <1>1, <1>2, AtomsOfActivity DEF TablesOK, LastOK, RestOK, SyncOK, PeerOK
<1>4. ASSUME Faithful PROVE Faithful'
  <2>1. Begins(tx, file) /\ CacheFits(tx, last)
    BY <1>2, <1>4 DEF Faithful, TablesFollow
  <2>2. CacheFits(file, last)
    BY <1>1, <2>1, CacheFitsLonger DEF TablesOK
  <2>3. SnapshotCovered'
    BY <1>2, <1>4 DEF Faithful, SnapshotCovered
  <2>4. TablesFollow'
    BY <1>2 DEF TablesFollow
  <2> QED
    BY <1>2, <2>2, <2>3, <2>4 DEF Faithful
<1> QED
  BY <1>2, <1>3, <1>4 DEF ActivityInv

LEMMA CommitKeepsInv ==
  ASSUME ActivityInv, Commit
  PROVE  ActivityInv'
<1>1. TablesOK /\ LastOK /\ RestOK /\ SyncOK /\ PeerOK
  BY DEF ActivityInv
<1>2. open /\ open' = FALSE /\ file' = tx /\ UNCHANGED <<tx, last, sync, rest, peer, replaced>>
  BY DEF Commit
<1>3. TablesOK' /\ LastOK' /\ RestOK' /\ SyncOK' /\ PeerOK'
  BY <1>1, <1>2 DEF TablesOK, LastOK, RestOK, SyncOK, PeerOK
<1>4. ASSUME Faithful PROVE Faithful'
  <2>1. CacheFits(tx, last) /\ SnapshotCovered /\ Recorded(file) \subseteq Recorded(tx)
    BY <1>2, <1>4 DEF Faithful, TablesFollow
  <2>2. Begins(tx, tx)
    BY <1>1, AtomsOfActivity DEF Begins
  <2>3. SnapshotCovered'
    BY <1>2, <2>1 DEF SnapshotCovered
  <2>4. TablesFollow'
    BY <1>2, <2>2 DEF TablesFollow
  <2> QED
    BY <1>2, <2>1, <2>3, <2>4 DEF Faithful
<1> QED
  BY <1>2, <1>3, <1>4 DEF ActivityInv

LEMMA CrashKeepsInv ==
  ASSUME ActivityInv, Crash
  PROVE  ActivityInv'
<1>1. TablesOK /\ PeerOK
  BY DEF ActivityInv
<1>2. /\ tx' = file /\ open' = FALSE /\ last' = [b \in Bucket |-> None]
      /\ sync' = Idle /\ rest' = Idle
      /\ UNCHANGED <<file, peer, replaced>>
  BY DEF Crash
<1>3. TablesOK' /\ LastOK' /\ RestOK' /\ SyncOK' /\ PeerOK'
  BY <1>1, <1>2 DEF TablesOK, LastOK, RestOK, SyncOK, PeerOK
<1>4. Begins(file, file)
  BY <1>1, AtomsOfActivity DEF Begins
<1>5. Faithful'
  BY <1>2, <1>4 DEF Faithful, CacheFits, TablesFollow, SnapshotCovered
<1> QED
  BY <1>3, <1>5 DEF ActivityInv

LEMMA ImportReadKeepsInv ==
  ASSUME ActivityInv, NEW up \in Upload, ImportRead(up)
  PROVE  ActivityInv'
<1>1. TablesOK /\ LastOK /\ SyncOK /\ PeerOK
  BY DEF ActivityInv
<1>2. PICK K \in SUBSET DOMAIN up.events :
         rest' = [kind |-> "read", bucket |-> up.bucket, events |-> Subsequence(up.events, K)]
  BY DEF ImportRead
<1>3. UNCHANGED <<file, tx, open, last, sync, peer, replaced>>
  BY DEF ImportRead
<1>4. up.bucket \in Bucket /\ up.events \in Seq(FileEvent)
  BY ActivityAssumption
<1>5. Subsequence(up.events, K) \in Seq(FileEvent)
  BY <1>4, SubsequenceElements
<1>6. RestOK'
  BY <1>2, <1>4, <1>5 DEF RestOK
<1>7. TablesOK' /\ LastOK' /\ SyncOK' /\ PeerOK'
  BY <1>1, <1>3 DEF TablesOK, LastOK, SyncOK, PeerOK
<1>8. Faithful => Faithful'
  BY <1>3 DEF Faithful, CacheFits, TablesFollow, SnapshotCovered
<1> QED
  BY <1>3, <1>6, <1>7, <1>8 DEF ActivityInv

LEMMA ExportKeepsInv ==
  ASSUME ActivityInv, Export
  PROVE  ActivityInv'
<1>1. TablesOK /\ LastOK /\ RestOK /\ SyncOK /\ PeerOK
  BY DEF ActivityInv
<1>2. PICK news \in SUBSET ToSet(file) : peer' = peer \cup news
  BY DEF Export
<1>3. UNCHANGED <<file, tx, open, last, sync, rest, replaced>>
  BY DEF Export
<1>4. ToSet(file) \subseteq StoredEvent /\ IsFiniteSet(ToSet(file))
  <2>1. file \in Seq(StoredEvent)
    BY <1>1 DEF TablesOK
  <2>2. /\ IsFiniteSet(DOMAIN file) /\ \A i \in DOMAIN file : file[i] \in StoredEvent
    BY <2>1, Positions
  <2>3. file \in [DOMAIN file -> ToSet(file)]
        /\ \A v \in ToSet(file) : \E i \in DOMAIN file : file[i] = v
    BY <2>1 DEF ToSet
  <2>4. file \in Surjection(DOMAIN file, ToSet(file))
    BY <2>3 DEF Surjection
  <2>5. IsFiniteSet(ToSet(file))
    BY <2>2, <2>4, FS_Surjection
  <2> QED
    BY <2>2, <2>5 DEF ToSet
<1>5. PeerOK'
  <2>1. IsFiniteSet(news) /\ news \subseteq StoredEvent
    BY <1>4, FS_Subset
  <2>2. IsFiniteSet(peer \cup news)
    BY <1>1, <2>1, FS_Union DEF PeerOK
  <2> QED
    BY <1>1, <1>2, <2>1, <2>2 DEF PeerOK
<1>6. TablesOK' /\ LastOK' /\ RestOK' /\ SyncOK'
  BY <1>1, <1>3 DEF TablesOK, LastOK, RestOK, SyncOK
<1>7. Faithful => Faithful'
  BY <1>3 DEF Faithful, CacheFits, TablesFollow, SnapshotCovered
<1> QED
  BY <1>3, <1>5, <1>6, <1>7 DEF ActivityInv

LEMMA SyncReadKeepsInv ==
  ASSUME ActivityInv, SyncRead
  PROVE  ActivityInv'
<1> DEFINE news == {r \in peer : Fingerprint(r) \notin Fingerprints(ToSet(file))}
<1>1. TablesOK /\ LastOK /\ RestOK /\ PeerOK
  BY DEF ActivityInv
<1>2. /\ sync' = [kind |-> "read", snap |-> peer, news |-> news]
      /\ UNCHANGED <<file, tx, open, last, rest, peer, replaced>>
  BY DEF SyncRead
<1>3. IsFiniteSet(news) /\ news \subseteq peer /\ peer \subseteq StoredEvent
  BY <1>1, FS_Subset DEF PeerOK
<1>4. ASSUME NEW r \in peer, r \notin news
      PROVE  TimeOfRow(r) \subseteq Recorded(file)
  <2>1. PICK i \in DOMAIN file : file[i] = r
    BY <1>4 DEF Fingerprint, Fingerprints, ToSet
  <2> QED
    BY <2>1, RecordedHas
<1> HIDE DEF news
<1>5. SyncOK'
  BY <1>2, <1>3 DEF SyncOK
<1>6. SnapshotCovered'
  BY <1>2, <1>4 DEF SnapshotCovered
<1>7. TablesOK' /\ LastOK' /\ RestOK' /\ PeerOK'
  BY <1>1, <1>2 DEF TablesOK, LastOK, RestOK, PeerOK
<1>8. Faithful => Faithful'
  BY <1>2, <1>6 DEF Faithful, CacheFits, TablesFollow
<1> QED
  BY <1>2, <1>5, <1>7, <1>8 DEF ActivityInv

\* The merge appends: every row that was new to it is in the file afterwards.
LEMMA SyncWriteAppends ==
  ASSUME ActivityInv, SyncWrite
  PROVE  /\ file' \in Seq(StoredEvent) /\ Len(file') <= MaxRows /\ Begins(file, file')
         /\ \A r \in sync.news : \E i \in DOMAIN file' : file'[i] = r
<1>1. PICK news \in SetToSeqs(sync.news) :
         Len(file) + Len(news) <= MaxRows /\ file' = file \o news
  BY DEF SyncWrite
<1>2. file \in Seq(StoredEvent) /\ sync # Idle
  BY DEF ActivityInv, TablesOK, SyncWrite
<1>3. sync.news \subseteq StoredEvent /\ IsFiniteSet(sync.news)
  BY <1>2 DEF ActivityInv, SyncOK
<1> DEFINE S == sync.news
           D == 1..Cardinality(S)
<1>4. /\ Cardinality(S) \in Nat
      /\ news \in [D -> S] /\ \A i, j \in D : i # j => news[i] # news[j]
  BY <1>3, FS_CardinalityType DEF SetToSeqs
<1>5. IsFiniteSet(D) /\ Cardinality(D) = Cardinality(S)
  BY <1>4, FS_Interval
<1>6. ASSUME NEW r \in S PROVE \E i \in D : news[i] = r
  <2>1. news \in Injection(D, S)
    BY <1>4 DEF Injection, IsInjective
  <2>2. news \in Surjection(D, S)
    <3>1. IsFiniteSet(S) /\ Cardinality(D) = Cardinality(S)
      BY <1>3, <1>5
    <3> HIDE DEF S, D
    <3> QED
      BY <2>1, <3>1, FS_Injection
  <2> QED
    BY <2>2, <1>6 DEF Surjection
<1>7. news \in Seq(StoredEvent) /\ DOMAIN news = D
  <2>1. news \in [D -> StoredEvent]
    BY <1>3, <1>4
  <2> QED
    BY <1>4, <2>1, SegmentIsSeq
<1> HIDE DEF S, D
<1>8. /\ file \o news \in Seq(StoredEvent) /\ Len(file \o news) = Len(file) + Len(news)
      /\ Begins(file, file \o news)
      /\ \A i \in DOMAIN news : Len(file) + i \in DOMAIN (file \o news)
                                /\ (file \o news)[Len(file) + i] = news[i]
  BY <1>2, <1>7, AppendedBegins
<1>9. \A r \in S : \E i \in DOMAIN file' : file'[i] = r
  BY <1>1, <1>6, <1>7, <1>8
<1> QED
  BY <1>1, <1>8, <1>9 DEF S

LEMMA SyncWriteKeepsInv ==
  ASSUME ActivityInv, SyncWrite
  PROVE  ActivityInv'
<1>1. TablesOK /\ LastOK /\ RestOK /\ PeerOK
  BY DEF ActivityInv
<1>2. ~open /\ sync' = Idle /\ UNCHANGED <<tx, open, last, rest, peer, replaced>>
  BY DEF SyncWrite
<1>3. file' \in Seq(StoredEvent) /\ Len(file') <= MaxRows /\ Begins(file, file')
  BY SyncWriteAppends
<1>4. TablesOK' /\ LastOK' /\ RestOK' /\ SyncOK' /\ PeerOK'
  BY <1>1, <1>2, <1>3 DEF TablesOK, LastOK, RestOK, SyncOK, PeerOK
<1>5. ASSUME Faithful PROVE Faithful'
  <2>1. CacheFits(tx, last) /\ Begins(tx, file)
    BY <1>2, <1>5 DEF Faithful, TablesFollow
  <2>2. Begins(tx, file')
    BY <1>1, <1>3, <2>1, BeginsIsTransitive DEF TablesOK
  <2> QED
    BY <1>2, <2>1, <2>2 DEF Faithful, TablesFollow, SnapshotCovered
<1> QED
  BY <1>2, <1>4, <1>5 DEF ActivityInv

LEMMA SyncFailsKeepsInv ==
  ASSUME ActivityInv, SyncFails
  PROVE  ActivityInv'
<1>1. TablesOK /\ LastOK /\ RestOK /\ PeerOK
  BY DEF ActivityInv
<1>2. sync' = Idle /\ UNCHANGED <<file, tx, open, last, rest, peer, replaced>>
  BY DEF SyncFails
<1>3. TablesOK' /\ LastOK' /\ RestOK' /\ SyncOK' /\ PeerOK'
  BY <1>1, <1>2 DEF TablesOK, LastOK, RestOK, SyncOK, PeerOK
<1>4. Faithful => Faithful'
  BY <1>2 DEF Faithful, CacheFits, TablesFollow, SnapshotCovered
<1> QED
  BY <1>2, <1>3, <1>4 DEF ActivityInv

(***************************************************************************)
(* The theorems.                                                           *)
(***************************************************************************)
LEMMA InitActivityInv == Init => ActivityInv
<1> SUFFICES ASSUME Init PROVE ActivityInv
  OBVIOUS
<1>1. TablesOK /\ LastOK /\ SyncOK /\ RestOK /\ PeerOK
  <2>1. /\ <<>> \in Seq(StoredEvent) /\ Len(<<>>) = 0 /\ 0 <= MaxRows
        /\ Foreign \subseteq StoredEvent /\ IsFiniteSet(Foreign)
    BY ActivityAssumption
  <2>2. /\ file = <<>> /\ tx = <<>> /\ open = FALSE /\ replaced = FALSE
        /\ last = [b \in Bucket |-> None] /\ sync = Idle /\ rest = Idle /\ peer = Foreign
    BY DEF Init
  <2>3. TablesOK
    BY <2>1, <2>2 DEF TablesOK
  <2> QED
    BY <2>1, <2>2, <2>3 DEF LastOK, SyncOK, RestOK, PeerOK
<1>2. Faithful
  BY DEF Init, Faithful, CacheFits, TablesFollow, SnapshotCovered, Begins
<1> QED
  BY <1>1, <1>2 DEF ActivityInv

LEMMA StutterKeepsActivityInv ==
  ASSUME ActivityInv, UNCHANGED vars
  PROVE  ActivityInv'
BY DEF vars, ActivityInv, TablesOK, LastOK, SyncOK, RestOK, PeerOK,
       Faithful, CacheFits, TablesFollow, SnapshotCovered

LEMMA NextKeepsActivityInv ==
  ASSUME ActivityInv, [Next]_vars
  PROVE  ActivityInv'
<1>1. ASSUME NEW b \in Bucket, NEW batch \in Batch[b], InsertEvents(b, batch)
      PROVE  ActivityInv'
  BY <1>1, InsertEventsIsTxStep, TxStepKeepsInv
<1>2. ASSUME NEW b \in Bucket, NEW hb \in Beat[b], Heartbeat(b, hb)
      PROVE  ActivityInv'
  BY <1>2, HeartbeatIsTxStep, TxStepKeepsInv
<1> QED
  BY <1>1, <1>2, BeginKeepsInv, CommitKeepsInv, CrashKeepsInv, ImportReadKeepsInv,
     ImportInsertKeepsInv, ExportKeepsInv, SyncReadKeepsInv, SyncWriteKeepsInv,
     SyncFailsKeepsInv, StutterKeepsActivityInv DEF Next

\* In every behaviour the tables, the cache of heartbeats and the snapshot that is
\* being merged belong together.
THEOREM ActivityInvariance == Spec => []ActivityInv
<1>1. ActivityInv /\ [Next]_vars => ActivityInv'
  BY NextKeepsActivityInv
<1> QED
  BY <1>1, InitActivityInv, PTL DEF Spec

LEMMA InvGivesStoreTypeOK == ActivityInv => StoreTypeOK
<1> SUFFICES ASSUME ActivityInv PROVE StoreTypeOK
  OBVIOUS
<1>1. TablesOK /\ (~replaced => Faithful)
  BY DEF ActivityInv
<1>2. \A t \in {file, tx} : \A i \in DOMAIN t : t[i].b \in Bucket /\ t[i].s <= t[i].e
  BY <1>1, AtomsOfActivity DEF StoredEvent
<1>3. ~replaced => CacheFits(tx, last)
  BY <1>1 DEF Faithful
<1> QED
  BY <1>1, <1>2, <1>3 DEF StoreTypeOK, TablesOK, CacheFits

\* Rows belong to known buckets and end after they start; the open transaction
\* has no row less than the file; and as long as no import has replaced a row by
\* its id, a cached heartbeat is the row it names.
THEOREM StoreTypeCorrectness == Spec => []StoreTypeOK
<1> QED
  BY ActivityInvariance, InvGivesStoreTypeOK, PTL

\* No step takes recorded time from the file.
LEMMA StepKeepsRecord ==
  ASSUME ActivityInv, [Next]_vars
  PROVE  replaced' \/ Recorded(file) \subseteq Recorded(file')
<1>1. CASE file' = file
  BY <1>1
<1>2. CASE Commit
  <2>1. open /\ file' = tx /\ replaced' = replaced
    BY <1>2 DEF Commit
  <2>2. ~replaced => Recorded(file) \subseteq Recorded(tx)
    BY <2>1 DEF ActivityInv, Faithful, TablesFollow
  <2> QED
    BY <2>1, <2>2
<1>3. CASE SyncWrite
  <2>1. file \in Seq(StoredEvent)
    BY DEF ActivityInv, TablesOK
  <2>2. file' \in Seq(StoredEvent) /\ Begins(file, file')
    BY <1>3, SyncWriteAppends
  <2> QED
    BY <2>1, <2>2, RecordedGrows
<1>4. ASSUME NEW b \in Bucket, NEW batch \in Batch[b], InsertEvents(b, batch)
      PROVE  file' = file
  BY <1>4 DEF InsertEvents, Write
<1>5. ASSUME NEW b \in Bucket, NEW hb \in Beat[b], Heartbeat(b, hb)
      PROVE  file' = file
  BY <1>5 DEF Heartbeat, Write
<1>6. Begin \/ Crash \/ ImportInsert \/ Export \/ SyncRead \/ SyncFails => file' = file
  BY DEF Begin, Crash, ImportInsert, Write, Export, SyncRead, SyncFails
<1>7. ASSUME NEW up \in Upload, ImportRead(up) PROVE file' = file
  BY <1>7 DEF ImportRead
<1>8. UNCHANGED vars => file' = file
  BY DEF vars
<1> QED
  BY <1>1, <1>2, <1>3, <1>4, <1>5, <1>6, <1>7, <1>8 DEF Next

\* "The merge appends and never overwrites": neither does a heartbeat, a crash, an
\* import without explicit ids, or a commit take committed time from the file.
THEOREM RecordedTimeIsKept == Spec => RecordedTimeStays
<1>1. ActivityInv /\ [Next]_vars
         => [replaced' \/ Recorded(file) \subseteq Recorded(file')]_vars
  BY StepKeepsRecord
<1> QED
  BY <1>1, ActivityInvariance, PTL DEF Spec, RecordedTimeStays

\* What the peer had when its rows were read is recorded when they are written.
LEMMA MergeRecordsSnapshot ==
  ASSUME ActivityInv, SyncWrite, ~replaced, NEW r \in sync.snap
  PROVE  TimeOfRow(r) \subseteq Recorded(file')
<1>1. file \in Seq(StoredEvent) /\ sync # Idle
  BY DEF ActivityInv, TablesOK, SyncWrite
<1>2. r \in sync.news \/ TimeOfRow(r) \subseteq Recorded(file)
  BY <1>1 DEF ActivityInv, Faithful, SnapshotCovered
<1>3. /\ file' \in Seq(StoredEvent) /\ Begins(file, file')
      /\ \A v \in sync.news : \E i \in DOMAIN file' : file'[i] = v
  BY SyncWriteAppends
<1>4. Recorded(file) \subseteq Recorded(file')
  BY <1>1, <1>3, RecordedGrows
<1>5. r \in sync.news => TimeOfRow(r) \subseteq Recorded(file')
  BY <1>3, RecordedHas
<1> QED
  BY <1>2, <1>4, <1>5

\* A merged snapshot is recorded in full, although the rows that are there were
\* read before the lock and heartbeats went on in between.
THEOREM MergesAreComplete == Spec => MergeTakesEverything
<1> DEFINE Takes == SyncWrite /\ ~replaced =>
                       \A r \in sync.snap : {<<r.b, r.d>>} \X Span(r) \subseteq Recorded(file')
<1>1. ActivityInv => Takes
  BY MergeRecordsSnapshot DEF TimeOfRow
<1>2. ActivityInv /\ [Next]_vars => [Takes]_vars
  BY <1>1
<1> QED
  BY <1>2, ActivityInvariance, PTL DEF Spec, MergeTakesEverything

(***************************************************************************)
(* What a query makes of the table.                                        *)
(***************************************************************************)
\* get_events gives events, one for each row of the bucket.
LEMMA ReadGivesEvents ==
  ASSUME ActivityInv, NEW b, NEW upwards \in BOOLEAN
  PROVE  Read(b, upwards) \in Seq(Events(Datum))
<1> DEFINE K == Rows(tx, b)
           n == Cardinality(K)
           Sooner(i, j) == \/ tx[i].s > tx[j].s
                           \/ tx[i].s = tx[j].s /\ IF upwards THEN i < j ELSE j < i
           upto == [i \in K |-> {j \in K : j = i \/ Sooner(j, i)}]
           order == InOrder(K, Sooner)
           t == [k \in DOMAIN order |-> [s |-> tx[order[k]].s, e |-> tx[order[k]].e,
                                         d |-> tx[order[k]].d]]
<1>1. Read(b, upwards) = t
  BY DEF Read
<1>2. /\ K \in SUBSET DOMAIN tx /\ IsFiniteSet(K)
      /\ \A i \in K : i \in Nat /\ tx[i] \in StoredEvent
  <2>1. tx \in Seq(StoredEvent)
    BY DEF ActivityInv, TablesOK
  <2>2. /\ DOMAIN tx \in SUBSET Nat /\ IsFiniteSet(DOMAIN tx)
        /\ \A i \in DOMAIN tx : tx[i] \in StoredEvent
    BY <2>1, Positions
  <2>3. K \in SUBSET DOMAIN tx
    BY DEF Rows
  <2> HIDE DEF K
  <2> QED
    BY <2>2, <2>3, FS_Subset
<1>3. \A i \in K : tx[i].s \in Nat /\ tx[i].e \in Nat /\ tx[i].d \in Datum /\ tx[i].s <= tx[i].e
  BY <1>2 DEF StoredEvent
<1>4. order = [k \in 1..n |-> CHOOSE i \in K : Cardinality({j \in K : j = i \/ Sooner(j, i)}) = k]
  BY DEF InOrder
<1> HIDE DEF K
<1>5. /\ upto \in [K -> SUBSET K]
      /\ \A i \in K : i \in upto[i]
      /\ \A i, j \in K : i # j => (i \in upto[j] <=> j \notin upto[i])
      /\ \A i, j, m \in K : i \in upto[j] /\ j \in upto[m] => i \in upto[m]
  <2>1. upto \in [K -> SUBSET K] /\ \A i \in K : i \in upto[i]
    OBVIOUS
  <2>2. CASE upwards = TRUE
    <3>1. \A i, j \in K : i # j => (i \in upto[j] <=> j \notin upto[i])
      BY <1>2, <1>3, <2>2
    <3>2. \A i, j, m \in K : i \in upto[j] /\ j \in upto[m] => i \in upto[m]
      BY <1>2, <1>3, <2>2
    <3> QED
      BY <2>1, <3>1, <3>2
  <2>3. CASE upwards = FALSE
    <3>1. \A i, j \in K : i # j => (i \in upto[j] <=> j \notin upto[i])
      BY <1>2, <1>3, <2>3
    <3>2. \A i, j, m \in K : i \in upto[j] /\ j \in upto[m] => i \in upto[m]
      BY <1>2, <1>3, <2>3
    <3> QED
      BY <2>1, <3>1, <3>2
  <2> QED
    BY <2>2, <2>3
<1>6. \A i \in K : upto[i] = {j \in K : j = i \/ Sooner(j, i)}
  OBVIOUS
<1> HIDE DEF upto, Sooner, order
<1>7. n \in Nat /\ \A k \in 1..n : \E i \in K : Cardinality(upto[i]) = k
  BY <1>2, <1>5, RanksOfOrder
<1>8. \A k \in 1..n : order[k] \in K
  <2> TAKE k \in 1..n
  <2>1. PICK i \in K : Cardinality(upto[i]) = k
    BY <1>7
  <2>2. Cardinality({j \in K : j = i \/ Sooner(j, i)}) = k
    BY <1>6, <2>1
  <2> QED
    BY <1>4, <2>2
<1>9. DOMAIN order = 1..n
  BY <1>4
<1> HIDE DEF n
<1>10. \A k \in 1..n : [s |-> tx[order[k]].s, e |-> tx[order[k]].e, d |-> tx[order[k]].d]
                          \in Events(Datum)
  <2> TAKE k \in 1..n
  <2> DEFINE r == tx[order[k]]
  <2>1. r.s \in Int /\ r.e \in Int /\ r.d \in Datum /\ r.s <= r.e
    BY <1>3, <1>8
  <2> HIDE DEF r
  <2>2. [s |-> r.s, e |-> r.e, d |-> r.d] \in Events(Datum)
    BY <2>1, IsEvent
  <2> QED
    BY <2>2 DEF r
<1>11. t \in [1..n -> Events(Datum)]
  BY <1>9, <1>10
<1> HIDE DEF t
<1>12. t \in Seq(Events(Datum))
  BY <1>7, <1>11, SegmentIsSeq
<1> QED
  BY <1>1, <1>12

LEMMA InvGivesFloodFillsGaps == ActivityInv => FloodFillsGaps
<1> SUFFICES ASSUME ActivityInv, NEW upwards \in BOOLEAN
             PROVE  LET in == Read("window", upwards)
                        out == Flood(in, FloodPulse)
                    IN  /\ Timed(in) \subseteq Timed(out)
                        /\ \A x \in Timed(out) \ Timed(in) :
                              \E k, n \in DOMAIN in :
                                 /\ in[k].e <= x[2] /\ x[2] < in[n].s
                                 /\ in[n].s - in[k].e < FloodPulse
                                 /\ x[1] \in {in[k].d, in[n].d}
                        /\ \A k \in 1..(Len(out) - 1) :
                              LET gap == out[k + 1].s - out[k].e
                              IN  gap <= 1 \/ gap >= FloodPulse
  BY DEF FloodFillsGaps
<1> DEFINE in == Read("window", upwards)
           out == Flood(in, FloodPulse)
<1>1. in \in Seq(Events(Datum)) /\ FloodPulse \in Int
  BY ReadGivesEvents, ActivityAssumption
<1> HIDE DEF in
<1>2. /\ Timed(in) \subseteq Timed(out)
      /\ \A x \in Timed(out) : Explained(in, FloodPulse, x[1], x[2])
      /\ \A k \in 1..(Len(out) - 1) : GapClosed(out[k], out[k + 1], FloodPulse)
  BY <1>1, FloodFills
<1> HIDE DEF out
<1>3. ASSUME NEW x \in Timed(out) \ Timed(in)
      PROVE  \E k, n \in DOMAIN in : /\ in[k].e <= x[2] /\ x[2] < in[n].s
                                     /\ in[n].s - in[k].e < FloodPulse
                                     /\ x[1] \in {in[k].d, in[n].d}
  <2>1. x = <<x[1], x[2]>>
    BY TimedHas
  <2>2. ~ \E j \in DOMAIN in : x[1] = in[j].d /\ x[2] \in Span(in[j])
    BY <2>1, TimedHas
  <2>3. Explained(in, FloodPulse, x[1], x[2])
    BY <1>2
  <2> QED
    BY <2>2, <2>3 DEF Explained
<1>4. \A k \in 1..(Len(out) - 1) : out[k + 1].s - out[k].e <= 1 \/ out[k + 1].s - out[k].e >= FloodPulse
  BY <1>2 DEF GapClosed
<1> QED
  BY <1>2, <1>3, <1>4 DEF in, out

\* flood takes no time away, adds only to the neighbours of short gaps and leaves
\* none, whatever events there are and however they overlap.
THEOREM FloodIsFaithful == Spec => []FloodFillsGaps
BY InvGivesFloodFillsGaps, ActivityInvariance, PTL

\* An event of the first list overlaps at most one of the second, if it cuts no
\* more than one.
LEMMA CutsOne ==
  ASSUME NEW D, NEW l1 \in Seq(Events(D)), NEW l2 \in Seq(Events(D)), NEW k,
         ~(Cardinality({n \in DOMAIN l2 : Intersects(l1[k], l2[n])}) > 1)
  PROVE  \A n, m \in DOMAIN l2 :
            Intersects(l1[k], l2[n]) /\ Intersects(l1[k], l2[m]) => n = m
<1> SUFFICES ASSUME NEW n \in DOMAIN l2, NEW m \in DOMAIN l2, n # m,
                    Intersects(l1[k], l2[n]), Intersects(l1[k], l2[m])
             PROVE  FALSE
  OBVIOUS
<1> DEFINE cut == {j \in DOMAIN l2 : Intersects(l1[k], l2[j])}
           two == {n, m}
<1>1. n \in cut /\ m \in cut /\ cut \in SUBSET DOMAIN l2 /\ ~(Cardinality(cut) > 1)
  OBVIOUS
<1>2. IsFiniteSet(cut)
  <2>1. IsFiniteSet(DOMAIN l2)
    BY Positions
  <2> HIDE DEF cut
  <2> QED
    BY <1>1, <2>1, FS_Subset
<1>3. two \in SUBSET cut /\ IsFiniteSet(two) /\ Cardinality(two) = 2
  <2>1. two \in SUBSET cut
    BY <1>1
  <2>2. Cardinality({n}) = 1 /\ IsFiniteSet({n})
    BY FS_Singleton
  <2>3. IsFiniteSet({n} \cup {m}) /\ Cardinality({n} \cup {m}) = 1 + 1
    BY <2>2, FS_AddElement
  <2>4. {n} \cup {m} = two /\ 1 + 1 = 2
    OBVIOUS
  <2> QED
    BY <2>1, <2>3, <2>4
<1> HIDE DEF cut, two
<1>4. Cardinality(two) <= Cardinality(cut)
  BY <1>2, <1>3, FS_Subset
<1>5. Cardinality(cut) \in Nat
  BY <1>2, FS_CardinalityType
<1> QED
  BY <1>1, <1>3, <1>4, <1>5

LEMMA InvGivesUnionKeepsPrecedence == ActivityInv => UnionKeepsPrecedence
<1> SUFFICES ASSUME ActivityInv, NEW upwards \in BOOLEAN
             PROVE  LET l1 == SortByTimestamp(Read("window", upwards))
                        l2 == SortByTimestamp(Read("afk", upwards))
                        out == UnionNoOverlap(l1, l2)
                        cut(k) == {n \in DOMAIN l2 : Intersects(l1[k], l2[n])}
                        instantIn(p, q) == p.s = p.e /\ q.s <= p.s /\ p.s < q.e
                        exception == \E k \in DOMAIN l1 :
                                        \/ Cardinality(cut(k)) > 1
                                        \/ \E n \in DOMAIN l2 : \/ instantIn(l1[k], l2[n])
                                                                \/ instantIn(l2[n], l1[k])
                    IN  /\ TimeOf(out) = TimeOf(l1) \cup TimeOf(l2)
                        /\ Timed(l1) \subseteq Timed(out)
                        /\ (Disjoint(l1) /\ Disjoint(l2) /\ ~exception) => Disjoint(out)
  BY DEF UnionKeepsPrecedence
<1> DEFINE l1 == SortByTimestamp(Read("window", upwards))
           l2 == SortByTimestamp(Read("afk", upwards))
           out == UnionNoOverlap(l1, l2)
<1>1. /\ l1 \in Seq(Events(Datum)) /\ l2 \in Seq(Events(Datum))
      /\ Ordered(l1) /\ Ordered(l2)
  <2>1. /\ Read("window", upwards) \in Seq(Events(Datum))
        /\ Read("afk", upwards) \in Seq(Events(Datum))
    BY ReadGivesEvents
  <2> QED
    BY <2>1, SortKeeps
<1> HIDE DEF l1, l2
<1>2. /\ TimeOf(out) = TimeOf(l1) \cup TimeOf(l2)
      /\ Timed(l1) \subseteq Timed(out)
      /\ Plain(l1, l2) => Disjoint(out)
  BY <1>1, UnionKeeps
<1> HIDE DEF out
<1>3. ASSUME Disjoint(l1), Disjoint(l2),
             \A k \in DOMAIN l1 : ~(Cardinality({n \in DOMAIN l2 : Intersects(l1[k], l2[n])}) > 1),
             \A k \in DOMAIN l1 : \A n \in DOMAIN l2 : /\ ~InstantIn(l1[k], l2[n])
                                                       /\ ~InstantIn(l2[n], l1[k])
      PROVE  Disjoint(out)
  <2>1. ASSUME NEW k \in DOMAIN l1
        PROVE  \A n, m \in DOMAIN l2 :
                  Intersects(l1[k], l2[n]) /\ Intersects(l1[k], l2[m]) => n = m
    BY <1>1, <1>3, CutsOne
  <2>2. Plain(l1, l2)
    BY <1>1, <1>3, <2>1 DEF Plain
  <2> QED
    BY <1>2, <2>2
<1> QED
  BY <1>2, <1>3 DEF InstantIn, l1, l2, out

\* union_no_overlap keeps the time of both lists and all of the first one's, and
\* counts no time twice but for the two exceptions, whatever lists there are.
THEOREM UnionIsFaithful == Spec => []UnionKeepsPrecedence
BY InvGivesUnionKeepsPrecedence, ActivityInvariance, PTL

LEMMA InvGivesCanonicalTimeIsExact == ActivityInv => CanonicalTimeIsExact
<1> SUFFICES ASSUME ActivityInv, NEW upwards \in BOOLEAN, NEW always \in {{}, {Active}}
             PROVE  LET window == Flood(Read("window", upwards), FloodPulse)
                        afk == Read("afk", upwards)
                        presence == TimeOf(FilterKeyvals(Flood(afk, FloodPulse), {"not-afk"}))
                                        \cup TimeOf(FilterKeyvals(window, always))
                        there == {x \in Timed(window) : x[2] \in presence}
                        canonical == CanonicalEvents(Read("window", upwards), afk,
                                                     FloodPulse, always)
                    IN  /\ Timed(canonical) \subseteq there
                        /\ Disjoint(window) => Timed(canonical) = there /\ Disjoint(canonical)
                        /\ Total(AppEvents(canonical)) = Durations(canonical)
                        /\ Total(CatEvents(canonical, Rules)) = Durations(canonical)
  BY DEF CanonicalTimeIsExact
<1> DEFINE read == Read("window", upwards)
           afk == Read("afk", upwards)
           window == Flood(read, FloodPulse)
           user == Flood(afk, FloodPulse)
           present == FilterKeyvals(user, {"not-afk"})
           active == FilterKeyvals(window, always)
           periods == PeriodUnion(present, active)
           canonical == FilterPeriodIntersect(window, periods)
           there == {x \in Timed(window) : x[2] \in TimeOf(present) \cup TimeOf(active)}
<1>1. CanonicalEvents(read, afk, FloodPulse, always) = canonical
  BY DEF CanonicalEvents, NotAfk
<1>2. read \in Seq(Events(Datum)) /\ afk \in Seq(Events(Datum)) /\ FloodPulse \in Int
  BY ReadGivesEvents, ActivityAssumption
<1> HIDE DEF read, afk
<1>3. window \in Seq(Events(Datum)) /\ user \in Seq(Events(Datum))
  BY <1>2, FloodFills
<1> HIDE DEF window, user
<1>4. present \in Seq(Events(Datum)) /\ active \in Seq(Events(Datum))
  BY <1>3, FilterKeeps
<1> HIDE DEF present, active
<1>5. periods \in Seq(Events({{}})) /\ TimeOf(periods) = TimeOf(present) \cup TimeOf(active)
  BY <1>4, PeriodUnionJoins
<1> HIDE DEF periods
<1>6. there = Within(window, periods)
  BY <1>5 DEF Within
<1> HIDE DEF there
<1>7. /\ canonical \in Seq(Events(Datum)) /\ Timed(canonical) \subseteq there
      /\ Disjoint(window) => Timed(canonical) = there /\ Disjoint(canonical)
  <2>1. window \in Seq(Events(Datum)) /\ periods \in Seq(Events({{}}))
    BY <1>3, <1>5
  <2>2. canonical \in Seq(Events(Datum))
    BY <2>1, PeriodsIntersect
  <2>3. Timed(canonical) \subseteq Within(window, periods)
    BY <2>1, PeriodsIntersect
  <2>4. Disjoint(window) => Timed(canonical) = Within(window, periods) /\ Disjoint(canonical)
    BY <2>1, PeriodsIntersect
  <2> HIDE DEF canonical
  <2> QED
    BY <1>6, <2>2, <2>3, <2>4
<1> HIDE DEF canonical
<1>8. Total(AppEvents(canonical)) = Durations(canonical)
  BY <1>7, MergeKeepsDurations DEF AppEvents
<1>9. Total(CatEvents(canonical, Rules)) = Durations(canonical)
  BY <1>7, CategoriesKeepDurations
<1> QED
  BY <1>1, <1>7, <1>8, <1>9 DEF there, window, present, active, user, read, afk

\* A query gives every application and category the time of its window events while
\* the user was there: none of it twice, and all of it if the flooded window events
\* do not overlap.
THEOREM CanonicalTimeIsFaithful == Spec => []CanonicalTimeIsExact
BY InvGivesCanonicalTimeIsExact, ActivityInvariance, PTL
=============================================================================
