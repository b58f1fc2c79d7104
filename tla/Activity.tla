------------------------------ MODULE Activity ------------------------------
(* The table of events in sqlite.db and everybody who writes to it: the worker
   of the datastore, in a transaction it opens again as soon as it has
   committed (src/aw-datastore/src/worker.rs); the import of the REST API, two
   requests to the worker (src/aw-server/src/endpoints/import.rs); and the
   merge of a peer's snapshot, on a connection of its own
   (src/aw-sync-rust/src/serialize.rs).

   SQLite lets one connection write at a time; readers see what is committed.
   Both buckets exist and are in the worker's cache.  Events are not deleted:
   what deletions do to the tables and caches is the subject of Datastore.tla.
   The privacy filter has no rules: nothing calls refresh_privacy_filter. *)
EXTENDS Transforms, Subsequences, SqlNull

CONSTANTS
    Bucket,
    Datum,            \* what the data of an event can be
    Beat,             \* by bucket: the heartbeats its watcher sends
    Batch,            \* by bucket: the sequences of events that are inserted
    Upload,           \* the files given to the import, of one bucket each
    Foreign,          \* what the peer has of its own
    Pulse,            \* the pulsetime of heartbeats
    FloodPulse,       \* the pulsetime of flood
    Active,           \* the application that is always taken as active
    Rules,            \* the rules of the categories
    MaxRows           \* bound: rows in the table

\* An event as it arrives, one of an uploaded file, and one in the table; none
\* ends before it starts.
Event == {v \in [s : Nat, e : Nat, d : Datum] : v.s <= v.e}
FileEvent == {v \in [id : Nat \cup {None}, s : Nat, e : Nat, d : Datum] : v.s <= v.e}
StoredEvent == {r \in [b : Bucket, s : Nat, e : Nat, d : Datum] : r.s <= r.e}

ASSUME ActivityAssumption ==
    /\ Pulse \in Nat /\ FloodPulse \in Int /\ MaxRows \in Nat
    /\ \A b \in Bucket : Beat[b] \subseteq Event /\ Batch[b] \subseteq Seq(Event)
    /\ Upload \subseteq [bucket : Bucket, events : Seq(FileEvent)]
    /\ Foreign \subseteq StoredEvent /\ IsFiniteSet(Foreign)

VARIABLES
    file,             \* the committed rows; a row's id is its place
    tx,               \* the rows as the worker's transaction sees them
    open,             \* whether that transaction is open: the lock to write
    last,             \* last_heartbeat
    sync,             \* the merge of a snapshot: idle, or what it has read
    rest,             \* the import of a file: idle, or the events it kept
    peer,             \* the rows the peer holds
    replaced          \* history: an import has replaced a row by its id

vars == <<file, tx, open, last, sync, rest, peer, replaced>>

Idle == [kind |-> "idle"]

Row(b, v) == [b |-> b, s |-> v.s, e |-> v.e, d |-> v.d]
Rows(t, b) == {i \in DOMAIN t : t[i].b = b}

\* Mutant: an event that has grown is taken for the one it was.
FingerprintOfStart(r) == [r EXCEPT !.e = r.s]

\* event_fingerprint: bucket, start, duration and data.
Fingerprint(r) == r

Fingerprints(rows) == {Fingerprint(r) : r \in rows}

Init ==
    /\ file = <<>> /\ tx = <<>> /\ open = FALSE
    /\ last = [b \in Bucket |-> None]
    /\ sync = Idle /\ rest = Idle
    /\ peer = Foreign
    /\ replaced = FALSE

(***************************************************************************)
(* The worker.                                                             *)
(***************************************************************************)
Begin ==
    /\ ~open
    /\ open' = TRUE
    /\ tx' = file
    /\ UNCHANGED <<file, last, sync, rest, peer, replaced>>

Commit ==
    /\ open
    /\ file' = tx
    /\ open' = FALSE
    /\ UNCHANGED <<tx, last, sync, rest, peer, replaced>>

\* The process dies; SQLite forgets the transaction.
Crash ==
    /\ tx' = file
    /\ open' = FALSE
    /\ last' = [b \in Bucket |-> None]
    /\ sync' = Idle /\ rest' = Idle
    /\ UNCHANGED <<file, peer, replaced>>

Write(t) == open /\ Len(t) <= MaxRows /\ tx' = t /\ UNCHANGED <<file, open, sync, peer>>

InsertEvents(b, batch) ==
    /\ Write(tx \o [k \in DOMAIN batch |-> Row(b, batch[k])])
    /\ last' = [last EXCEPT ![b] = None]
    /\ UNCHANGED <<rest, replaced>>

Merges(l, hb) == l.d = hb.d /\ l.s <= hb.s /\ hb.s <= l.e + Pulse

\* Mutant: the row that ends last is written over.
ReplaceLatest(t, b, i, r) ==
    LET latest == {j \in Rows(t, b) : \A k \in Rows(t, b) : t[k].e <= t[j].e}
    IN  [t EXCEPT ![CHOOSE j \in latest : TRUE] = r]

\* replace_last_event, by row id.
Replace(t, b, i, r) == [t EXCEPT ![i] = r]

Cached(i, r) == [id |-> i, row |-> r]

\* The event to merge with: the cached one, or the newest by its start.
LastEvent(b) ==
    IF last[b] # None THEN {last[b]}
    ELSE {Cached(i, tx[i]) : i \in {j \in Rows(tx, b) :
                                        \A k \in Rows(tx, b) : tx[k].s <= tx[j].s}}

Remember(b, value) == last' = [last EXCEPT ![b] = value]

\* A first heartbeat is not cached; a cached row that is not in the bucket any
\* more makes the request fail, and the cache forgets it.
Heartbeat(b, hb) ==
    /\ \/ \E l \in LastEvent(b) :
             LET merged == [l.row EXCEPT !.e = Later(@, hb.e)]
             IN  \/ /\ ~Merges(l.row, hb)
                    /\ Write(Append(tx, Row(b, hb)))
                    /\ Remember(b, Cached(Len(tx) + 1, Row(b, hb)))
                 \/ /\ Merges(l.row, hb)
                    /\ l.id \in Rows(tx, b)
                    /\ Write(Replace(tx, b, l.id, merged))
                    /\ Remember(b, Cached(l.id, merged))
                 \/ /\ Merges(l.row, hb)
                    /\ l.id \notin Rows(tx, b)
                    /\ Write(tx)
                    /\ Remember(b, None)
       \/ /\ LastEvent(b) = {}
          /\ Write(Append(tx, Row(b, hb)))
          /\ UNCHANGED last
    /\ UNCHANGED <<rest, replaced>>

(***************************************************************************)
(* The import of a file: what is there is read, then the rest is inserted. *)
(* An event that carries an id is put in the place of that row;            *)
(* a gap that an id beyond the last one leaves in the ids is not modelled. *)
(***************************************************************************)
ImportRead(up) ==
    LET overlaps(r) == \E k, n \in DOMAIN up.events :
                          r.e >= up.events[k].s /\ r.s <= up.events[n].e
        there == {[s |-> tx[i].s, e |-> tx[i].e, d |-> tx[i].d] :
                      i \in {j \in Rows(tx, up.bucket) : overlaps(tx[j])}}
        known(ev) == [s |-> ev.s, e |-> ev.e, d |-> ev.d] \in there
    IN  /\ rest = Idle /\ open
        /\ rest' = [kind |-> "read", bucket |-> up.bucket,
                    events |-> Subsequence(up.events, {k \in DOMAIN up.events :
                                                          ~known(up.events[k])})]
        /\ UNCHANGED <<file, tx, open, last, sync, peer, replaced>>

PutEvent(t, b, ev) ==
    IF ev.id # None /\ ev.id \in DOMAIN t THEN [t EXCEPT ![ev.id] = Row(b, ev)]
                                          ELSE Append(t, Row(b, ev))

\* insert_events: one after the other.
PutEvents(t, b, evs) ==
    LET put[k \in 0..Len(evs)] ==
            IF k = 0 THEN t ELSE PutEvent(put[k - 1], b, evs[k])
    IN  put[Len(evs)]

ImportInsert ==
    /\ rest # Idle
    /\ rest' = Idle
    /\ replaced' = (replaced \/ \E k \in DOMAIN rest.events :
                                    rest.events[k].id \in DOMAIN tx)
    /\ \/ /\ rest.events # <<>>
          /\ Write(PutEvents(tx, rest.bucket, rest.events))
          /\ last' = [last EXCEPT ![rest.bucket] = None]
       \/ /\ rest.events = <<>>
          /\ UNCHANGED <<file, tx, open, last, sync, peer>>

(***************************************************************************)
(* Synchronisation.  The merge reads the committed rows first and takes    *)
(* the lock when it writes; the lock is waited for, and given up.          *)
(***************************************************************************)
\* export_activity here and import_activity at the peer.
Export ==
    /\ peer' = peer \cup {r \in ToSet(file) : Fingerprint(r) \notin Fingerprints(peer)}
    /\ UNCHANGED <<file, tx, open, last, sync, rest, replaced>>

SyncRead ==
    /\ sync = Idle
    /\ peer # {}
    /\ sync' = [kind |-> "read", snap |-> peer,
                news |-> {r \in peer : Fingerprint(r) \notin Fingerprints(ToSet(file))}]
    /\ UNCHANGED <<file, tx, open, last, rest, peer, replaced>>

\* The rows of the snapshot that were not there, in any order.
SyncWrite ==
    /\ sync # Idle
    /\ ~open
    /\ \E news \in SetToSeqs(sync.news) :
          /\ Len(file) + Len(news) <= MaxRows
          /\ file' = file \o news
    /\ sync' = Idle
    /\ UNCHANGED <<tx, open, last, rest, peer, replaced>>

\* "database is locked", after the time SQLite waits.
SyncFails ==
    /\ sync # Idle
    /\ open
    /\ sync' = Idle
    /\ UNCHANGED <<file, tx, open, last, rest, peer, replaced>>

Next ==
    \/ Begin \/ Commit \/ Crash
    \/ \E b \in Bucket : \/ \E batch \in Batch[b] : InsertEvents(b, batch)
                         \/ \E hb \in Beat[b] : Heartbeat(b, hb)
    \/ \E up \in Upload : ImportRead(up)
    \/ ImportInsert
    \/ Export \/ SyncRead \/ SyncWrite \/ SyncFails

Spec == Init /\ [][Next]_vars

(***************************************************************************)
(* What the table records, and what a query makes of it.                   *)
(***************************************************************************)
Recorded(t) == UNION {{<<t[i].b, t[i].d>>} \X Span(t[i]) : i \in DOMAIN t}

\* get_events: by start, the latest first; ties are the engine's choice.
Read(b, upwards) ==
    LET before(i, j) == \/ tx[i].s > tx[j].s
                        \/ tx[i].s = tx[j].s /\ IF upwards THEN i < j ELSE j < i
        order == InOrder(Rows(tx, b), before)
    IN  [k \in DOMAIN order |-> [s |-> tx[order[k]].s, e |-> tx[order[k]].e,
                                 d |-> tx[order[k]].d]]

\* The tables are looked at when no import is under way.
Quiet == open /\ sync = Idle /\ rest = Idle

StoreTypeOK ==
    /\ \A t \in {file, tx} : /\ Len(t) <= MaxRows
                             /\ \A i \in DOMAIN t : t[i].b \in Bucket /\ t[i].s <= t[i].e
    /\ open => Len(file) <= Len(tx)
    /\ \A b \in Bucket :
          (last[b] # None /\ ~replaced) =>
              /\ last[b].id \in Rows(tx, b)
              /\ tx[last[b].id] = last[b].row

\* What the file records of an application stays recorded, with its bucket:
\* no heartbeat, crash, import or merge takes committed time away ("the merge
\* appends and never overwrites").  The exception is an imported event with an
\* explicit id, which replaces the row of that id.
RecordedTimeStays ==
    [][replaced' \/ Recorded(file) \subseteq Recorded(file')]_vars

\* When a snapshot was merged, everything the peer had recorded is recorded
\* here: the fingerprint does not take an event that has grown since for the
\* one that is there, and what was written between reading and locking counts.
MergeTakesEverything ==
    [][(SyncWrite /\ ~replaced) =>
          \A r \in sync.snap : {<<r.b, r.d>>} \X Span(r) \subseteq Recorded(file')]_vars

\* A query's canonical events are the time of the window events while the user
\* was there, all of it unless window events overlap; an application or a
\* category is given the time of its events, no less and no more.
CanonicalTimeIsExact ==
    Quiet => \A upwards \in BOOLEAN, always \in {{}, {Active}} :
        LET window == Flood(Read("window", upwards), FloodPulse)
            afk == Read("afk", upwards)
            presence == TimeOf(FilterKeyvals(Flood(afk, FloodPulse), {"not-afk"}))
                            \cup TimeOf(FilterKeyvals(window, always))
            there == {x \in Timed(window) : x[2] \in presence}
            canonical == CanonicalEvents(Read("window", upwards), afk,
                                         FloodPulse, always)
        IN  /\ Timed(canonical) \subseteq there
            /\ Disjoint(window) => Timed(canonical) = there /\ Disjoint(canonical)
            /\ Total(AppEvents(canonical)) = Durations(canonical)
            /\ Total(CatEvents(canonical, Rules)) = Durations(canonical)

\* Flooding takes no time from any event, and adds only the time of a gap
\* shorter than the pulse, to a neighbour of the gap.  No such gap is left but
\* the odd unit of one that cannot be halved.
FloodFillsGaps ==
    Quiet => \A upwards \in BOOLEAN :
        LET in == Read("window", upwards)
            out == Flood(in, FloodPulse)
        IN  /\ Timed(in) \subseteq Timed(out)
            /\ \A x \in Timed(out) \ Timed(in) :
                  \E k, n \in DOMAIN in :
                     /\ in[k].e <= x[2] /\ x[2] < in[n].s
                     /\ in[n].s - in[k].e < FloodPulse
                     /\ x[1] \in {in[k].d, in[n].d}
            /\ \A k \in 1..(Len(out) - 1) :
                  LET gap == out[k + 1].s - out[k].e
                  IN  gap <= 1 \/ gap >= FloodPulse

\* The union of two lists has the time of both, and all of the first one's.
\* Nothing is counted twice, so that where they overlap it is the first one's
\* alone, with two exceptions: of several events of the second that an event of
\* the first overlaps, only the first is cut; and an instant, an event that takes
\* no time, within an event of the other list keeps that one from being cut.
UnionKeepsPrecedence ==
    Quiet => \A upwards \in BOOLEAN :
        LET l1 == SortByTimestamp(Read("window", upwards))
            l2 == SortByTimestamp(Read("afk", upwards))
            out == UnionNoOverlap(l1, l2)
            cut(k) == {n \in DOMAIN l2 : Intersects(l1[k], l2[n])}
            instantIn(p, q) == p.s = p.e /\ q.s <= p.s /\ p.s < q.e
            exception == \E k \in DOMAIN l1 :
                            \/ Cardinality(cut(k)) > 1
                            \/ \E n \in DOMAIN l2 : \/ instantIn(l1[k], l2[n])
                                                    \/ instantIn(l2[n], l1[k])
        IN  /\ TimeOf(out) = TimeOf(l1) \cup TimeOf(l2)
            /\ Timed(l1) \subseteq Timed(out)
            /\ (Disjoint(l1) /\ Disjoint(l2) /\ ~exception) => Disjoint(out)
=============================================================================
