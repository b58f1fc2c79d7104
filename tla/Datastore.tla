----------------------------- MODULE Datastore -----------------------------
(***************************************************************************)
(* What the commands of aw-datastore do to the tables and to the two       *)
(* caches in front of them (src/aw-datastore/src/datastore.rs, and the     *)
(* handlers of worker.rs that call it): buckets_cache, which every command *)
(* trusts for existence, row id and time range of a bucket, and            *)
(* last_heartbeat, which the next heartbeat is merged into.                *)
(*                                                                         *)
(* One thread runs the commands one after the other (DatastoreWorker.tla), *)
(* so a command is one step. The open transaction and the file are two     *)
(* copies of the tables: a failed commit or a restart makes the file's     *)
(* copy the current one again.                                             *)
(***************************************************************************)
EXTENDS Naturals, FiniteSets

CONSTANTS
    Name,           \* bucket names
    TestName,       \* those that start with aw-watcher-android-test
    Target,         \* what migrate_test_bucket_names makes of them
    Data,           \* event payloads
    Beat,           \* heartbeats the watchers send
    Body,           \* events that are inserted or imported
    Pulse,          \* pulsetimes
    NewHost,        \* hostnames clients create buckets with
    MaxBid,         \* BOUND: rows ever created in table buckets
    MaxEid,         \* BOUND: largest row id in table events
    None,           \* no row, no entry, no time, no explicit id
    CommitMayFail   \* whether COMMIT can fail

Bid == 1..MaxBid
Eid == 1..MaxEid
Host == {"unknown", "known"}

\* An event without its row id: a payload and a closed time interval.
EventBody == {v \in [s : Nat, e : Nat, d : Data] : v.s <= v.e}

ASSUME DatastoreAssumption ==
    /\ TestName \subseteq Name
    /\ Target \in [TestName -> Name \ TestName]
    /\ \A n, m \in TestName : Target[n] = Target[m] => n = m
    /\ Beat \subseteq EventBody /\ Body \subseteq EventBody
    /\ Pulse \subseteq Nat /\ NewHost \subseteq Host
    /\ MaxBid \in Nat /\ MaxEid \in Nat
    /\ None \notin Nat /\ None \notin [name : Name, host : Host]
    /\ None \notin [b : Bid, s : Nat, e : Nat, d : Data]
    /\ None \notin [bid : Bid, host : Host, start : Nat \cup {None}, end : Nat \cup {None}]
    /\ None \notin [id : Eid, s : Nat, e : Nat, d : Data]
    /\ CommitMayFail \in BOOLEAN

VARIABLES
    disk,      \* the tables in the file
    tx,        \* the tables as the open transaction sees them
    cache,     \* buckets_cache
    last,      \* last_heartbeat; a missing key and an explicit None are one
    commit,    \* the commit flag: the transaction ends before the next command
    diverged,  \* history: the cache was left behind by a rollback or migration
    stale      \* history: names whose cached heartbeat was left behind

vars == <<disk, tx, cache, last, commit, diverged, stale>>

-----------------------------------------------------------------------------
(* The tables                                                              *)

BucketRow == [name : Name, host : Host]
EventRow == [b : Bid, s : Nat, e : Nat, d : Data]
Tables == [bucket : [Bid -> BucketRow \cup {None}],
           event  : [Eid -> EventRow \cup {None}],
           bseq   : 0..MaxBid,    \* AUTOINCREMENT, rolled back like any row
           eseq   : 0..MaxEid]

CacheEntry == [bid : Bid, host : Host, start : Nat \cup {None}, end : Nat \cup {None}]
CachedEvent == [id : Eid, s : Nat, e : Nat, d : Data]

EmptyTables == [bucket |-> [b \in Bid |-> None], event |-> [i \in Eid |-> None],
                bseq |-> 0, eseq |-> 0]

Named(t, n) == {b \in Bid : t.bucket[b] # None /\ t.bucket[b].name = n}
RowsOf(t, b) == {i \in Eid : t.event[i] # None /\ t.event[i].b = b}

Row(b, v) == [b |-> b, s |-> v.s, e |-> v.e, d |-> v.d]

\* INSERT OR REPLACE INTO events: a row with this id, whoever it belongs to,
\* is replaced.
PutEvent(t, id, b, v) ==
    [t EXCEPT !.event[id] = Row(b, v), !.eseq = IF id > @ THEN id ELSE @]

\* The row id an event gets: its own, or the next one of the sequence.
RowId(t, id) == IF id = None THEN t.eseq + 1 ELSE id

-----------------------------------------------------------------------------
(* buckets_cache                                                           *)

Earliest(a, v) == IF a = None \/ a > v THEN v ELSE a
Latest(a, v) == IF a = None \/ a < v THEN v ELSE a

\* Mutant of Cover: only the end of the range is kept up to date.
CoverEndOnly(entry, v) == [entry EXCEPT !.end = Latest(@, v.e)]

\* update_endtime: the cached time range grows to cover the event.
Cover(entry, v) ==
    [entry EXCEPT !.start = Earliest(@, v.s), !.end = Latest(@, v.e)]

MinStart(t, ids) == CHOOSE s \in {t.event[i].s : i \in ids} : \A i \in ids : s <= t.event[i].s
MaxEnd(t, ids) == CHOOSE e \in {t.event[i].e : i \in ids} : \A i \in ids : e >= t.event[i].e

\* The entry get_stored_buckets computes for the bucket with row id b.
StoredEntry(t, b) ==
    LET ids == RowsOf(t, b)
    IN  [bid   |-> b,
         host  |-> t.bucket[b].host,
         start |-> IF ids = {} THEN None ELSE MinStart(t, ids),
         end   |-> IF ids = {} THEN None ELSE MaxEnd(t, ids)]

\* get_stored_buckets inserts what it reads and removes nothing.
Refreshed(t, c) ==
    [n \in Name |-> IF Named(t, n) = {} THEN c[n]
                    ELSE StoredEntry(t, CHOOSE b \in Named(t, n) : TRUE)]

NoCache == [n \in Name |-> None]

-----------------------------------------------------------------------------
(* The heartbeat merge (aw-transform/src/heartbeat.rs)                     *)

Merges(l, hb, pulse) == l.d = hb.d /\ l.s <= hb.s /\ hb.s <= l.e + pulse

\* Mutants of Merged: the id is lost, and the later end does not win.
MergedWithoutId(l, hb) == [s |-> l.s, e |-> IF l.e > hb.e THEN l.e ELSE hb.e, d |-> l.d]
MergedToHeartbeat(l, hb) == [l EXCEPT !.e = hb.e]

Merged(l, hb) == [l EXCEPT !.e = IF @ > hb.e THEN @ ELSE hb.e]

\* SELECT ... ORDER BY starttime DESC LIMIT 1; ties are the engine's choice.
Newest(t, b) == {i \in RowsOf(t, b) : \A j \in RowsOf(t, b) : t.event[j].s <= t.event[i].s}

AsCached(id, v) == [id |-> id, s |-> v.s, e |-> v.e, d |-> v.d]

-----------------------------------------------------------------------------

TypeOK ==
    /\ disk \in Tables /\ tx \in Tables
    /\ cache \in [Name -> CacheEntry \cup {None}]
    /\ last \in [Name -> CachedEvent \cup {None}]
    /\ commit \in BOOLEAN
    /\ diverged \in BOOLEAN
    /\ stale \subseteq Name

Init ==
    /\ disk = EmptyTables /\ tx = EmptyTables
    /\ cache = NoCache
    /\ last = [n \in Name |-> None]
    /\ commit = FALSE
    /\ diverged = FALSE
    /\ stale = {}

\* A command that fails before it changed anything, and the error it returns.
Errors == {"BucketAlreadyExists", "NoSuchBucket", "InternalError"}
Rejected(error) == error \in Errors /\ UNCHANGED vars

\* Mutant of Remember: an entry is only ever overwritten, never forgotten.
RememberNeverForgets(n, value) ==
    /\ last' = IF value = None THEN last ELSE [last EXCEPT ![n] = value]
    /\ stale' = stale \ {n}

\* last_heartbeat gets a new value for n.
Remember(n, value) ==
    /\ last' = [last EXCEPT ![n] = value]
    /\ stale' = stale \ {n}

\* Mutant of BucketRowExists: foreign keys are not enforced.
BucketRowUnchecked(n) == TRUE

\* The foreign key of events: the row the cache names for n exists.
BucketRowExists(n) == tx.bucket[cache[n].bid] # None

\* An event goes into the bucket row cached under n, and the time range grows.
StoreEvent(n, id, v) ==
    /\ id \in Eid
    /\ tx' = PutEvent(tx, id, cache[n].bid, v)
    /\ cache' = [cache EXCEPT ![n] = Cover(@, v)]

-----------------------------------------------------------------------------
(* Commands                                                                *)

\* create_bucket, from the REST API (no events) or from an import, whose
\* events may carry the ids they had in the database they were exported from.
\* Only the UNIQUE constraint decides whether the bucket exists.
CreateBucket(n, host, import) ==
    LET b == tx.bseq + 1
        withBucket == [tx EXCEPT !.bucket[b] = [name |-> n, host |-> host], !.bseq = b]
        entry == [bid |-> b, host |-> host, start |-> None, end |-> None]
    IN  \/ /\ Named(tx, n) # {}
           /\ Rejected("BucketAlreadyExists")
        \/ /\ Named(tx, n) = {}
           /\ b \in Bid
           /\ \/ /\ import = None
                 /\ tx' = withBucket
                 /\ cache' = [cache EXCEPT ![n] = entry]
                 /\ stale' = stale
              \/ /\ import # None
                 /\ RowId(tx, import.id) \in Eid
                 /\ tx' = PutEvent(withBucket, RowId(tx, import.id), b, import.v)
                 /\ cache' = [cache EXCEPT ![n] = Cover(entry, import.v)]
                 /\ stale' = IF last[n] # None /\ import.id # None
                             THEN stale \cup {n} ELSE stale
           /\ commit' = TRUE
           /\ UNCHANGED <<disk, last, diverged>>

\* delete_bucket trusts the cached row id; last_heartbeat is left alone.
DeleteBucket(n) ==
    \/ /\ cache[n] = None
       /\ Rejected("NoSuchBucket")
    \/ /\ cache[n] # None
       /\ tx' = [tx EXCEPT
                    !.event = [i \in Eid |-> IF i \in RowsOf(tx, cache[n].bid)
                                             THEN None ELSE tx.event[i]],
                    !.bucket[cache[n].bid] = None]
       /\ cache' = [cache EXCEPT ![n] = None]
       /\ commit' = TRUE
       /\ UNCHANGED <<disk, last, diverged, stale>>

\* One turn of the loop in insert_events; a batch is several such steps with
\* nothing in between. The handler forgets the cached heartbeat.
InsertEvent(n, id, v) ==
    \/ /\ cache[n] = None
       /\ Rejected("NoSuchBucket")
    \/ /\ cache[n] # None
       /\ ~BucketRowExists(n)
       /\ Rejected("InternalError")
    \/ /\ cache[n] # None
       /\ BucketRowExists(n)
       /\ StoreEvent(n, RowId(tx, id), v)
       /\ Remember(n, None)
       /\ UNCHANGED <<disk, commit, diverged>>

\* delete_events_by_id: an id of another bucket, or of no row, is ignored. The
\* cached heartbeat is left alone.
DeleteEvent(n, id) ==
    \/ /\ cache[n] = None
       /\ Rejected("NoSuchBucket")
    \/ /\ cache[n] # None
       /\ tx' = IF id \in RowsOf(tx, cache[n].bid)
                THEN [tx EXCEPT !.event[id] = None] ELSE tx
       /\ UNCHANGED <<disk, cache, last, commit, diverged, stale>>

\* heartbeat, second half: l is the event the heartbeat is compared with. The
\* cached value was taken out of last_heartbeat and an error does not put it
\* back. replace_last_event finds its row by bucket row and id.
MergeOrInsert(n, l, hb, pulse) ==
    \/ /\ Merges(l, hb, pulse)
       /\ l.id \in RowsOf(tx, cache[n].bid)
       /\ StoreEvent(n, l.id, Merged(l, hb))
       /\ Remember(n, Merged(l, hb))
    \/ /\ Merges(l, hb, pulse)
       /\ l.id \notin RowsOf(tx, cache[n].bid)
       /\ Remember(n, None)
       /\ UNCHANGED <<tx, cache>>
    \/ /\ ~Merges(l, hb, pulse)
       /\ BucketRowExists(n)
       /\ StoreEvent(n, RowId(tx, None), hb)
       /\ Remember(n, AsCached(RowId(tx, None), hb))
    \/ /\ ~Merges(l, hb, pulse)
       /\ ~BucketRowExists(n)
       /\ Remember(n, None)
       /\ UNCHANGED <<tx, cache>>

\* The bucket has no event and nothing is cached: the first heartbeat is
\* inserted and not cached.
FirstHeartbeat(n, hb) ==
    \/ /\ BucketRowExists(n)
       /\ StoreEvent(n, RowId(tx, None), hb)
       /\ Remember(n, None)
    \/ /\ ~BucketRowExists(n)
       /\ Remember(n, None)
       /\ UNCHANGED <<tx, cache>>

Heartbeat(n, hb, pulse) ==
    \/ /\ cache[n] = None
       /\ Rejected("NoSuchBucket")
    \/ /\ cache[n] # None
       /\ \/ /\ last[n] # None
             /\ MergeOrInsert(n, last[n], hb, pulse)
          \/ /\ last[n] = None
             /\ \E i \in Newest(tx, cache[n].bid) :
                   MergeOrInsert(n, AsCached(i, tx.event[i]), hb, pulse)
          \/ /\ last[n] = None
             /\ RowsOf(tx, cache[n].bid) = {}
             /\ FirstHeartbeat(n, hb)
       /\ UNCHANGED <<disk, commit, diverged>>

\* The UPDATE of rename_bucket.
WithName(t, old, new) ==
    [t EXCEPT !.bucket = [b \in Bid |-> IF b \in Named(t, old)
                                       THEN [t.bucket[b] EXCEPT !.name = new]
                                       ELSE t.bucket[b]]]

\* Mutant of RenameBucket: the entry of the old name stays in the cache.
RenameBucketKeepsOld(old, new) ==
    /\ cache[old] # None /\ cache[new] = None
    /\ Named(tx, old) # {} /\ Named(tx, new) = {}
    /\ tx' = WithName(tx, old, new)
    /\ cache' = [cache EXCEPT ![new] = cache[old]]
    /\ commit' = TRUE
    /\ stale' = stale \cup {m \in {old, new} : last[m] # None}
    /\ UNCHANGED <<disk, last, diverged>>

\* rename_bucket: the cache decides, the UPDATE goes by name. last_heartbeat is
\* not re-keyed, so what either name has cached is left behind.
RenameBucket(old, new) ==
    \/ /\ cache[old] = None
       /\ Rejected("NoSuchBucket")
    \/ /\ cache[old] # None
       /\ cache[new] # None
       /\ Rejected("BucketAlreadyExists")
    \/ /\ cache[old] # None /\ cache[new] = None
       /\ Named(tx, old) = {}
       /\ Rejected("NoSuchBucket")
    \/ /\ cache[old] # None /\ cache[new] = None
       /\ Named(tx, old) # {} /\ Named(tx, new) # {}
       /\ Rejected("InternalError")
    \/ /\ cache[old] # None /\ cache[new] = None
       /\ Named(tx, old) # {} /\ Named(tx, new) = {}
       /\ tx' = WithName(tx, old, new)
       /\ cache' = [cache EXCEPT ![new] = cache[old], ![old] = None]
       /\ commit' = TRUE
       /\ stale' = stale \cup {m \in {old, new} : last[m] # None}
       /\ UNCHANGED <<disk, last, diverged>>

\* migrate_hostname: the refresh only happens when a row changed.
MigrateHostname ==
    LET hit == {b \in Bid : tx.bucket[b] # None /\ tx.bucket[b].host = "unknown"}
        migrated == [tx EXCEPT !.bucket =
                        [b \in Bid |-> IF b \in hit
                                       THEN [tx.bucket[b] EXCEPT !.host = "known"]
                                       ELSE tx.bucket[b]]]
    IN  /\ IF hit = {} THEN UNCHANGED <<tx, cache, commit>>
           ELSE /\ tx' = migrated
                /\ cache' = Refreshed(migrated, cache)
                /\ commit' = TRUE
        /\ UNCHANGED <<disk, last, diverged, stale>>

\* migrate_test_bucket_names: UPDATE OR IGNORE leaves a row alone whose new
\* name is taken; the refresh adds the new names and keeps the old ones.
MigrateTestBucketNames ==
    LET hit == {b \in Bid : /\ tx.bucket[b] # None
                            /\ tx.bucket[b].name \in TestName
                            /\ Named(tx, Target[tx.bucket[b].name]) = {}}
        migrated == [tx EXCEPT !.bucket =
                        [b \in Bid |-> IF b \in hit
                                       THEN [tx.bucket[b] EXCEPT !.name = Target[@]]
                                       ELSE tx.bucket[b]]]
    IN  /\ IF hit = {} THEN UNCHANGED <<tx, cache, commit, diverged>>
           ELSE /\ tx' = migrated
                /\ cache' = Refreshed(migrated, cache)
                /\ commit' = TRUE
                /\ diverged' = TRUE
        /\ UNCHANGED <<disk, last, stale>>

-----------------------------------------------------------------------------
(* The transaction and the process                                         *)

\* ForceCommit, a full batch, 15 s, or the commit flag.
Commit ==
    /\ disk' = tx
    /\ commit' = FALSE
    /\ UNCHANGED <<tx, cache, last, diverged, stale>>

\* COMMIT failed and the transaction was rolled back; both caches keep what
\* they learned from it.
CommitFails ==
    /\ CommitMayFail
    /\ disk # tx
    /\ tx' = disk
    /\ commit' = FALSE
    /\ diverged' = TRUE
    /\ stale' = stale \cup {n \in Name : last[n] # None}
    /\ UNCHANGED <<disk, cache, last>>

\* The process dies, or is closed and started again: DatastoreInstance::new
\* fills an empty cache from the file.
Reopen ==
    /\ tx' = disk
    /\ cache' = Refreshed(disk, NoCache)
    /\ last' = [n \in Name |-> None]
    /\ commit' = FALSE
    /\ diverged' = FALSE
    /\ stale' = {}
    /\ UNCHANGED disk

Import == [id : Eid \cup {None}, v : Body]

Command(n) ==
    \/ \E host \in NewHost, import \in Import \cup {None} : CreateBucket(n, host, import)
    \/ DeleteBucket(n)
    \/ \E id \in Eid \cup {None}, v \in Body : InsertEvent(n, id, v)
    \/ \E id \in Eid : DeleteEvent(n, id)
    \/ \E hb \in Beat, pulse \in Pulse : Heartbeat(n, hb, pulse)
    \/ \E new \in Name : RenameBucket(n, new)

Next ==
    \/ /\ ~commit
       /\ \/ \E n \in Name : Command(n)
          \/ MigrateHostname
          \/ MigrateTestBucketNames
    \/ Commit
    \/ CommitFails
    \/ Reopen

Spec == Init /\ [][Next]_vars

-----------------------------------------------------------------------------
(* Properties                                                              *)

\* The schema's promises, in the transaction and in the file, whatever fails:
\* bucket names are unique, an event belongs to a bucket that exists, and no
\* row id is ahead of its AUTOINCREMENT sequence.
Consistent(t) ==
    /\ \A b, c \in Bid :
          /\ t.bucket[b] # None => b <= t.bseq
          /\ t.bucket[b] # None /\ t.bucket[c] # None /\ t.bucket[b].name = t.bucket[c].name
                => b = c
    /\ \A i \in Eid : t.event[i] # None =>
          t.bucket[t.event[i].b] # None /\ i <= t.eseq

TablesConsistent == Consistent(tx) /\ Consistent(disk)

\* buckets_cache answers for the table it replaces: it knows the buckets that
\* exist, no others, and their row ids. Only a rollback and the renaming
\* migration leave it behind, until the next start.
CacheMirrors(n) ==
    \/ cache[n] = None /\ Named(tx, n) = {}
    \/ cache[n] # None /\ Named(tx, n) = {cache[n].bid}
                       /\ tx.bucket[cache[n].bid].host = cache[n].host

CacheMirrorsTables == ~diverged => \A n \in Name : CacheMirrors(n)

\* The time range in a bucket's metadata covers every event of the bucket; it
\* is kept up to date by hand next to each write (update_endtime).
RangeCovers(n) ==
    \A i \in RowsOf(tx, cache[n].bid) :
        /\ cache[n].start # None /\ cache[n].start <= tx.event[i].s
        /\ cache[n].end # None /\ tx.event[i].e <= cache[n].end

RangeCoversEvents == ~diverged => \A n \in Name : cache[n] # None => RangeCovers(n)

\* What last_heartbeat holds for a bucket is the row it came from, or the row
\* is gone from the bucket (deleted, or taken over by an explicit id). A name
\* is excused while what it cached was left behind by a rename, an import
\* that brings its own ids, or a rollback.
HeartbeatCacheSound ==
    ~diverged =>
        \A n \in Name \ stale :
            /\ last[n] # None /\ cache[n] # None
            /\ last[n].id \in RowsOf(tx, cache[n].bid)
            => tx.event[last[n].id] = Row(cache[n].bid, last[n])

\* A heartbeat extends one event or adds one: what was recorded stays recorded.
Preserved(i) ==
    /\ tx'.event[i] # None
    /\ tx'.event[i].b = tx.event[i].b
    /\ tx'.event[i].d = tx.event[i].d
    /\ tx'.event[i].s = tx.event[i].s
    /\ tx.event[i].e <= tx'.event[i].e

BeatsAt(n) == \E hb \in Beat, pulse \in Pulse : Heartbeat(n, hb, pulse)

HeartbeatKeepsRecord ==
    [][\A n \in Name \ stale :
          ~diverged /\ BeatsAt(n) =>
              \A i \in Eid : tx.event[i] # None => Preserved(i)]_vars

\* An event written to bucket n becomes an event of the bucket named n.
LandsIn(n) ==
    \A i \in Eid : tx'.event[i] # None /\ tx'.event[i] # tx.event[i] =>
        tx'.bucket[tx'.event[i].b].name = n

Writes(n) == BeatsAt(n) \/ \E id \in Eid \cup {None}, v \in Body : InsertEvent(n, id, v)

WritesReachNamedBucket ==
    [][\A n \in Name : ~diverged /\ Writes(n) => LandsIn(n)]_vars

\* worker.rs:256-261 on a failed commit: the batch is lost, the worker survives
\* and watchers resume. Then what they write must reach their own bucket.
WritesReachNamedBucketAfterRollback == [][\A n \in Name : Writes(n) => LandsIn(n)]_vars

\* datastore.rs:738: the event id is used "to ensure we update the correct
\* row". So a heartbeat never overwrites what another event recorded.
HeartbeatUpdatesCorrectRow ==
    [][\A n \in Name : BeatsAt(n) =>
          \A i \in Eid : tx.event[i] # None => Preserved(i)]_vars
=============================================================================
