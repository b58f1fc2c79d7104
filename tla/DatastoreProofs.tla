-------------------------- MODULE DatastoreProofs --------------------------
(***************************************************************************)
(* Theorems about Datastore, for any set of names, any payloads, times and *)
(* pulsetimes and any number of rows.                                      *)
(***************************************************************************)
EXTENDS Datastore, OrderLemmas

-----------------------------------------------------------------------------
(* The operators on tables and cache entries                               *)

\* What a value of Tables is made of.
LEMMA TablesParts ==
  ASSUME NEW t \in Tables
  PROVE  /\ t = [bucket |-> t.bucket, event |-> t.event, bseq |-> t.bseq, eseq |-> t.eseq]
         /\ \A b \in Bid : t.bucket[b] # None =>
               t.bucket[b].name \in Name /\ t.bucket[b].host \in Host
         /\ \A i \in Eid : t.event[i] # None =>
               /\ t.event[i].b \in Bid /\ t.event[i].d \in Data
               /\ t.event[i].s \in Nat /\ t.event[i].e \in Nat
         /\ t.bseq \in 0..MaxBid /\ t.eseq \in 0..MaxEid
  BY DEF Tables, BucketRow, EventRow

\* The cached range of a bucket with events starts with its earliest event
\* and ends with its latest.
LEMMA RangeOfRows ==
  ASSUME NEW t \in Tables, NEW b \in Bid, RowsOf(t, b) # {}
  PROVE  LET ids == RowsOf(t, b)
         IN  /\ MinStart(t, ids) \in Nat /\ MaxEnd(t, ids) \in Nat
             /\ \A i \in ids : MinStart(t, ids) <= t.event[i].s /\ t.event[i].e <= MaxEnd(t, ids)
<1> DEFINE ids == RowsOf(t, b)
           Starts == {t.event[i].s : i \in ids}
           Ends == {t.event[i].e : i \in ids}
<1>1. \A i \in ids : i \in Eid /\ t.event[i].s \in Nat /\ t.event[i].e \in Nat
  BY TablesParts DEF RowsOf
<1>2. ids \in SUBSET Eid /\ ids # {}
  BY <1>1
<1>3. IsFiniteSet(ids)
  <2>1. IsFiniteSet(Eid)
    BY DatastoreAssumption, FS_Interval DEF Eid
  <2> QED
    BY <2>1, <1>2, FS_Subset
<1>4. Starts \in SUBSET Nat /\ Starts # {} /\ Ends \in SUBSET Nat /\ Ends # {}
  BY <1>1, <1>2
<1>5. IsFiniteSet(Ends)
  <2> DEFINE f == [i \in ids |-> t.event[i].e]
  <2>1. f \in Surjection(ids, Ends)
    BY DEF Surjection
  <2> HIDE DEF ids, Ends, f
  <2> QED
    BY <1>3, <2>1, FS_Surjection
<1>6. \E x \in Starts : \A y \in Starts : x <= y
  <2> HIDE DEF Starts
  <2> QED
    BY <1>4, EarliestExists
<1>7. \E x \in Ends : \A y \in Ends : x >= y
  <2> HIDE DEF Ends
  <2> QED
    BY <1>4, <1>5, LatestExists
<1>8. \E s \in {t.event[i].s : i \in ids} : \A i \in ids : s <= t.event[i].s
  BY <1>6
<1>9. \E e \in {t.event[i].e : i \in ids} : \A i \in ids : e >= t.event[i].e
  BY <1>7
<1>10. /\ MinStart(t, ids) \in {t.event[i].s : i \in ids}
       /\ \A i \in ids : MinStart(t, ids) <= t.event[i].s
  BY <1>8 DEF MinStart
<1>11. /\ MaxEnd(t, ids) \in {t.event[i].e : i \in ids}
       /\ \A i \in ids : MaxEnd(t, ids) >= t.event[i].e
  BY <1>9 DEF MaxEnd
<1> QED
  BY <1>1, <1>10, <1>11

\* The entry read back from the tables is a cache entry for that bucket row.
LEMMA StoredEntryType ==
  ASSUME NEW t \in Tables, NEW b \in Bid, t.bucket[b] # None
  PROVE  StoredEntry(t, b) \in CacheEntry
<1>1. t.bucket[b].host \in Host
  BY TablesParts
<1>2. CASE RowsOf(t, b) = {}
  BY <1>1, <1>2 DEF StoredEntry, CacheEntry
<1>3. CASE RowsOf(t, b) # {}
  BY <1>1, <1>3, RangeOfRows DEF StoredEntry, CacheEntry
<1> QED
  BY <1>2, <1>3

\* get_stored_buckets fills the cache with cache entries.
LEMMA RefreshedType ==
  ASSUME NEW t \in Tables, NEW c \in [Name -> CacheEntry \cup {None}]
  PROVE  Refreshed(t, c) \in [Name -> CacheEntry \cup {None}]
<1>1. ASSUME NEW n \in Name, Named(t, n) # {}
      PROVE  StoredEntry(t, CHOOSE b \in Named(t, n) : TRUE) \in CacheEntry
  <2> DEFINE b == CHOOSE b \in Named(t, n) : TRUE
  <2>1. b \in Named(t, n)
    BY <1>1
  <2>2. b \in Bid /\ t.bucket[b] # None
    BY <2>1 DEF Named
  <2> QED
    BY <2>2, StoredEntryType
<1> QED
  BY <1>1 DEF Refreshed

\* Adding or replacing one event row keeps the tables tables.
LEMMA PutEventType ==
  ASSUME NEW t \in Tables, NEW id \in Eid, NEW b \in Bid, NEW v,
         v.s \in Nat, v.e \in Nat, v.d \in Data
  PROVE  PutEvent(t, id, b, v) \in Tables
<1>1. Row(b, v) \in EventRow
  BY DEF Row, EventRow
<1> DEFINE high == IF id > t.eseq THEN id ELSE t.eseq
<1>2. high \in 0..MaxEid
  BY DatastoreAssumption, TablesParts DEF Eid
<1> DEFINE events == [t.event EXCEPT ![id] = Row(b, v)]
<1>3. PutEvent(t, id, b, v) = [t EXCEPT !.event = events, !.eseq = high]
  BY DEF PutEvent, Tables
<1>4. events \in [Eid -> EventRow \cup {None}]
  BY <1>1 DEF Tables
<1> HIDE DEF events, high
<1> QED
  BY <1>2, <1>3, <1>4 DEF Tables

\* The grown time range is one, and it covers the event and what it covered.
LEMMA CoverEntry ==
  ASSUME NEW c \in CacheEntry, NEW v, v.s \in Nat, v.e \in Nat
  PROVE  /\ Cover(c, v) \in CacheEntry
         /\ Cover(c, v).bid = c.bid /\ Cover(c, v).host = c.host
         /\ Cover(c, v).start # None /\ Cover(c, v).start <= v.s
         /\ Cover(c, v).end # None /\ v.e <= Cover(c, v).end
         /\ c.start # None => Cover(c, v).start <= c.start
         /\ c.end # None => c.end <= Cover(c, v).end
<1>1. /\ c = [bid |-> c.bid, host |-> c.host, start |-> c.start, end |-> c.end]
      /\ c.bid \in Bid /\ c.host \in Host
      /\ c.start \in Nat \cup {None} /\ c.end \in Nat \cup {None}
  BY DEF CacheEntry
<1>2. /\ Earliest(c.start, v.s) \in Nat
      /\ Earliest(c.start, v.s) <= v.s
      /\ c.start # None => Earliest(c.start, v.s) <= c.start
  BY <1>1 DEF Earliest
<1>3. /\ Latest(c.end, v.e) \in Nat
      /\ v.e <= Latest(c.end, v.e)
      /\ c.end # None => c.end <= Latest(c.end, v.e)
  BY <1>1 DEF Latest
<1> DEFINE x == Earliest(c.start, v.s)
           y == Latest(c.end, v.e)
<1>4. Cover(c, v) = [c EXCEPT !.start = x, !.end = y]
  BY DEF Cover
<1>5. x \in Nat /\ y \in Nat
  BY <1>2, <1>3
<1> HIDE DEF x, y
<1>6. Cover(c, v) \in CacheEntry
  BY <1>1, <1>4, <1>5 DEF CacheEntry
<1>7. /\ Cover(c, v).start = x /\ Cover(c, v).end = y
      /\ Cover(c, v).bid = c.bid /\ Cover(c, v).host = c.host
  BY <1>4 DEF CacheEntry
<1>8. x # None /\ y # None
  BY <1>5, DatastoreAssumption
<1> QED
  BY <1>2, <1>3, <1>6, <1>7, <1>8 DEF x, y

-----------------------------------------------------------------------------
(* Types                                                                   *)

\* Events that are sent or inserted have a start, an end and a payload.
LEMMA EventParts ==
  ASSUME NEW v \in Beat \cup Body
  PROVE  v.s \in Nat /\ v.e \in Nat /\ v.d \in Data
<1>1. v \in EventBody
  BY DatastoreAssumption
<1> QED
  BY <1>1 DEF EventBody

\* The merged heartbeat is the cached event with a possibly later end.
LEMMA MergedParts ==
  ASSUME NEW l \in CachedEvent, NEW hb, hb.e \in Nat
  PROVE  /\ Merged(l, hb) \in CachedEvent
         /\ Merged(l, hb).id = l.id /\ Merged(l, hb).s = l.s /\ Merged(l, hb).d = l.d
         /\ l.e <= Merged(l, hb).e
<1> DEFINE e == IF l.e > hb.e THEN l.e ELSE hb.e
<1>1. l.e \in Nat /\ l.id \in Eid /\ l.s \in Nat /\ l.d \in Data
  BY DEF CachedEvent
<1>2. e \in Nat /\ l.e <= e
  BY <1>1
<1>3. Merged(l, hb) = [l EXCEPT !.e = e]
  BY DEF Merged
<1> HIDE DEF e
<1> QED
  BY <1>1, <1>2, <1>3 DEF CachedEvent

\* Writing one event keeps tables and cache well formed.
LEMMA StoreEventType ==
  ASSUME TypeOK, NEW n \in Name, cache[n] # None, NEW id, NEW v,
         v.s \in Nat, v.e \in Nat, v.d \in Data, StoreEvent(n, id, v)
  PROVE  tx' \in Tables /\ cache' \in [Name -> CacheEntry \cup {None}]
<1>1. cache[n] \in CacheEntry /\ cache[n].bid \in Bid
  BY DEF TypeOK, CacheEntry
<1>2. tx' \in Tables
  BY <1>1, PutEventType DEF StoreEvent, TypeOK
<1>3. Cover(cache[n], v) \in CacheEntry
  BY <1>1, CoverEntry
<1> QED
  BY <1>2, <1>3 DEF StoreEvent, TypeOK

\* What a heartbeat does to the typed variables, whichever event it is
\* compared with.
LEMMA MergeOrInsertType ==
  ASSUME TypeOK, NEW n \in Name, cache[n] # None, NEW l \in CachedEvent, NEW hb \in Beat,
         NEW pulse, MergeOrInsert(n, l, hb, pulse)
  PROVE  /\ tx' \in Tables /\ cache' \in [Name -> CacheEntry \cup {None}]
         /\ last' \in [Name -> CachedEvent \cup {None}] /\ stale' \subseteq Name
<1>1. hb.s \in Nat /\ hb.e \in Nat /\ hb.d \in Data
  BY EventParts
<1> DEFINE m == Merged(l, hb)
           id == RowId(tx, None)
<1>2. m \in CachedEvent
  BY <1>1, MergedParts
<1>3. m.s \in Nat /\ m.e \in Nat /\ m.d \in Data
  BY <1>2 DEF CachedEvent
<1> HIDE DEF m
<1>4. CASE StoreEvent(n, l.id, m) /\ Remember(n, m)
  BY <1>2, <1>3, <1>4, StoreEventType DEF Remember, TypeOK
<1>5. CASE Remember(n, None) /\ UNCHANGED <<tx, cache>>
  BY <1>5 DEF Remember, TypeOK
<1>6. CASE StoreEvent(n, id, hb) /\ Remember(n, AsCached(id, hb))
  <2>1. id \in Eid
    BY <1>6 DEF StoreEvent
  <2>2. AsCached(id, hb) \in CachedEvent
    BY <1>1, <2>1 DEF AsCached, CachedEvent
  <2> HIDE DEF id
  <2> QED
    BY <1>1, <1>6, <2>2, StoreEventType DEF Remember, TypeOK
<1> QED
  BY <1>4, <1>5, <1>6 DEF MergeOrInsert, m

\* The event fetched from the tables when nothing is cached is well formed.
LEMMA FetchedType ==
  ASSUME TypeOK, NEW b \in Bid, NEW i \in Newest(tx, b)
  PROVE  AsCached(i, tx.event[i]) \in CachedEvent
<1>1. i \in Eid /\ tx.event[i] # None
  BY DEF Newest, RowsOf
<1>2. tx \in Tables
  BY DEF TypeOK
<1> QED
  BY <1>1, <1>2, TablesParts DEF AsCached, CachedEvent

\* The initial state is well typed.
LEMMA TypeInit == Init => TypeOK
<1> SUFFICES ASSUME Init PROVE TypeOK
  OBVIOUS
<1>1. EmptyTables \in Tables
  BY DatastoreAssumption DEF EmptyTables, Tables
<1> QED
  BY <1>1 DEF Init, TypeOK, NoCache

\* The tables of create_bucket before any event is inserted.
LEMMA WithBucketType ==
  ASSUME NEW t \in Tables, NEW n \in Name, NEW host \in Host, t.bseq + 1 \in Bid
  PROVE  [t EXCEPT !.bucket[t.bseq + 1] = [name |-> n, host |-> host], !.bseq = t.bseq + 1]
            \in Tables
<1> DEFINE b == t.bseq + 1
<1>1. [name |-> n, host |-> host] \in BucketRow
  BY DEF BucketRow
<1>2. b \in Bid /\ b \in 0..MaxBid
  BY DatastoreAssumption DEF Bid
<1> HIDE DEF b
<1>3. [t EXCEPT !.bucket[b] = [name |-> n, host |-> host], !.bseq = b] \in Tables
  BY <1>1, <1>2 DEF Tables
<1> QED
  BY <1>3 DEF b

\* create_bucket keeps everything well typed.
LEMMA CreateBucketType ==
  ASSUME TypeOK, NEW n \in Name, NEW host \in NewHost, NEW import \in Import \cup {None},
         CreateBucket(n, host, import)
  PROVE  TypeOK'
<1> DEFINE b == tx.bseq + 1
           withBucket == [tx EXCEPT !.bucket[b] = [name |-> n, host |-> host], !.bseq = b]
           entry == [bid |-> b, host |-> host, start |-> None, end |-> None]
<1>1. CASE UNCHANGED vars
  BY <1>1 DEF TypeOK, vars
<1>2. ASSUME b \in Bid PROVE withBucket \in Tables /\ entry \in CacheEntry
  <2>1. host \in Host
    BY DatastoreAssumption
  <2>2. withBucket \in Tables
    BY <1>2, <2>1, WithBucketType DEF TypeOK
  <2> QED
    BY <1>2, <2>1, <2>2 DEF CacheEntry
<1>3. CASE /\ b \in Bid /\ tx' = withBucket /\ cache' = [cache EXCEPT ![n] = entry]
           /\ commit' = TRUE /\ UNCHANGED <<disk, last, diverged, stale>>
  <2> HIDE DEF withBucket, entry
  <2> QED
    BY <1>2, <1>3 DEF TypeOK
<1>4. CASE /\ b \in Bid /\ import # None
           /\ RowId(tx, import.id) \in Eid
           /\ tx' = PutEvent(withBucket, RowId(tx, import.id), b, import.v)
           /\ cache' = [cache EXCEPT ![n] = Cover(entry, import.v)]
           /\ stale' = IF last[n] # None /\ import.id # None THEN stale \cup {n} ELSE stale
           /\ commit' = TRUE /\ UNCHANGED <<disk, last, diverged>>
  <2>1. import.v \in Body
    BY <1>4 DEF Import
  <2>2. import.v.s \in Nat /\ import.v.e \in Nat /\ import.v.d \in Data
    BY <2>1, EventParts
  <2> HIDE DEF withBucket, entry
  <2>3. tx' \in Tables
    BY <1>2, <1>4, <2>2, PutEventType
  <2>4. Cover(entry, import.v) \in CacheEntry
    BY <1>2, <1>4, <2>2, CoverEntry
  <2> QED
    BY <1>4, <2>3, <2>4 DEF TypeOK
<1> QED
  BY <1>1, <1>3, <1>4 DEF CreateBucket, Rejected

\* delete_bucket, delete_events_by_id and rename_bucket keep everything well
\* typed.
LEMMA BucketCommandsType ==
  ASSUME TypeOK, NEW n \in Name, NEW new, NEW id,
         \/ DeleteBucket(n)
         \/ id \in Eid /\ DeleteEvent(n, id)
         \/ new \in Name /\ RenameBucket(n, new)
  PROVE  TypeOK'
<1>1. CASE UNCHANGED vars
  BY <1>1 DEF TypeOK, vars
<1>2. CASE DeleteBucket(n) /\ ~UNCHANGED vars
  <2>1. cache[n] # None /\ cache[n].bid \in Bid
    BY <1>2 DEF DeleteBucket, Rejected, TypeOK, CacheEntry
  <2> DEFINE kept == [i \in Eid |-> IF i \in RowsOf(tx, cache[n].bid) THEN None ELSE tx.event[i]]
  <2>2. kept \in [Eid -> EventRow \cup {None}]
    BY DEF TypeOK, Tables
  <2>3. tx' = [tx EXCEPT !.event = kept, !.bucket[cache[n].bid] = None]
    BY <1>2, <2>1 DEF DeleteBucket
  <2> HIDE DEF kept
  <2>4. tx' \in Tables
    BY <2>1, <2>2, <2>3 DEF TypeOK, Tables
  <2> QED
    BY <1>2, <2>1, <2>4 DEF DeleteBucket, Rejected, TypeOK
<1>3. CASE id \in Eid /\ DeleteEvent(n, id) /\ ~UNCHANGED vars
  <2>1. [tx EXCEPT !.event[id] = None] \in Tables
    BY <1>3 DEF TypeOK, Tables
  <2> QED
    BY <1>3, <2>1 DEF DeleteEvent, Rejected, TypeOK
<1>4. CASE new \in Name /\ RenameBucket(n, new) /\ ~UNCHANGED vars
  <2>1. WithName(tx, n, new) \in Tables
    <3>1. \A b \in Named(tx, n) : [tx.bucket[b] EXCEPT !.name = new] \in BucketRow
      BY <1>4 DEF Named, TypeOK, Tables, BucketRow
    <3> QED
      BY <3>1 DEF WithName, TypeOK, Tables
  <2> QED
    BY <1>4, <2>1 DEF RenameBucket, Rejected, TypeOK
<1> QED
  BY <1>1, <1>2, <1>3, <1>4

\* insert_events and heartbeat keep everything well typed.
LEMMA EventCommandsType ==
  ASSUME TypeOK, NEW n \in Name, NEW id, NEW v, NEW pulse,
         \/ v \in Body /\ InsertEvent(n, id, v)
         \/ v \in Beat /\ Heartbeat(n, v, pulse)
  PROVE  TypeOK'
<1>1. CASE UNCHANGED vars
  BY <1>1 DEF TypeOK, vars
<1>2. CASE v \in Body /\ InsertEvent(n, id, v) /\ ~UNCHANGED vars
  <2>1. /\ cache[n] # None /\ StoreEvent(n, RowId(tx, id), v)
        /\ Remember(n, None) /\ UNCHANGED <<disk, commit, diverged>>
    BY <1>2 DEF InsertEvent, Rejected
  <2>2. tx' \in Tables /\ cache' \in [Name -> CacheEntry \cup {None}]
    BY <1>2, <2>1, EventParts, StoreEventType
  <2> QED
    BY <2>1, <2>2 DEF TypeOK, Remember
<1>3. CASE v \in Beat /\ Heartbeat(n, v, pulse) /\ ~UNCHANGED vars
  <2>1. cache[n] # None /\ UNCHANGED <<disk, commit, diverged>>
    BY <1>3 DEF Heartbeat, Rejected
  <2>2. cache[n].bid \in Bid
    BY <2>1 DEF TypeOK, CacheEntry
  <2>3. CASE last[n] # None /\ MergeOrInsert(n, last[n], v, pulse)
    <3>1. last[n] \in CachedEvent
      BY <2>3 DEF TypeOK
    <3> QED
      BY <1>3, <2>1, <2>3, <3>1, MergeOrInsertType DEF TypeOK
  <2>4. ASSUME NEW i \in Newest(tx, cache[n].bid),
               MergeOrInsert(n, AsCached(i, tx.event[i]), v, pulse)
        PROVE  TypeOK'
    <3>1. AsCached(i, tx.event[i]) \in CachedEvent
      BY <2>2, FetchedType
    <3> QED
      BY <1>3, <2>1, <2>4, <3>1, MergeOrInsertType DEF TypeOK
  <2>5. CASE FirstHeartbeat(n, v)
    <3>1. CASE StoreEvent(n, RowId(tx, None), v) /\ Remember(n, None)
      <4>1. tx' \in Tables /\ cache' \in [Name -> CacheEntry \cup {None}]
        BY <1>3, <2>1, <3>1, EventParts, StoreEventType
      <4> QED
        BY <2>1, <3>1, <4>1 DEF TypeOK, Remember
    <3>2. CASE Remember(n, None) /\ UNCHANGED <<tx, cache>>
      BY <2>1, <3>2 DEF TypeOK, Remember
    <3> QED
      BY <2>5, <3>1, <3>2 DEF FirstHeartbeat
  <2> QED
    BY <1>3, <2>3, <2>4, <2>5 DEF Heartbeat, Rejected
<1> QED
  BY <1>1, <1>2, <1>3

\* The tables after an UPDATE of the host or of the names of bucket rows.
HostMigrated(t, hit) ==
    [t EXCEPT !.bucket = [b \in Bid |-> IF b \in hit THEN [t.bucket[b] EXCEPT !.host = "known"]
                                        ELSE t.bucket[b]]]
NamesMigrated(t, hit) ==
    [t EXCEPT !.bucket = [b \in Bid |-> IF b \in hit THEN [t.bucket[b] EXCEPT !.name = Target[@]]
                                        ELSE t.bucket[b]]]

UnknownHosts == {b \in Bid : tx.bucket[b] # None /\ tx.bucket[b].host = "unknown"}
TestBuckets == {b \in Bid : /\ tx.bucket[b] # None
                            /\ tx.bucket[b].name \in TestName
                            /\ Named(tx, Target[tx.bucket[b].name]) = {}}

\* The migrations, in terms of the rows they hit.
LEMMA MigrationParts ==
  /\ MigrateHostname =>
        /\ IF UnknownHosts = {} THEN UNCHANGED <<tx, cache, commit>>
           ELSE /\ tx' = HostMigrated(tx, UnknownHosts)
                /\ cache' = Refreshed(HostMigrated(tx, UnknownHosts), cache)
                /\ commit' = TRUE
        /\ UNCHANGED <<disk, last, diverged, stale>>
  /\ MigrateTestBucketNames =>
        /\ IF TestBuckets = {} THEN UNCHANGED <<tx, cache, commit, diverged>>
           ELSE /\ tx' = NamesMigrated(tx, TestBuckets)
                /\ cache' = Refreshed(NamesMigrated(tx, TestBuckets), cache)
                /\ commit' = TRUE /\ diverged' = TRUE
        /\ UNCHANGED <<disk, last, stale>>
  BY DEF MigrateHostname, MigrateTestBucketNames, HostMigrated, NamesMigrated,
         UnknownHosts, TestBuckets

\* Both migrations keep everything well typed.
LEMMA MigrationsType ==
  ASSUME TypeOK, MigrateHostname \/ MigrateTestBucketNames
  PROVE  TypeOK'
<1>1. HostMigrated(tx, UnknownHosts) \in Tables
  <2>1. \A b \in UnknownHosts : [tx.bucket[b] EXCEPT !.host = "known"] \in BucketRow
    BY DEF UnknownHosts, TypeOK, Tables, BucketRow, Host
  <2> QED
    BY <2>1 DEF HostMigrated, TypeOK, Tables
<1>2. NamesMigrated(tx, TestBuckets) \in Tables
  <2>1. ASSUME NEW b \in TestBuckets
        PROVE  [tx.bucket[b] EXCEPT !.name = Target[@]] \in BucketRow
    <3>1. tx.bucket[b] \in BucketRow /\ tx.bucket[b].name \in TestName
      BY DEF TestBuckets, TypeOK, Tables
    <3>2. Target[tx.bucket[b].name] \in Name
      BY <3>1, DatastoreAssumption
    <3> QED
      BY <3>1, <3>2 DEF BucketRow
  <2> QED
    BY <2>1 DEF NamesMigrated, TypeOK, Tables
<1>3. /\ Refreshed(HostMigrated(tx, UnknownHosts), cache) \in [Name -> CacheEntry \cup {None}]
      /\ Refreshed(NamesMigrated(tx, TestBuckets), cache) \in [Name -> CacheEntry \cup {None}]
  BY <1>1, <1>2, RefreshedType DEF TypeOK
<1>4. CASE MigrateHostname
  BY <1>1, <1>3, <1>4, MigrationParts DEF TypeOK
<1>5. CASE MigrateTestBucketNames
  BY <1>2, <1>3, <1>5, MigrationParts DEF TypeOK
<1> QED
  BY <1>4, <1>5

\* So do the end of a transaction and a restart.
LEMMA ProcessType ==
  ASSUME TypeOK, Commit \/ CommitFails \/ Reopen
  PROVE  TypeOK'
<1>1. CASE Commit
  BY <1>1 DEF Commit, TypeOK
<1>2. CASE CommitFails
  BY <1>2 DEF CommitFails, TypeOK
<1>3. CASE Reopen
  <2>1. NoCache \in [Name -> CacheEntry \cup {None}]
    BY DEF NoCache
  <2>2. Refreshed(disk, NoCache) \in [Name -> CacheEntry \cup {None}]
    BY <2>1, RefreshedType DEF TypeOK
  <2> QED
    BY <1>3, <2>2 DEF Reopen, TypeOK
<1> QED
  BY <1>1, <1>2, <1>3

\* Every step keeps everything well typed.
LEMMA TypeStep == TypeOK /\ [Next]_vars => TypeOK'
<1> SUFFICES ASSUME TypeOK, [Next]_vars PROVE TypeOK'
  OBVIOUS
<1>1. ASSUME NEW n \in Name, Command(n) PROVE TypeOK'
  <2>1. CASE \E host \in NewHost, import \in Import \cup {None} : CreateBucket(n, host, import)
    BY <2>1, CreateBucketType
  <2>2. CASE DeleteBucket(n) \/ (\E id \in Eid : DeleteEvent(n, id))
                             \/ (\E new \in Name : RenameBucket(n, new))
    BY <2>2, BucketCommandsType
  <2>3. CASE \/ \E id \in Eid \cup {None}, v \in Body : InsertEvent(n, id, v)
             \/ \E hb \in Beat, pulse \in Pulse : Heartbeat(n, hb, pulse)
    BY <2>3, EventCommandsType
  <2> QED
    BY <1>1, <2>1, <2>2, <2>3 DEF Command
<1>2. CASE UNCHANGED vars
  BY <1>2 DEF TypeOK, vars
<1> QED
  BY <1>1, <1>2, MigrationsType, ProcessType DEF Next

-----------------------------------------------------------------------------
(* The schema's promises                                                   *)

\* An event goes into a bucket that exists: the tables stay consistent and
\* the buckets are the same.
LEMMA PutEventConsistent ==
  ASSUME NEW t \in Tables, NEW id \in Eid, NEW b \in Bid, NEW v,
         Consistent(t), t.bucket[b] # None
  PROVE  Consistent(PutEvent(t, id, b, v)) /\ PutEvent(t, id, b, v).bucket = t.bucket
<1> DEFINE high == IF id > t.eseq THEN id ELSE t.eseq
           u == PutEvent(t, id, b, v)
<1>1. /\ u.bucket = t.bucket /\ u.bseq = t.bseq
      /\ u.event = [t.event EXCEPT ![id] = Row(b, v)] /\ u.eseq = high
  BY DEF PutEvent, Tables
<1>2. id <= high /\ t.eseq <= high /\ high \in Nat /\ t.eseq \in Nat /\ id \in Nat
  BY TablesParts, DatastoreAssumption DEF Eid
<1>3. t.event \in [Eid -> EventRow \cup {None}]
  BY DEF Tables
<1>4. Row(b, v).b = b
  BY DEF Row
<1> HIDE DEF u, high
<1>5. ASSUME NEW i \in Eid, u.event[i] # None
      PROVE  u.bucket[u.event[i].b] # None /\ i <= u.eseq
  <2>1. CASE i = id
    BY <1>1, <1>2, <1>3, <1>4, <2>1
  <2>2. CASE i # id
    <3>1. u.event[i] = t.event[i]
      BY <1>1, <1>3, <2>2
    <3>2. t.bucket[t.event[i].b] # None /\ i <= t.eseq
      BY <1>5, <3>1 DEF Consistent
    <3>3. i \in Nat
      BY DatastoreAssumption DEF Eid
    <3> QED
      BY <1>1, <1>2, <3>1, <3>2, <3>3
  <2> QED
    BY <2>1, <2>2
<1>6. Consistent(u)
  BY <1>1, <1>5 DEF Consistent
<1> QED
  BY <1>1, <1>6 DEF u

\* A new bucket row: its name was not taken and its id is above all others.
LEMMA WithBucketConsistent ==
  ASSUME NEW t \in Tables, NEW n \in Name, NEW host \in Host, Consistent(t), Named(t, n) = {},
         t.bseq + 1 \in Bid
  PROVE  LET u == [t EXCEPT !.bucket[t.bseq + 1] = [name |-> n, host |-> host],
                            !.bseq = t.bseq + 1]
         IN  /\ Consistent(u)
             /\ u.bucket = [t.bucket EXCEPT ![t.bseq + 1] = [name |-> n, host |-> host]]
             /\ u.event = t.event /\ t.bucket[t.bseq + 1] = None
<1> DEFINE b == t.bseq + 1
           row == [name |-> n, host |-> host]
           u == [t EXCEPT !.bucket[b] = row, !.bseq = b]
<1>1. /\ u.bucket = [t.bucket EXCEPT ![b] = row] /\ u.bseq = b
      /\ u.event = t.event /\ u.eseq = t.eseq
  BY DEF Tables
<1>2. t.bucket \in [Bid -> BucketRow \cup {None}] /\ t.bseq \in Nat
  BY DEF Tables
<1>3. row # None /\ row.name = n
  <2>1. row \in [name : Name, host : Host]
    OBVIOUS
  <2> QED
    BY <2>1, DatastoreAssumption
<1> HIDE DEF u, row
<1>4. t.bucket[b] = None
  BY <1>2 DEF Consistent
<1>5. ASSUME NEW c \in Bid, u.bucket[c] # None
      PROVE  c <= u.bseq /\ (c # b => u.bucket[c] = t.bucket[c] /\ u.bucket[c].name # n)
  <2>1. CASE c = b
    BY <1>1, <1>2, <2>1
  <2>2. CASE c # b
    <3>1. u.bucket[c] = t.bucket[c] /\ c <= t.bseq
      BY <1>1, <1>2, <1>5, <2>2 DEF Consistent
    <3>2. t.bucket[c].name # n
      BY <1>5, <3>1 DEF Named
    <3>3. c \in Nat
      BY DatastoreAssumption DEF Bid
    <3> QED
      BY <1>1, <1>2, <2>2, <3>1, <3>2, <3>3
  <2> QED
    BY <2>1, <2>2
<1>6. u.bucket[b].name = n
  BY <1>1, <1>2, <1>3
<1>7. ASSUME NEW i \in Eid, u.event[i] # None
      PROVE  u.bucket[u.event[i].b] # None /\ i <= u.eseq
  BY <1>1, <1>2, <1>3, <1>7 DEF Consistent
<1>8. ASSUME NEW c \in Bid, NEW d \in Bid, u.bucket[c] # None, u.bucket[d] # None,
             u.bucket[c].name = u.bucket[d].name
      PROVE  c = d
  <2>1. CASE c = b \/ d = b
    BY <1>5, <1>6, <1>8, <2>1
  <2>2. CASE c # b /\ d # b
    BY <1>5, <1>8, <2>2 DEF Consistent
  <2> QED
    BY <2>1, <2>2
<1>9. Consistent(u)
  BY <1>5, <1>7, <1>8 DEF Consistent
<1> QED
  BY <1>1, <1>4, <1>9 DEF u, row

\* A bucket goes together with its events.
LEMMA WithoutBucketConsistent ==
  ASSUME NEW t \in Tables, NEW b \in Bid, Consistent(t)
  PROVE  Consistent([t EXCEPT
                        !.event = [i \in Eid |-> IF i \in RowsOf(t, b) THEN None ELSE t.event[i]],
                        !.bucket[b] = None])
<1> DEFINE kept == [i \in Eid |-> IF i \in RowsOf(t, b) THEN None ELSE t.event[i]]
           u == [t EXCEPT !.event = kept, !.bucket[b] = None]
<1>1. /\ u.bucket = [t.bucket EXCEPT ![b] = None] /\ u.bseq = t.bseq
      /\ u.event = kept /\ u.eseq = t.eseq
  BY DEF Tables
<1>2. t.bucket \in [Bid -> BucketRow \cup {None}]
  BY DEF Tables
<1>3. \A i \in Eid : kept[i] # None =>
         t.event[i] # None /\ kept[i] = t.event[i] /\ t.event[i].b # b
  BY DEF RowsOf
<1>4. \A c \in Bid : u.bucket[c] # None => c # b /\ u.bucket[c] = t.bucket[c]
  BY <1>1, <1>2
<1>5. \A i \in Eid : t.event[i] # None => t.event[i].b \in Bid
  BY TablesParts
<1> HIDE DEF u, kept
<1>6. ASSUME NEW i \in Eid, u.event[i] # None
      PROVE  u.bucket[u.event[i].b] # None /\ i <= u.eseq
  BY <1>1, <1>2, <1>3, <1>5, <1>6 DEF Consistent
<1>7. Consistent(u)
  BY <1>1, <1>4, <1>6 DEF Consistent
<1> QED
  BY <1>7 DEF u, kept

\* Taking one event away breaks nothing.
LEMMA WithoutEventConsistent ==
  ASSUME NEW t \in Tables, NEW id \in Eid, Consistent(t)
  PROVE  Consistent([t EXCEPT !.event[id] = None])
<1> DEFINE u == [t EXCEPT !.event[id] = None]
<1>1. /\ u.bucket = t.bucket /\ u.bseq = t.bseq /\ u.eseq = t.eseq
      /\ \A i \in Eid : u.event[i] # None => u.event[i] = t.event[i]
  BY DEF Tables
<1> HIDE DEF u
<1>2. Consistent(u)
  BY <1>1 DEF Consistent
<1> QED
  BY <1>2 DEF u

\* Bucket rows keep their ids and stay unique by name: what an UPDATE must
\* respect for the tables to stay consistent.
LEMMA UpdatedBucketsConsistent ==
  ASSUME NEW t \in Tables, NEW u \in Tables, Consistent(t),
         u.event = t.event, u.bseq = t.bseq, u.eseq = t.eseq,
         \A b \in Bid : u.bucket[b] = None <=> t.bucket[b] = None,
         \A b, c \in Bid : /\ u.bucket[b] # None /\ u.bucket[c] # None
                           /\ u.bucket[b].name = u.bucket[c].name
                           => t.bucket[b].name = t.bucket[c].name
  PROVE  Consistent(u)
<1>1. \A i \in Eid : t.event[i] # None => t.event[i].b \in Bid
  BY TablesParts
<1> QED
  BY <1>1 DEF Consistent

\* rename_bucket's UPDATE, when the new name is free.
LEMMA WithNameConsistent ==
  ASSUME NEW t \in Tables, NEW old \in Name, NEW new \in Name, Consistent(t), Named(t, new) = {}
  PROVE  LET u == WithName(t, old, new)
         IN  /\ u \in Tables /\ Consistent(u) /\ u.event = t.event
             /\ \A b \in Bid : IF b \in Named(t, old)
                               THEN /\ u.bucket[b] # None /\ u.bucket[b].name = new
                                    /\ u.bucket[b].host = t.bucket[b].host
                               ELSE u.bucket[b] = t.bucket[b]
<1> DEFINE u == WithName(t, old, new)
<1>1. /\ u.event = t.event /\ u.bseq = t.bseq /\ u.eseq = t.eseq
      /\ u.bucket = [b \in Bid |-> IF b \in Named(t, old) THEN [t.bucket[b] EXCEPT !.name = new]
                                   ELSE t.bucket[b]]
  BY DEF WithName, Tables
<1>2. ASSUME NEW b \in Named(t, old)
      PROVE  /\ [t.bucket[b] EXCEPT !.name = new] \in BucketRow
             /\ [t.bucket[b] EXCEPT !.name = new].name = new
             /\ [t.bucket[b] EXCEPT !.name = new].host = t.bucket[b].host
  BY DEF Named, Tables, BucketRow
<1>3. None \notin BucketRow
  BY DatastoreAssumption DEF BucketRow
<1>4. u \in Tables
  BY <1>2 DEF WithName, Tables
<1> HIDE DEF u
<1>5. \A b \in Bid : IF b \in Named(t, old)
                     THEN /\ u.bucket[b] # None /\ u.bucket[b].name = new
                          /\ u.bucket[b].host = t.bucket[b].host
                     ELSE u.bucket[b] = t.bucket[b]
  <2> TAKE b \in Bid
  <2>1. CASE b \in Named(t, old)
    <3> DEFINE r == [t.bucket[b] EXCEPT !.name = new]
    <3>1. r \in BucketRow /\ r.name = new /\ r.host = t.bucket[b].host
      BY <1>2, <2>1
    <3>2. u.bucket[b] = r
      BY <1>1, <2>1
    <3> HIDE DEF r
    <3> QED
      BY <1>3, <2>1, <3>1, <3>2
  <2>2. CASE b \notin Named(t, old)
    BY <1>1, <2>2
  <2> QED
    BY <2>1, <2>2
<1>6. \A b \in Bid : u.bucket[b] = None <=> t.bucket[b] = None
  BY <1>5 DEF Named
<1>7. ASSUME NEW b \in Bid, NEW c \in Bid, u.bucket[b] # None, u.bucket[c] # None,
             u.bucket[b].name = u.bucket[c].name
      PROVE  t.bucket[b].name = t.bucket[c].name
  <2>1. \A d \in Bid : t.bucket[d] # None => t.bucket[d].name # new
    BY DEF Named
  <2>2. \A d \in Named(t, old) : t.bucket[d].name = old
    BY DEF Named
  <2>3. t.bucket[b] # None /\ t.bucket[c] # None
    BY <1>6, <1>7
  <2>4. CASE b \in Named(t, old) /\ c \in Named(t, old)
    BY <2>2, <2>4
  <2>5. CASE b \in Named(t, old) /\ c \notin Named(t, old)
    <3>1. u.bucket[b].name = new /\ u.bucket[c] = t.bucket[c]
      BY <1>5, <2>5
    <3> QED
      BY <1>7, <2>1, <2>3, <3>1
  <2>6. CASE b \notin Named(t, old) /\ c \in Named(t, old)
    <3>1. u.bucket[c].name = new /\ u.bucket[b] = t.bucket[b]
      BY <1>5, <2>6
    <3> QED
      BY <1>7, <2>1, <2>3, <3>1
  <2>7. CASE b \notin Named(t, old) /\ c \notin Named(t, old)
    BY <1>5, <1>7, <2>7
  <2> QED
    BY <2>4, <2>5, <2>6, <2>7
<1>8. Consistent(u)
  <2>1. \A b, c \in Bid : /\ u.bucket[b] # None /\ u.bucket[c] # None
                          /\ u.bucket[b].name = u.bucket[c].name
                          => t.bucket[b].name = t.bucket[c].name
    BY <1>7
  <2>2. u.event = t.event /\ u.bseq = t.bseq /\ u.eseq = t.eseq
    BY <1>1
  <2> QED
    BY <1>4, <1>6, <2>1, <2>2, UpdatedBucketsConsistent
<1> QED
  BY <1>1, <1>4, <1>5, <1>8 DEF u

\* migrate_hostname's UPDATE changes hosts only.
LEMMA HostMigratedConsistent ==
  ASSUME TypeOK, Consistent(tx)
  PROVE  LET u == HostMigrated(tx, UnknownHosts)
         IN  /\ u \in Tables /\ Consistent(u) /\ u.event = tx.event
             /\ \A b \in Bid : /\ u.bucket[b] = None <=> tx.bucket[b] = None
                               /\ u.bucket[b] # None => u.bucket[b].name = tx.bucket[b].name
<1> DEFINE u == HostMigrated(tx, UnknownHosts)
<1>1. /\ u.event = tx.event /\ u.bseq = tx.bseq /\ u.eseq = tx.eseq
      /\ u.bucket = [b \in Bid |-> IF b \in UnknownHosts
                                   THEN [tx.bucket[b] EXCEPT !.host = "known"]
                                   ELSE tx.bucket[b]]
  BY DEF HostMigrated, TypeOK, Tables
<1>2. ASSUME NEW b \in UnknownHosts
      PROVE  /\ tx.bucket[b] # None
             /\ [tx.bucket[b] EXCEPT !.host = "known"] \in BucketRow
             /\ [tx.bucket[b] EXCEPT !.host = "known"].name = tx.bucket[b].name
  BY DEF UnknownHosts, TypeOK, Tables, BucketRow, Host
<1>3. None \notin BucketRow
  BY DatastoreAssumption DEF BucketRow
<1>4. u \in Tables
  BY <1>2 DEF HostMigrated, TypeOK, Tables
<1> HIDE DEF u
<1>5. \A b \in Bid : /\ u.bucket[b] = None <=> tx.bucket[b] = None
                     /\ u.bucket[b] # None => u.bucket[b].name = tx.bucket[b].name
  BY <1>1, <1>2, <1>3
<1>6. Consistent(u)
  <2>1. tx \in Tables
    BY DEF TypeOK
  <2> QED
    BY <1>1, <1>4, <1>5, <2>1, UpdatedBucketsConsistent
<1> QED
  BY <1>1, <1>4, <1>5, <1>6 DEF u

\* migrate_test_bucket_names' UPDATE OR IGNORE gives no name to two buckets.
LEMMA NamesMigratedConsistent ==
  ASSUME TypeOK, Consistent(tx)
  PROVE  NamesMigrated(tx, TestBuckets) \in Tables /\ Consistent(NamesMigrated(tx, TestBuckets))
<1> DEFINE u == NamesMigrated(tx, TestBuckets)
<1>1. /\ u.event = tx.event /\ u.bseq = tx.bseq /\ u.eseq = tx.eseq
      /\ u.bucket = [b \in Bid |-> IF b \in TestBuckets
                                   THEN [tx.bucket[b] EXCEPT !.name = Target[@]]
                                   ELSE tx.bucket[b]]
  BY DEF NamesMigrated, TypeOK, Tables
<1>2. ASSUME NEW b \in TestBuckets
      PROVE  /\ tx.bucket[b] # None /\ tx.bucket[b].name \in TestName
             /\ Named(tx, Target[tx.bucket[b].name]) = {}
             /\ [tx.bucket[b] EXCEPT !.name = Target[@]] \in BucketRow
             /\ [tx.bucket[b] EXCEPT !.name = Target[@]].name = Target[tx.bucket[b].name]
  <2>1. tx.bucket[b] # None /\ tx.bucket[b] \in BucketRow /\ tx.bucket[b].name \in TestName
    BY DEF TestBuckets, TypeOK, Tables
  <2>2. Target[tx.bucket[b].name] \in Name
    BY <2>1, DatastoreAssumption
  <2> QED
    BY <2>1, <2>2 DEF BucketRow, TestBuckets
<1>3. None \notin BucketRow
  BY DatastoreAssumption DEF BucketRow
<1>4. u \in Tables
  BY <1>2 DEF NamesMigrated, TypeOK, Tables
<1> HIDE DEF u
<1>5. \A b \in Bid : u.bucket[b] = None <=> tx.bucket[b] = None
  BY <1>1, <1>2, <1>3
<1>6. \A b \in TestBuckets : /\ tx.bucket[b].name \in TestName
                             /\ u.bucket[b].name = Target[tx.bucket[b].name]
                             /\ \A c \in Bid : tx.bucket[c] # None =>
                                   tx.bucket[c].name # u.bucket[b].name
  <2>1. TestBuckets \subseteq Bid
    BY DEF TestBuckets
  <2> QED
    BY <1>1, <1>2, <2>1 DEF Named
<1>7. \A b \in Bid \ TestBuckets : u.bucket[b] = tx.bucket[b]
  BY <1>1
<1>8. ASSUME NEW b \in Bid, NEW c \in Bid, u.bucket[b] # None, u.bucket[c] # None,
             u.bucket[b].name = u.bucket[c].name
      PROVE  tx.bucket[b].name = tx.bucket[c].name
  <2>1. \A n, m \in TestName : Target[n] = Target[m] => n = m
    BY DatastoreAssumption
  <2> QED
    BY <1>5, <1>6, <1>7, <1>8, <2>1
<1>9. Consistent(u)
  <2>1. tx \in Tables
    BY DEF TypeOK
  <2>2. \A b, c \in Bid : /\ u.bucket[b] # None /\ u.bucket[c] # None
                          /\ u.bucket[b].name = u.bucket[c].name
                          => tx.bucket[b].name = tx.bucket[c].name
    BY <1>8
  <2>3. u.event = tx.event /\ u.bseq = tx.bseq /\ u.eseq = tx.eseq
    BY <1>1
  <2> QED
    BY <1>4, <1>5, <2>1, <2>2, <2>3, UpdatedBucketsConsistent
<1> QED
  BY <1>4, <1>9 DEF u

\* The cache knows the same buckets as before, with the same row ids.
SameBuckets ==
    \A m \in Name : /\ cache'[m] = None <=> cache[m] = None
                    /\ cache[m] # None => /\ cache'[m].bid = cache[m].bid
                                          /\ cache'[m].host = cache[m].host

\* Writing one event into an existing bucket row touches no bucket.
LEMMA StoreEventKeepsBuckets ==
  ASSUME TypeOK, Consistent(tx), NEW n \in Name, cache[n] # None, NEW id, NEW v,
         v.s \in Nat, v.e \in Nat, v.d \in Data, BucketRowExists(n), StoreEvent(n, id, v)
  PROVE  Consistent(tx') /\ tx'.bucket = tx.bucket /\ SameBuckets
<1>1. cache[n] \in CacheEntry /\ cache[n].bid \in Bid /\ id \in Eid /\ tx \in Tables
  BY DEF TypeOK, CacheEntry, StoreEvent
<1>2. Consistent(tx') /\ tx'.bucket = tx.bucket
  BY <1>1, PutEventConsistent DEF StoreEvent, BucketRowExists
<1>3. /\ Cover(cache[n], v) \in CacheEntry
      /\ Cover(cache[n], v).bid = cache[n].bid /\ Cover(cache[n], v).host = cache[n].host
  BY <1>1, CoverEntry
<1>4. cache' = [cache EXCEPT ![n] = Cover(cache[n], v)] /\ cache \in [Name -> CacheEntry \cup {None}]
  BY DEF StoreEvent, TypeOK
<1>5. None \notin CacheEntry
  BY DatastoreAssumption DEF CacheEntry
<1> QED
  BY <1>2, <1>3, <1>4, <1>5 DEF SameBuckets

\* So does a heartbeat, whichever event it is compared with.
LEMMA MergeOrInsertKeepsBuckets ==
  ASSUME TypeOK, Consistent(tx), NEW n \in Name, cache[n] # None, NEW l \in CachedEvent,
         NEW hb \in Beat, NEW pulse, MergeOrInsert(n, l, hb, pulse)
  PROVE  Consistent(tx') /\ tx'.bucket = tx.bucket /\ SameBuckets
<1>1. hb.s \in Nat /\ hb.e \in Nat /\ hb.d \in Data
  BY EventParts
<1> DEFINE m == Merged(l, hb)
<1>2. m.s \in Nat /\ m.e \in Nat /\ m.d \in Data
  <2>1. m \in CachedEvent
    BY <1>1, MergedParts
  <2> QED
    BY <2>1 DEF CachedEvent
<1> HIDE DEF m
<1>3. CASE l.id \in RowsOf(tx, cache[n].bid) /\ StoreEvent(n, l.id, m)
  <2>1. BucketRowExists(n)
    BY <1>3 DEF RowsOf, Consistent, BucketRowExists
  <2> QED
    BY <1>2, <1>3, <2>1, StoreEventKeepsBuckets
<1>4. CASE UNCHANGED <<tx, cache>>
  BY <1>4 DEF SameBuckets
<1>5. CASE BucketRowExists(n) /\ StoreEvent(n, RowId(tx, None), hb)
  BY <1>1, <1>5, StoreEventKeepsBuckets
<1> QED
  BY <1>3, <1>4, <1>5 DEF MergeOrInsert, m

\* insert_events and heartbeat touch no bucket and keep the tables consistent.
LEMMA EventCommandsKeepBuckets ==
  ASSUME TypeOK, Consistent(tx), NEW n \in Name, NEW id, NEW v, NEW pulse,
         \/ v \in Body /\ InsertEvent(n, id, v)
         \/ v \in Beat /\ Heartbeat(n, v, pulse)
  PROVE  /\ Consistent(tx') /\ tx'.bucket = tx.bucket /\ SameBuckets
         /\ disk' = disk /\ diverged' = diverged
<1>1. CASE UNCHANGED vars
  BY <1>1 DEF vars, SameBuckets
<1>2. CASE v \in Body /\ InsertEvent(n, id, v) /\ ~UNCHANGED vars
  <2>1. /\ cache[n] # None /\ BucketRowExists(n) /\ StoreEvent(n, RowId(tx, id), v)
        /\ UNCHANGED <<disk, diverged>>
    BY <1>2 DEF InsertEvent, Rejected
  <2> QED
    BY <1>2, <2>1, EventParts, StoreEventKeepsBuckets
<1>3. CASE v \in Beat /\ Heartbeat(n, v, pulse) /\ ~UNCHANGED vars
  <2>1. cache[n] # None /\ UNCHANGED <<disk, diverged>>
    BY <1>3 DEF Heartbeat, Rejected
  <2>2. cache[n].bid \in Bid
    BY <2>1 DEF TypeOK, CacheEntry
  <2>3. CASE last[n] # None /\ MergeOrInsert(n, last[n], v, pulse)
    <3>1. last[n] \in CachedEvent
      BY <2>3 DEF TypeOK
    <3> QED
      BY <1>3, <2>1, <2>3, <3>1, MergeOrInsertKeepsBuckets
  <2>4. ASSUME NEW i \in Newest(tx, cache[n].bid),
               MergeOrInsert(n, AsCached(i, tx.event[i]), v, pulse)
        PROVE  Consistent(tx') /\ tx'.bucket = tx.bucket /\ SameBuckets
    <3>1. AsCached(i, tx.event[i]) \in CachedEvent
      BY <2>2, FetchedType
    <3> QED
      BY <1>3, <2>1, <2>4, <3>1, MergeOrInsertKeepsBuckets
  <2>5. CASE FirstHeartbeat(n, v)
    <3>1. CASE BucketRowExists(n) /\ StoreEvent(n, RowId(tx, None), v)
      BY <1>3, <2>1, <3>1, EventParts, StoreEventKeepsBuckets
    <3>2. CASE UNCHANGED <<tx, cache>>
      BY <2>1, <3>2 DEF SameBuckets
    <3> QED
      BY <2>5, <3>1, <3>2 DEF FirstHeartbeat
  <2> QED
    BY <1>3, <2>1, <2>3, <2>4, <2>5 DEF Heartbeat, Rejected
<1> QED
  BY <1>1, <1>2, <1>3

\* create_bucket: the new row has an id of its own and the cache knows it;
\* nothing else about buckets changes.
LEMMA CreateBucketAdds ==
  ASSUME TypeOK, Consistent(tx), NEW n \in Name, NEW host \in NewHost,
         NEW import \in Import \cup {None}, CreateBucket(n, host, import), ~UNCHANGED vars
  PROVE  /\ Consistent(tx') /\ disk' = disk /\ diverged' = diverged
         /\ Named(tx, n) = {} /\ tx.bseq + 1 \in Bid /\ tx.bucket[tx.bseq + 1] = None
         /\ tx'.bucket = [tx.bucket EXCEPT ![tx.bseq + 1] = [name |-> n, host |-> host]]
         /\ cache'[n] # None /\ cache'[n].bid = tx.bseq + 1 /\ cache'[n].host = host
         /\ \A m \in Name \ {n} : cache'[m] = cache[m]
<1> DEFINE b == tx.bseq + 1
           row == [name |-> n, host |-> host]
           withBucket == [tx EXCEPT !.bucket[b] = row, !.bseq = b]
           entry == [bid |-> b, host |-> host, start |-> None, end |-> None]
<1>1. b \in Bid /\ Named(tx, n) = {} /\ UNCHANGED <<disk, diverged>>
  BY DEF CreateBucket, Rejected
<1>2. host \in Host /\ tx \in Tables
  BY DatastoreAssumption DEF TypeOK
<1>3. /\ withBucket \in Tables /\ Consistent(withBucket)
      /\ withBucket.bucket = [tx.bucket EXCEPT ![b] = row] /\ tx.bucket[b] = None
  <2>1. withBucket \in Tables
    BY <1>1, <1>2, WithBucketType
  <2>2. /\ Consistent(withBucket)
        /\ withBucket.bucket = [tx.bucket EXCEPT ![b] = row] /\ tx.bucket[b] = None
    <3> DEFINE t == tx
    <3>1. t \in Tables
      BY <1>2
    <3>2. host \in Host
      BY <1>2
    <3>3. Consistent(t)
      OBVIOUS
    <3>4. Named(t, n) = {}
      BY <1>1
    <3>5. t.bseq + 1 \in Bid
      BY <1>1
    <3> HIDE DEF t
    <3> DEFINE v == [t EXCEPT !.bucket[t.bseq + 1] = [name |-> n, host |-> host],
                              !.bseq = t.bseq + 1]
    <3>6. /\ Consistent(v)
          /\ v.bucket = [t.bucket EXCEPT ![t.bseq + 1] = [name |-> n, host |-> host]]
          /\ v.event = t.event /\ t.bucket[t.bseq + 1] = None
      BY <3>1, <3>2, <3>3, <3>4, <3>5, WithBucketConsistent
    <3> QED
      BY <3>6 DEF t
  <2> QED
    BY <2>1, <2>2
<1>4. entry \in CacheEntry /\ entry.bid = b /\ entry.host = host
  BY <1>1, <1>2 DEF CacheEntry
<1>5. None \notin CacheEntry /\ None \notin BucketRow /\ row \in BucketRow
  BY <1>2, DatastoreAssumption DEF CacheEntry, BucketRow
<1>6. tx.bucket \in [Bid -> BucketRow \cup {None}] /\ cache \in [Name -> CacheEntry \cup {None}]
  BY DEF TypeOK, Tables
<1>7. \/ tx' = withBucket /\ cache' = [cache EXCEPT ![n] = entry]
      \/ /\ import # None /\ RowId(tx, import.id) \in Eid
         /\ tx' = PutEvent(withBucket, RowId(tx, import.id), b, import.v)
         /\ cache' = [cache EXCEPT ![n] = Cover(entry, import.v)]
  BY DEF CreateBucket, Rejected
<1> HIDE DEF withBucket, entry, row
<1>8. CASE tx' = withBucket /\ cache' = [cache EXCEPT ![n] = entry]
  BY <1>1, <1>3, <1>4, <1>5, <1>6, <1>8 DEF row
<1>9. CASE /\ import # None /\ RowId(tx, import.id) \in Eid
           /\ tx' = PutEvent(withBucket, RowId(tx, import.id), b, import.v)
           /\ cache' = [cache EXCEPT ![n] = Cover(entry, import.v)]
  <2>1. import.v \in Body
    BY <1>9 DEF Import
  <2>2. import.v.s \in Nat /\ import.v.e \in Nat
    BY <2>1, EventParts
  <2>3. withBucket.bucket[b] # None
    BY <1>1, <1>3, <1>5, <1>6
  <2>4. Consistent(tx') /\ tx'.bucket = withBucket.bucket
    BY <1>1, <1>3, <1>9, <2>3, PutEventConsistent
  <2>5. /\ Cover(entry, import.v) \in CacheEntry
        /\ Cover(entry, import.v).bid = b /\ Cover(entry, import.v).host = host
    BY <1>4, <2>2, CoverEntry
  <2> QED
    BY <1>1, <1>3, <1>5, <1>6, <1>9, <2>4, <2>5 DEF row
<1> QED
  BY <1>7, <1>8, <1>9

\* Every step keeps both copies of the tables consistent.
LEMMA ConsistentStep == TypeOK /\ TablesConsistent /\ [Next]_vars => TablesConsistent'
<1> SUFFICES ASSUME TypeOK, TablesConsistent, [Next]_vars PROVE TablesConsistent'
  OBVIOUS
<1> USE DEF TablesConsistent
<1>1. tx \in Tables /\ Consistent(tx) /\ Consistent(disk)
  BY DEF TypeOK
<1>2. CASE UNCHANGED vars
  BY <1>2 DEF vars
<1>3. ASSUME NEW n \in Name, Command(n), ~UNCHANGED vars PROVE TablesConsistent'
  <2>1. ASSUME NEW host \in NewHost, NEW import \in Import \cup {None},
               CreateBucket(n, host, import)
        PROVE  TablesConsistent'
    BY <1>1, <1>3, <2>1, CreateBucketAdds
  <2>2. CASE DeleteBucket(n)
    <3>1. cache[n] # None /\ cache[n].bid \in Bid
      BY <1>3, <2>2 DEF DeleteBucket, Rejected, TypeOK, CacheEntry
    <3> QED
      BY <1>1, <2>2, <3>1, WithoutBucketConsistent DEF DeleteBucket
  <2>3. CASE \/ \E id \in Eid \cup {None}, v \in Body : InsertEvent(n, id, v)
             \/ \E hb \in Beat, pulse \in Pulse : Heartbeat(n, hb, pulse)
    BY <1>1, <2>3, EventCommandsKeepBuckets
  <2>4. ASSUME NEW id \in Eid, DeleteEvent(n, id) PROVE TablesConsistent'
    BY <1>1, <1>3, <2>4, WithoutEventConsistent DEF DeleteEvent, Rejected
  <2>5. ASSUME NEW new \in Name, RenameBucket(n, new) PROVE TablesConsistent'
    BY <1>1, <1>3, <2>5, WithNameConsistent DEF RenameBucket, Rejected
  <2> QED
    BY <1>3, <2>1, <2>2, <2>3, <2>4, <2>5 DEF Command
<1>4. CASE MigrateHostname
  BY <1>1, <1>4, MigrationParts, HostMigratedConsistent
<1>5. CASE MigrateTestBucketNames
  BY <1>1, <1>5, MigrationParts, NamesMigratedConsistent
<1>6. CASE Commit \/ CommitFails \/ Reopen
  BY <1>1, <1>6 DEF Commit, CommitFails, Reopen
<1> QED
  BY <1>2, <1>3, <1>4, <1>5, <1>6 DEF Next

-----------------------------------------------------------------------------
(* The bucket cache                                                        *)

\* Names, seen from the bucket rows.
LEMMA NamedByBuckets ==
  ASSUME NEW t, NEW u, u.bucket = t.bucket
  PROVE  \A n : Named(u, n) = Named(t, n)
  BY DEF Named

\* What get_stored_buckets reads from consistent tables mirrors them, when
\* the cache held nothing else.
LEMMA RefreshedMirrors ==
  ASSUME NEW t \in Tables, Consistent(t), NEW c, NEW n \in Name, Named(t, n) = {} => c[n] = None
  PROVE  LET entry == Refreshed(t, c)[n]
         IN  \/ entry = None /\ Named(t, n) = {}
             \/ /\ entry # None /\ Named(t, n) = {entry.bid}
                /\ t.bucket[entry.bid].host = entry.host
<1>1. CASE Named(t, n) = {}
  BY <1>1 DEF Refreshed
<1>2. CASE Named(t, n) # {}
  <2> DEFINE b == CHOOSE x \in Named(t, n) : TRUE
  <2>1. b \in Named(t, n)
    BY <1>2
  <2>2. b \in Bid /\ t.bucket[b] # None /\ t.bucket[b].name = n
    BY <2>1 DEF Named
  <2>3. Named(t, n) = {b}
    BY <2>1, <2>2 DEF Named, Consistent
  <2>4. Refreshed(t, c)[n] = StoredEntry(t, b)
    BY <1>2 DEF Refreshed
  <2> HIDE DEF b
  <2>5. StoredEntry(t, b) \in CacheEntry
    BY <2>2, StoredEntryType
  <2>6. None \notin CacheEntry
    BY DatastoreAssumption DEF CacheEntry
  <2>7. StoredEntry(t, b).bid = b /\ StoredEntry(t, b).host = t.bucket[b].host
    BY DEF StoredEntry
  <2> QED
    BY <2>3, <2>4, <2>5, <2>6, <2>7
<1> QED
  BY <1>1, <1>2

\* Every step, as long as no rollback or renaming migration left the cache
\* behind, keeps it a mirror of the buckets table.
LEMMA MirrorStep ==
  TypeOK /\ TablesConsistent /\ CacheMirrorsTables /\ [Next]_vars => CacheMirrorsTables'
<1> SUFFICES ASSUME TypeOK, TablesConsistent, CacheMirrorsTables, [Next]_vars, ~diverged',
                    NEW n \in Name
             PROVE  CacheMirrors(n)'
  BY DEF CacheMirrorsTables
<1>1. tx \in Tables /\ disk \in Tables /\ Consistent(tx) /\ Consistent(disk)
  BY DEF TypeOK, TablesConsistent
<1>2. /\ cache \in [Name -> CacheEntry \cup {None}]
      /\ tx.bucket \in [Bid -> BucketRow \cup {None}]
      /\ None \notin BucketRow
  BY DatastoreAssumption DEF TypeOK, Tables, BucketRow
<1>3. CASE Reopen
  <2>1. NoCache[n] = None
    BY DEF NoCache
  <2> QED
    BY <1>1, <1>3, <2>1, RefreshedMirrors DEF Reopen, CacheMirrors
<1>4. ASSUME diverged' = diverged PROVE \A m \in Name : CacheMirrors(m)
  BY <1>4 DEF CacheMirrorsTables
<1>5. ASSUME tx'.bucket = tx.bucket, SameBuckets, diverged' = diverged PROVE CacheMirrors(n)'
  <2>1. CacheMirrors(n) /\ Named(tx', n) = Named(tx, n)
    BY <1>4, <1>5, NamedByBuckets
  <2>2. /\ cache'[n] = None <=> cache[n] = None
        /\ cache[n] # None => cache'[n].bid = cache[n].bid /\ cache'[n].host = cache[n].host
    BY <1>5 DEF SameBuckets
  <2> QED
    BY <1>5, <2>1, <2>2 DEF CacheMirrors
<1>6. CASE UNCHANGED <<tx, cache, diverged>>
  BY <1>5, <1>6 DEF SameBuckets
<1>7. ASSUME NEW m \in Name, Command(m), ~UNCHANGED vars PROVE CacheMirrors(n)'
  <2>1. ASSUME NEW host \in NewHost, NEW import \in Import \cup {None},
               CreateBucket(m, host, import)
        PROVE  CacheMirrors(n)'
    <3> DEFINE b == tx.bseq + 1
               row == [name |-> m, host |-> host]
    <3>1. /\ diverged' = diverged /\ Named(tx, m) = {} /\ b \in Bid /\ tx.bucket[b] = None
          /\ tx'.bucket = [tx.bucket EXCEPT ![b] = row]
          /\ cache'[m] # None /\ cache'[m].bid = b /\ cache'[m].host = host
          /\ \A k \in Name \ {m} : cache'[k] = cache[k]
      BY <1>1, <1>7, <2>1, CreateBucketAdds
    <3>2. row # None /\ row.name = m /\ row.host = host
      <4>1. row \in BucketRow
        BY DatastoreAssumption DEF BucketRow
      <4> QED
        BY <1>2, <4>1
    <3> HIDE DEF b, row
    <3>3. CASE n = m
      <4>1. Named(tx', m) = {b}
        BY <1>2, <3>1, <3>2 DEF Named
      <4> QED
        BY <1>2, <3>1, <3>2, <3>3, <4>1 DEF CacheMirrors
    <3>4. CASE n # m
      <4>1. Named(tx', n) = Named(tx, n)
        BY <1>2, <3>1, <3>2, <3>4 DEF Named
      <4>2. CacheMirrors(n) /\ cache'[n] = cache[n]
        BY <1>4, <3>1, <3>4
      <4>3. \A x \in Named(tx, n) : tx'.bucket[x] = tx.bucket[x]
        BY <1>2, <3>1 DEF Named
      <4> QED
        BY <4>1, <4>2, <4>3 DEF CacheMirrors
    <3> QED
      BY <3>3, <3>4
  <2>2. CASE DeleteBucket(m)
    <3> DEFINE b == cache[m].bid
    <3>1. /\ cache[m] # None /\ b \in Bid /\ diverged' = diverged
          /\ cache' = [cache EXCEPT ![m] = None]
      BY <1>7, <2>2 DEF DeleteBucket, Rejected, TypeOK, CacheEntry
    <3>2. tx'.bucket = [tx.bucket EXCEPT ![b] = None]
      BY <2>2, <3>1 DEF DeleteBucket, TypeOK, Tables
    <3>3. Named(tx, m) = {b} /\ CacheMirrors(n)
      BY <1>4, <3>1 DEF CacheMirrors
    <3> HIDE DEF b
    <3>4. CASE n = m
      <4>1. Named(tx', m) = {}
        BY <1>2, <3>1, <3>2, <3>3 DEF Named
      <4> QED
        BY <1>2, <3>1, <3>4, <4>1 DEF CacheMirrors
    <3>5. CASE n # m
      <4>1. b \notin Named(tx, n)
        BY <3>3, <3>5 DEF Named
      <4>2. Named(tx', n) = Named(tx, n) /\ \A x \in Named(tx, n) : tx'.bucket[x] = tx.bucket[x]
        BY <1>2, <3>1, <3>2, <4>1 DEF Named
      <4>3. cache'[n] = cache[n]
        BY <1>2, <3>1, <3>5
      <4> QED
        BY <3>3, <4>2, <4>3 DEF CacheMirrors
    <3> QED
      BY <3>4, <3>5
  <2>3. CASE \/ \E id \in Eid \cup {None}, v \in Body : InsertEvent(m, id, v)
             \/ \E hb \in Beat, pulse \in Pulse : Heartbeat(m, hb, pulse)
    BY <1>1, <1>5, <2>3, EventCommandsKeepBuckets
  <2>4. ASSUME NEW id \in Eid, DeleteEvent(m, id) PROVE CacheMirrors(n)'
    <3>1. UNCHANGED <<cache, diverged>> /\ tx'.bucket = tx.bucket
      BY <1>7, <2>4 DEF DeleteEvent, Rejected, TypeOK, Tables
    <3> QED
      BY <1>5, <3>1 DEF SameBuckets
  <2>5. ASSUME NEW new \in Name, RenameBucket(m, new) PROVE CacheMirrors(n)'
    <3>1. /\ cache[m] # None /\ cache[new] = None /\ diverged' = diverged
          /\ Named(tx, new) = {} /\ tx' = WithName(tx, m, new)
          /\ cache' = [cache EXCEPT ![new] = cache[m], ![m] = None]
      BY <1>7, <2>5 DEF RenameBucket, Rejected
    <3>2. Named(tx, m) = {cache[m].bid} /\ tx.bucket[cache[m].bid].host = cache[m].host
      BY <1>4, <3>1 DEF CacheMirrors
    <3>3. \A b \in Bid : IF b \in Named(tx, m)
                         THEN /\ tx'.bucket[b] # None /\ tx'.bucket[b].name = new
                              /\ tx'.bucket[b].host = tx.bucket[b].host
                         ELSE tx'.bucket[b] = tx.bucket[b]
      BY <1>1, <3>1, WithNameConsistent
    <3>4. m # new /\ cache'[m] = None /\ cache'[new] = cache[m]
          /\ \A k \in Name \ {m, new} : cache'[k] = cache[k]
      BY <1>2, <3>1
    <3>5. /\ Named(tx', m) = {} /\ Named(tx', new) = Named(tx, m)
          /\ \A k \in Name \ {m, new} : Named(tx', k) = Named(tx, k)
      BY <3>1, <3>3, <3>4 DEF Named
    <3>6. CASE n = m
      BY <3>4, <3>5, <3>6 DEF CacheMirrors
    <3>7. CASE n = new
      <4>1. cache[m].bid \in Bid
        BY <3>2 DEF Named
      <4>2. tx'.bucket[cache[m].bid].host = cache[m].host
        BY <3>2, <3>3, <4>1
      <4> QED
        BY <3>1, <3>2, <3>4, <3>5, <3>7, <4>2 DEF CacheMirrors
    <3>8. CASE n \notin {m, new}
      <4>1. CacheMirrors(n) /\ cache'[n] = cache[n] /\ Named(tx', n) = Named(tx, n)
        BY <1>4, <3>1, <3>4, <3>5, <3>8
      <4>2. \A x \in Named(tx, n) : tx'.bucket[x] = tx.bucket[x]
        BY <3>3, <3>8 DEF Named
      <4> QED
        BY <4>1, <4>2 DEF CacheMirrors
    <3> QED
      BY <3>6, <3>7, <3>8
  <2> QED
    BY <1>7, <2>1, <2>2, <2>3, <2>4, <2>5 DEF Command
<1>8. CASE MigrateHostname
  <2>1. diverged' = diverged /\ CacheMirrors(n)
    BY <1>4, <1>8, MigrationParts
  <2>2. CASE UnknownHosts = {}
    BY <1>6, <1>8, <2>1, <2>2, MigrationParts
  <2>3. CASE UnknownHosts # {}
    <3>1. /\ tx' \in Tables /\ Consistent(tx')
          /\ \A b \in Bid : /\ tx'.bucket[b] = None <=> tx.bucket[b] = None
                            /\ tx'.bucket[b] # None => tx'.bucket[b].name = tx.bucket[b].name
          /\ cache' = Refreshed(tx', cache)
      BY <1>1, <1>8, <2>3, MigrationParts, HostMigratedConsistent
    <3>2. Named(tx', n) = Named(tx, n)
      BY <3>1 DEF Named
    <3>3. Named(tx', n) = {} => cache[n] = None
      BY <2>1, <3>2 DEF CacheMirrors
    <3> QED
      BY <3>1, <3>3, RefreshedMirrors DEF CacheMirrors
  <2> QED
    BY <2>2, <2>3
<1>9. CASE MigrateTestBucketNames
  <2>1. CASE TestBuckets = {}
    BY <1>6, <1>9, <2>1, MigrationParts
  <2>2. CASE TestBuckets # {}
    BY <1>9, <2>2, MigrationParts
  <2> QED
    BY <2>1, <2>2
<1>10. CASE Commit
  BY <1>6, <1>10 DEF Commit
<1>11. CASE CommitFails
  BY <1>11 DEF CommitFails
<1>12. CASE UNCHANGED vars
  BY <1>6, <1>12 DEF vars
<1> QED
  BY <1>3, <1>7, <1>8, <1>9, <1>10, <1>11, <1>12 DEF Next

-----------------------------------------------------------------------------
(* The time range                                                          *)

\* Whatever path insert_events and heartbeat take, they write at most one
\* event (per turn), into an existing bucket row, and cover it.
LEMMA EventCommandWrites ==
  ASSUME TypeOK, Consistent(tx), NEW n \in Name, NEW id, NEW v, NEW pulse,
         \/ v \in Body /\ InsertEvent(n, id, v)
         \/ v \in Beat /\ Heartbeat(n, v, pulse)
  PROVE  \/ UNCHANGED <<tx, cache>>
         \/ cache[n] # None /\ \E i, w : /\ w.s \in Nat /\ w.e \in Nat /\ w.d \in Data
                                         /\ StoreEvent(n, i, w)
<1>1. CASE v \in Body /\ InsertEvent(n, id, v)
  <2>1. v.s \in Nat /\ v.e \in Nat /\ v.d \in Data
    BY <1>1, EventParts
  <2>2. UNCHANGED <<tx, cache>> \/ (cache[n] # None /\ StoreEvent(n, RowId(tx, id), v))
    BY <1>1 DEF InsertEvent, Rejected, vars
  <2> QED
    BY <2>1, <2>2
<1>2. CASE v \in Beat /\ Heartbeat(n, v, pulse)
  <2>1. v.s \in Nat /\ v.e \in Nat /\ v.d \in Data
    BY <1>2, EventParts
  <2>2. ASSUME NEW l \in CachedEvent, cache[n] # None, MergeOrInsert(n, l, v, pulse)
        PROVE  \/ UNCHANGED <<tx, cache>>
               \/ cache[n] # None /\ \E i, w : /\ w.s \in Nat /\ w.e \in Nat /\ w.d \in Data
                                               /\ StoreEvent(n, i, w)
    <3> DEFINE m == Merged(l, v)
    <3>1. m \in CachedEvent
      BY <2>1, MergedParts
    <3>2. m.s \in Nat /\ m.e \in Nat /\ m.d \in Data
      BY <3>1 DEF CachedEvent
    <3>3. UNCHANGED <<tx, cache>> \/ StoreEvent(n, l.id, m) \/ StoreEvent(n, RowId(tx, None), v)
      BY <2>2 DEF MergeOrInsert
    <3> HIDE DEF m
    <3> QED
      BY <2>1, <2>2, <3>2, <3>3
  <2>3. CASE cache[n] = None
    BY <1>2, <2>3 DEF Heartbeat, Rejected, vars
  <2>4. CASE cache[n] # None
    <3>1. cache[n].bid \in Bid
      BY <2>4 DEF TypeOK, CacheEntry
    <3>2. CASE last[n] # None /\ MergeOrInsert(n, last[n], v, pulse)
      BY <2>2, <2>4, <3>2 DEF TypeOK
    <3>3. ASSUME NEW i \in Newest(tx, cache[n].bid),
                 MergeOrInsert(n, AsCached(i, tx.event[i]), v, pulse)
          PROVE  \/ UNCHANGED <<tx, cache>>
                 \/ cache[n] # None /\ \E j, w : /\ w.s \in Nat /\ w.e \in Nat /\ w.d \in Data
                                                 /\ StoreEvent(n, j, w)
      <4>1. AsCached(i, tx.event[i]) \in CachedEvent
        BY <3>1, FetchedType
      <4> QED
        BY <2>2, <2>4, <3>3, <4>1
    <3>4. CASE FirstHeartbeat(n, v)
      <4>1. UNCHANGED <<tx, cache>> \/ StoreEvent(n, RowId(tx, None), v)
        BY <3>4 DEF FirstHeartbeat
      <4> QED
        BY <2>1, <2>4, <4>1
    <3> QED
      BY <1>2, <2>4, <3>2, <3>3, <3>4 DEF Heartbeat
  <2> QED
    BY <2>3, <2>4
<1> QED
  BY <1>1, <1>2

\* Two names never share a bucket row in a cache that mirrors the table.
LEMMA DistinctRows ==
  ASSUME NEW n \in Name, NEW m \in Name, CacheMirrors(n), CacheMirrors(m),
         cache[n] # None, cache[m] # None, cache[n].bid = cache[m].bid
  PROVE  n = m
  BY DEF CacheMirrors, Named

\* The written event is covered, and what was covered still is.
LEMMA StoreEventCovers ==
  ASSUME TypeOK, NEW n \in Name, NEW m \in Name, CacheMirrors(n), CacheMirrors(m),
         cache[n] # None, cache[m] # None, RangeCovers(m), NEW id, NEW v,
         v.s \in Nat, v.e \in Nat, v.d \in Data, StoreEvent(n, id, v)
  PROVE  RangeCovers(m)'
<1>1. /\ cache[n] \in CacheEntry /\ cache[m] \in CacheEntry /\ cache[n].bid \in Bid
      /\ id \in Eid /\ tx \in Tables /\ cache \in [Name -> CacheEntry \cup {None}]
  BY DEF TypeOK, CacheEntry, StoreEvent
<1>2. cache' = [cache EXCEPT ![n] = Cover(cache[n], v)]
  BY DEF StoreEvent
<1>3. tx'.event = [tx.event EXCEPT ![id] = Row(cache[n].bid, v)]
  BY <1>1 DEF StoreEvent, PutEvent, Tables
<1>4. tx.event \in [Eid -> EventRow \cup {None}]
  BY <1>1 DEF Tables
<1> DEFINE c == Cover(cache[n], v)
<1>5. /\ c \in CacheEntry /\ c.bid = cache[n].bid
      /\ c.start # None /\ c.start <= v.s /\ c.end # None /\ v.e <= c.end
      /\ cache[n].start # None => c.start <= cache[n].start
      /\ cache[n].end # None => cache[n].end <= c.end
  BY <1>1, CoverEntry
<1>6. c.start \in Nat /\ c.end \in Nat
  BY <1>5 DEF CacheEntry
<1> HIDE DEF c
<1>7. cache'[m].bid = cache[m].bid /\ cache'[m] = IF m = n THEN c ELSE cache[m]
  BY <1>1, <1>2, <1>5 DEF c
<1> SUFFICES ASSUME NEW i \in RowsOf(tx', cache[m].bid)
             PROVE  /\ cache'[m].start # None /\ cache'[m].start <= tx'.event[i].s
                    /\ cache'[m].end # None /\ tx'.event[i].e <= cache'[m].end
  BY <1>7 DEF RangeCovers
<1>8. CASE i = id
  <2>1. tx'.event[i] = Row(cache[n].bid, v)
    BY <1>1, <1>3, <1>4, <1>8
  <2>2. Row(cache[n].bid, v).b = cache[n].bid /\ Row(cache[n].bid, v).s = v.s
        /\ Row(cache[n].bid, v).e = v.e
    BY DEF Row
  <2>3. tx'.event[i].b = cache[m].bid
    BY DEF RowsOf
  <2>4. m = n
    BY <2>1, <2>2, <2>3, DistinctRows
  <2> QED
    BY <1>5, <1>7, <2>1, <2>2, <2>4
<1>9. CASE i # id
  <2>1. tx'.event[i] = tx.event[i] /\ i \in RowsOf(tx, cache[m].bid)
    BY <1>3, <1>4, <1>9 DEF RowsOf
  <2>2. /\ cache[m].start # None /\ cache[m].start <= tx.event[i].s
        /\ cache[m].end # None /\ tx.event[i].e <= cache[m].end
    BY <2>1 DEF RangeCovers
  <2>3. cache[m].start \in Nat /\ cache[m].end \in Nat
    BY <1>1, <2>2 DEF CacheEntry
  <2>4. tx.event[i].s \in Nat /\ tx.event[i].e \in Nat
    BY <1>1, <2>1, TablesParts DEF RowsOf
  <2> QED
    BY <1>5, <1>6, <1>7, <2>1, <2>2, <2>3, <2>4
<1> QED
  BY <1>8, <1>9

\* A cached range still covers a bucket that gained no event and whose
\* remaining events are the same.
LEMMA CoversRemaining ==
  ASSUME NEW m \in Name, NEW k \in Name, RangeCovers(k), cache'[m] = cache[k],
         \A i \in Eid : tx'.event[i] # None => tx'.event[i] = tx.event[i]
  PROVE  RangeCovers(m)'
<1>1. \A i \in RowsOf(tx', cache[k].bid) : /\ i \in RowsOf(tx, cache[k].bid)
                                            /\ tx'.event[i] = tx.event[i]
  BY DEF RowsOf
<1> QED
  BY <1>1 DEF RangeCovers

\* What get_stored_buckets reads covers the bucket it read it from.
LEMMA RefreshedCovers ==
  ASSUME NEW t \in Tables, Consistent(t), NEW c, NEW n \in Name, Named(t, n) # {}
  PROVE  LET entry == Refreshed(t, c)[n]
         IN  \A i \in RowsOf(t, entry.bid) :
                /\ entry.start # None /\ entry.start <= t.event[i].s
                /\ entry.end # None /\ t.event[i].e <= entry.end
<1> DEFINE b == CHOOSE x \in Named(t, n) : TRUE
<1>1. b \in Bid
  <2>1. b \in Named(t, n)
    OBVIOUS
  <2> QED
    BY <2>1 DEF Named
<1>2. Refreshed(t, c)[n] = StoredEntry(t, b)
  BY DEF Refreshed
<1> HIDE DEF b
<1>3. StoredEntry(t, b).bid = b
  BY DEF StoredEntry
<1>4. ASSUME NEW i \in RowsOf(t, b)
      PROVE  /\ StoredEntry(t, b).start # None /\ StoredEntry(t, b).start <= t.event[i].s
             /\ StoredEntry(t, b).end # None /\ t.event[i].e <= StoredEntry(t, b).end
  <2> DEFINE ids == RowsOf(t, b)
  <2>1. StoredEntry(t, b).start = MinStart(t, ids) /\ StoredEntry(t, b).end = MaxEnd(t, ids)
    BY DEF StoredEntry
  <2>2. /\ MinStart(t, ids) \in Nat /\ MaxEnd(t, ids) \in Nat
        /\ MinStart(t, ids) <= t.event[i].s /\ t.event[i].e <= MaxEnd(t, ids)
    BY <1>1, RangeOfRows
  <2>3. None \notin Nat
    BY DatastoreAssumption
  <2> HIDE DEF ids
  <2> QED
    BY <2>1, <2>2, <2>3
<1> QED
  BY <1>2, <1>3, <1>4

\* A new bucket starts with the range of the event it is imported with.
LEMMA CreateBucketCovers ==
  ASSUME TypeOK, Consistent(tx), NEW n \in Name, NEW host \in NewHost,
         NEW import \in Import \cup {None}, CreateBucket(n, host, import), ~UNCHANGED vars
  PROVE  /\ RangeCovers(n)'
         /\ \A i \in Eid : tx'.event[i] # None =>
               tx'.event[i] = tx.event[i] \/ tx'.event[i].b = cache'[n].bid
<1> DEFINE b == tx.bseq + 1
           row == [name |-> n, host |-> host]
           withBucket == [tx EXCEPT !.bucket[b] = row, !.bseq = b]
           entry == [bid |-> b, host |-> host, start |-> None, end |-> None]
<1>1. b \in Bid /\ host \in Host /\ tx \in Tables /\ cache \in [Name -> CacheEntry \cup {None}]
  BY DatastoreAssumption DEF CreateBucket, Rejected, TypeOK
<1>2. cache'[n].bid = b /\ tx.bucket[b] = None
  BY CreateBucketAdds
<1>3. RowsOf(tx, b) = {}
  BY <1>2 DEF RowsOf, Consistent
<1>4. withBucket.event = tx.event /\ withBucket \in Tables
  <2>1. withBucket \in Tables
    BY <1>1, WithBucketType
  <2>2. withBucket.event = tx.event
    BY <1>1 DEF Tables
  <2> QED
    BY <2>1, <2>2
<1>5. entry \in CacheEntry
  BY <1>1 DEF CacheEntry
<1>6. \/ tx' = withBucket
      \/ /\ import # None /\ RowId(tx, import.id) \in Eid
         /\ tx' = PutEvent(withBucket, RowId(tx, import.id), b, import.v)
         /\ cache' = [cache EXCEPT ![n] = Cover(entry, import.v)]
  BY DEF CreateBucket, Rejected
<1> HIDE DEF withBucket, entry, row, b
<1>7. CASE tx' = withBucket
  <2>1. tx'.event = tx.event
    BY <1>4, <1>7
  <2>2. RowsOf(tx', b) = {}
    BY <1>3, <2>1 DEF RowsOf
  <2> QED
    BY <1>2, <2>1, <2>2 DEF RangeCovers
<1>8. CASE /\ import # None /\ RowId(tx, import.id) \in Eid
           /\ tx' = PutEvent(withBucket, RowId(tx, import.id), b, import.v)
           /\ cache' = [cache EXCEPT ![n] = Cover(entry, import.v)]
  <2> DEFINE id == RowId(tx, import.id)
             v == import.v
             c == Cover(entry, v)
  <2>1. v.s \in Nat /\ v.e \in Nat /\ v.d \in Data
    <3>1. import.v \in Body
      BY <1>8 DEF Import
    <3> QED
      BY <3>1, EventParts
  <2>2. c.start # None /\ c.start <= v.s /\ c.end # None /\ v.e <= c.end
    BY <1>5, <2>1, CoverEntry
  <2>3. tx'.event = [tx.event EXCEPT ![id] = Row(b, v)] /\ cache'[n] = c
    BY <1>1, <1>4, <1>8 DEF PutEvent, Tables
  <2>4. Row(b, v).b = b /\ Row(b, v).s = v.s /\ Row(b, v).e = v.e
    BY DEF Row
  <2>5. tx.event \in [Eid -> EventRow \cup {None}] /\ id \in Eid
    BY <1>1, <1>8 DEF Tables
  <2> HIDE DEF id, v, c
  <2>6. tx'.event[id] = Row(b, v) /\ \A i \in Eid \ {id} : tx'.event[i] = tx.event[i]
    BY <2>3, <2>5
  <2>7. \A i \in RowsOf(tx', b) : i = id
    BY <1>3, <2>6 DEF RowsOf
  <2>8. RangeCovers(n)'
    BY <1>2, <2>2, <2>3, <2>4, <2>6, <2>7 DEF RangeCovers
  <2> QED
    BY <1>2, <2>4, <2>6, <2>8
<1> QED
  BY <1>6, <1>7, <1>8

\* Every step keeps every cached range wide enough, as long as nothing left
\* the cache behind.
LEMMA RangeStep ==
  TypeOK /\ TablesConsistent /\ CacheMirrorsTables /\ RangeCoversEvents /\ [Next]_vars
     => RangeCoversEvents'
<1> SUFFICES ASSUME TypeOK, TablesConsistent, CacheMirrorsTables, RangeCoversEvents, [Next]_vars,
                    ~diverged', NEW n \in Name, cache'[n] # None
             PROVE  RangeCovers(n)'
  BY DEF RangeCoversEvents
<1>1. /\ tx \in Tables /\ disk \in Tables /\ Consistent(tx) /\ Consistent(disk)
      /\ cache \in [Name -> CacheEntry \cup {None}]
  BY DEF TypeOK, TablesConsistent
<1>2. ASSUME diverged' = diverged
      PROVE  \A m \in Name : CacheMirrors(m) /\ (cache[m] # None => RangeCovers(m))
  BY <1>2 DEF CacheMirrorsTables, RangeCoversEvents
<1>3. ASSUME NEW k \in Name, cache[k] # None, cache'[n] = cache[k], diverged' = diverged,
             \A i \in Eid : tx'.event[i] # None => tx'.event[i] = tx.event[i]
      PROVE  RangeCovers(n)'
  BY <1>2, <1>3, CoversRemaining
<1>4. CASE UNCHANGED <<tx, cache, diverged>>
  BY <1>3, <1>4
<1>5. CASE Reopen
  <2>1. tx' = disk /\ cache' = Refreshed(disk, NoCache)
    BY <1>5 DEF Reopen
  <2>2. Named(disk, n) # {}
    BY <2>1 DEF Refreshed, NoCache
  <2> QED
    BY <1>1, <2>1, <2>2, RefreshedCovers DEF RangeCovers
<1>6. ASSUME NEW m \in Name, Command(m), ~UNCHANGED vars PROVE RangeCovers(n)'
  <2>1. ASSUME NEW host \in NewHost, NEW import \in Import \cup {None},
               CreateBucket(m, host, import)
        PROVE  RangeCovers(n)'
    <3>1. CASE n = m
      BY <1>1, <1>6, <2>1, <3>1, CreateBucketCovers
    <3>2. CASE n # m
      <4>1. /\ diverged' = diverged /\ cache'[n] = cache[n] /\ tx.bucket[cache'[m].bid] = None
        BY <1>1, <1>6, <2>1, <3>2, CreateBucketAdds
      <4>2. \A i \in Eid : tx'.event[i] # None =>
               tx'.event[i] = tx.event[i] \/ tx'.event[i].b = cache'[m].bid
        BY <1>1, <1>6, <2>1, CreateBucketCovers
      <4>3. CacheMirrors(n) /\ RangeCovers(n)
        BY <1>2, <4>1
      <4>4. cache[n].bid # cache'[m].bid
        BY <4>1, <4>3 DEF CacheMirrors, Named
      <4>5. \A i \in RowsOf(tx', cache[n].bid) : /\ i \in RowsOf(tx, cache[n].bid)
                                                  /\ tx'.event[i] = tx.event[i]
        BY <4>2, <4>4 DEF RowsOf
      <4> QED
        BY <4>1, <4>3, <4>5 DEF RangeCovers
    <3> QED
      BY <3>1, <3>2
  <2>2. CASE DeleteBucket(m)
    <3>1. /\ cache[m] # None /\ diverged' = diverged /\ cache' = [cache EXCEPT ![m] = None]
          /\ tx'.event = [i \in Eid |-> IF i \in RowsOf(tx, cache[m].bid) THEN None
                                        ELSE tx.event[i]]
      BY <1>1, <1>6, <2>2 DEF DeleteBucket, Rejected, Tables
    <3>2. cache'[n] = cache[n] /\ \A i \in Eid : tx'.event[i] # None => tx'.event[i] = tx.event[i]
      BY <1>1, <3>1
    <3> QED
      BY <1>3, <3>1, <3>2
  <2>3. ASSUME NEW id, NEW v, NEW pulse,
               \/ v \in Body /\ InsertEvent(m, id, v)
               \/ v \in Beat /\ Heartbeat(m, v, pulse)
        PROVE  RangeCovers(n)'
    <3>1. diverged' = diverged /\ SameBuckets
      BY <1>1, <2>3, EventCommandsKeepBuckets
    <3>2. cache[n] # None /\ CacheMirrors(n) /\ CacheMirrors(m) /\ RangeCovers(n)
      BY <1>2, <3>1 DEF SameBuckets
    <3>3. CASE UNCHANGED <<tx, cache>>
      BY <1>4, <3>1, <3>3
    <3>4. ASSUME cache[m] # None, NEW i, NEW w, w.s \in Nat, w.e \in Nat, w.d \in Data,
                 StoreEvent(m, i, w)
          PROVE  RangeCovers(n)'
      BY <3>2, <3>4, StoreEventCovers
    <3> QED
      BY <1>1, <2>3, <3>3, <3>4, EventCommandWrites
  <2>4. ASSUME NEW id \in Eid, DeleteEvent(m, id) PROVE RangeCovers(n)'
    <3>1. /\ UNCHANGED <<cache, diverged>>
          /\ \A i \in Eid : tx'.event[i] # None => tx'.event[i] = tx.event[i]
      BY <1>1, <1>6, <2>4 DEF DeleteEvent, Rejected, Tables
    <3> QED
      BY <1>3, <3>1
  <2>5. ASSUME NEW new \in Name, RenameBucket(m, new) PROVE RangeCovers(n)'
    <3>1. /\ cache[m] # None /\ cache[new] = None /\ diverged' = diverged
          /\ Named(tx, new) = {} /\ tx' = WithName(tx, m, new)
          /\ cache' = [cache EXCEPT ![new] = cache[m], ![m] = None]
      BY <1>6, <2>5 DEF RenameBucket, Rejected
    <3>2. tx'.event = tx.event
      BY <1>1, <3>1, WithNameConsistent
    <3>3. \E k \in Name : cache[k] # None /\ cache'[n] = cache[k]
      BY <1>1, <3>1
    <3> QED
      BY <1>3, <3>1, <3>2, <3>3
  <2> QED
    BY <1>6, <2>1, <2>2, <2>3, <2>4, <2>5 DEF Command
<1>7. CASE MigrateHostname
  <2>1. diverged' = diverged
    BY <1>7, MigrationParts
  <2>2. CASE UnknownHosts = {}
    BY <1>4, <1>7, <2>1, <2>2, MigrationParts
  <2>3. CASE UnknownHosts # {}
    <3>1. /\ tx' \in Tables /\ Consistent(tx') /\ cache' = Refreshed(tx', cache)
          /\ \A b \in Bid : /\ tx'.bucket[b] = None <=> tx.bucket[b] = None
                            /\ tx'.bucket[b] # None => tx'.bucket[b].name = tx.bucket[b].name
      BY <1>1, <1>7, <2>3, MigrationParts, HostMigratedConsistent
    <3>2. Named(tx', n) = Named(tx, n)
      BY <3>1 DEF Named
    <3>3. Named(tx', n) # {}
      <4>1. CacheMirrors(n)
        BY <1>2, <2>1
      <4>2. Named(tx', n) = {} => cache'[n] = cache[n]
        BY <3>1 DEF Refreshed
      <4> QED
        BY <3>2, <4>1, <4>2 DEF CacheMirrors
    <3> QED
      BY <3>1, <3>3, RefreshedCovers DEF RangeCovers
  <2> QED
    BY <2>2, <2>3
<1>8. CASE MigrateTestBucketNames
  <2>1. CASE TestBuckets = {}
    BY <1>4, <1>8, <2>1, MigrationParts
  <2>2. CASE TestBuckets # {}
    BY <1>8, <2>2, MigrationParts
  <2> QED
    BY <2>1, <2>2
<1>9. CASE Commit
  BY <1>4, <1>9 DEF Commit
<1>10. CASE CommitFails
  BY <1>10 DEF CommitFails
<1>11. CASE UNCHANGED vars
  BY <1>4, <1>11 DEF vars
<1> QED
  BY <1>4, <1>5, <1>6, <1>7, <1>8, <1>9, <1>10, <1>11 DEF Next

-----------------------------------------------------------------------------
(* Theorems                                                                *)

\* The empty database is consistent and so is the empty cache.
LEMMA ConsistentInit == Init => TablesConsistent /\ CacheMirrorsTables
<1> SUFFICES ASSUME Init PROVE TablesConsistent /\ CacheMirrorsTables
  OBVIOUS
<1>1. /\ \A b \in Bid : EmptyTables.bucket[b] = None
      /\ \A i \in Eid : EmptyTables.event[i] = None
  BY DEF EmptyTables
<1>2. Consistent(EmptyTables)
  BY <1>1 DEF Consistent
<1>3. \A n \in Name : cache[n] = None /\ Named(EmptyTables, n) = {}
  BY <1>1 DEF Init, NoCache, Named
<1> QED
  BY <1>2, <1>3 DEF Init, TablesConsistent, CacheMirrorsTables, CacheMirrors

\* Tables, caches and flags stay well formed: row ids within range, ranges
\* and cached heartbeats complete.
THEOREM TypeCorrectness == Spec => []TypeOK
  BY TypeInit, TypeStep, PTL DEF Spec

\* No command, failed commit, migration or restart gives a name to two
\* buckets, orphans an event or lets a row id run ahead of its sequence,
\* although every command trusts a cache that may be wrong.
THEOREM TablesConsistency == Spec => []TablesConsistent
<1>1. TypeOK /\ TablesConsistent /\ [Next]_vars => (TypeOK /\ TablesConsistent)'
  BY TypeStep, ConsistentStep
<1>2. Init => TypeOK /\ TablesConsistent
  BY TypeInit, ConsistentInit
<1> QED
  BY <1>1, <1>2, PTL DEF Spec

\* Until a rollback or a renaming migration, the cache that answers every
\* command for the buckets table knows its buckets, row ids and hosts.
THEOREM CacheMirroring == Spec => []CacheMirrorsTables
<1> DEFINE Inv == TypeOK /\ TablesConsistent /\ CacheMirrorsTables
<1>1. Inv /\ [Next]_vars => Inv'
  BY TypeStep, ConsistentStep, MirrorStep
<1>2. Init => Inv
  BY TypeInit, ConsistentInit
<1> QED
  BY <1>1, <1>2, PTL DEF Spec

\* Until a rollback or a renaming migration, a bucket's metadata spans all of
\* its events, however they were written, merged, imported or taken over.
THEOREM RangeCoverage == Spec => []RangeCoversEvents
<1> DEFINE Inv == TypeOK /\ TablesConsistent /\ CacheMirrorsTables /\ RangeCoversEvents
<1>1. Inv /\ [Next]_vars => Inv'
  BY TypeStep, ConsistentStep, MirrorStep, RangeStep
<1>2. Init => Inv
  <2>1. Init => RangeCoversEvents
    BY DEF Init, NoCache, RangeCoversEvents
  <2> QED
    BY <2>1, TypeInit, ConsistentInit
<1> QED
  BY <1>1, <1>2, PTL DEF Spec

-----------------------------------------------------------------------------
(* The second cache, last_heartbeat: what it holds is the row it came from,   *)
(* so a heartbeat extends its own event and destroys no other.                *)

\* What HeartbeatCacheSound says of one name.
Sound(n) ==
    /\ last[n] # None /\ cache[n] # None
    /\ last[n].id \in RowsOf(tx, cache[n].bid)
    => tx.event[last[n].id] = Row(cache[n].bid, last[n])

\* A cached heartbeat has a row id the sequence has handed out, so no row that
\* is still to come can be mistaken for its own. A rollback takes ids back.
IdsHandedOut ==
    ~diverged => \A n \in Name : last[n] # None => last[n].id <= tx.eseq

HeartbeatInv ==
    /\ TypeOK /\ TablesConsistent /\ CacheMirrorsTables
    /\ HeartbeatCacheSound /\ IdsHandedOut

\* What the types say of the variables of the proofs.
LEMMA Typed ==
  ASSUME TypeOK
  PROVE  /\ tx \in Tables /\ disk \in Tables
         /\ tx.event \in [Eid -> EventRow \cup {None}]
         /\ tx.bucket \in [Bid -> BucketRow \cup {None}]
         /\ tx.eseq \in Nat /\ Eid \in SUBSET Nat
         /\ cache \in [Name -> CacheEntry \cup {None}]
         /\ last \in [Name -> CachedEvent \cup {None}]
         /\ \A n \in Name : cache[n] # None => cache[n] \in CacheEntry /\ cache[n].bid \in Bid
         /\ \A n \in Name : last[n] # None =>
               last[n] \in CachedEvent /\ last[n].id \in Eid /\ last[n].id \in Nat
         /\ None \notin Nat /\ None \notin CachedEvent /\ None \notin EventRow
<1>1. /\ tx \in Tables /\ disk \in Tables
      /\ cache \in [Name -> CacheEntry \cup {None}]
      /\ last \in [Name -> CachedEvent \cup {None}]
  BY DEF TypeOK
<1>2. /\ tx.event \in [Eid -> EventRow \cup {None}]
      /\ tx.bucket \in [Bid -> BucketRow \cup {None}]
  BY <1>1 DEF Tables
<1>3. tx.eseq \in Nat /\ Eid \in SUBSET Nat
  BY <1>1, TablesParts, DatastoreAssumption DEF Eid
<1>4. \A c \in CacheEntry : c.bid \in Bid
  BY DEF CacheEntry
<1>5. \A l \in CachedEvent : l.id \in Eid
  BY DEF CachedEvent
<1>6. None \notin Nat /\ None \notin CachedEvent /\ None \notin EventRow
  BY DatastoreAssumption DEF CachedEvent, EventRow
<1> QED
  BY <1>1, <1>2, <1>3, <1>4, <1>5, <1>6

\* One row is written, the sequence goes on, and every cached row id stays.
LEMMA StoreEventRows ==
  ASSUME TypeOK, NEW n \in Name, cache[n] # None, NEW id, NEW v,
         v.s \in Nat, v.e \in Nat, StoreEvent(n, id, v)
  PROVE  /\ id \in Eid /\ tx'.event[id] = Row(cache[n].bid, v)
         /\ \A i \in Eid : i # id => tx'.event[i] = tx.event[i]
         /\ tx'.bucket = tx.bucket
         /\ tx'.eseq \in Nat /\ tx.eseq <= tx'.eseq /\ id <= tx'.eseq
         /\ \A m \in Name : /\ cache'[m] # None => cache[m] # None
                            /\ cache[m] # None => cache'[m].bid = cache[m].bid
<1>1. id \in Eid /\ tx' = PutEvent(tx, id, cache[n].bid, v)
      /\ cache' = [cache EXCEPT ![n] = Cover(cache[n], v)]
  BY DEF StoreEvent
<1>2. /\ tx'.event = [tx.event EXCEPT ![id] = Row(cache[n].bid, v)]
      /\ tx'.bucket = tx.bucket
      /\ tx'.eseq = IF id > tx.eseq THEN id ELSE tx.eseq
  BY <1>1, Typed DEF PutEvent, Tables
<1>3. id \in Nat /\ tx.eseq \in Nat
  BY <1>1, Typed
<1>4. Cover(cache[n], v).bid = cache[n].bid
  BY Typed, CoverEntry
<1>5. \A m \in Name : cache'[m] = IF m = n THEN Cover(cache[n], v) ELSE cache[m]
  BY <1>1, Typed
<1> QED
  BY <1>1, <1>2, <1>3, <1>4, <1>5, Typed

\* A write to the row of bucket n leaves every cache sound, when n remembers
\* the event it wrote, or nothing.
LEMMA StoreEventSound ==
  ASSUME TypeOK, \A m \in Name : CacheMirrors(m), \A m \in Name \ stale : Sound(m),
         \A m \in Name : last[m] # None => last[m].id <= tx.eseq,
         NEW n \in Name, cache[n] # None, NEW id, NEW v,
         v.s \in Nat, v.e \in Nat, StoreEvent(n, id, v),
         NEW w, Remember(n, w),
         w = None \/ (w.id = id /\ Row(cache[n].bid, w) = Row(cache[n].bid, v))
  PROVE  /\ \A m \in Name \ stale' : Sound(m)'
         /\ \A m \in Name : last'[m] # None => last'[m].id <= tx'.eseq
<1>1. /\ id \in Eid /\ tx'.event[id] = Row(cache[n].bid, v)
      /\ \A i \in Eid : i # id => tx'.event[i] = tx.event[i]
      /\ tx'.eseq \in Nat /\ tx.eseq <= tx'.eseq /\ id <= tx'.eseq
      /\ \A m \in Name : /\ cache'[m] # None => cache[m] # None
                         /\ cache[m] # None => cache'[m].bid = cache[m].bid
  BY StoreEventRows
<1>2. \A m \in Name : last'[m] = IF m = n THEN w ELSE last[m]
  BY Typed DEF Remember
<1>3. stale' = stale \ {n}
  BY DEF Remember
<1>4. ASSUME NEW m \in Name, last'[m] # None PROVE last'[m].id <= tx'.eseq
  <2>1. CASE m = n
    BY <1>1, <1>2, <1>4, <2>1
  <2>2. CASE m # n
    <3>1. last'[m] = last[m] /\ last[m].id <= tx.eseq /\ last[m].id \in Nat /\ tx.eseq \in Nat
      BY <1>2, <1>4, <2>2, Typed
    <3> QED
      BY <1>1, <3>1
  <2> QED
    BY <2>1, <2>2
<1>5. ASSUME NEW m \in Name \ stale', last'[m] # None, cache'[m] # None,
             last'[m].id \in RowsOf(tx', cache'[m].bid)
      PROVE  tx'.event[last'[m].id] = Row(cache'[m].bid, last'[m])
  <2>1. cache[m] # None /\ cache'[m].bid = cache[m].bid
    BY <1>1, <1>5
  <2>2. /\ last'[m].id \in Eid /\ tx'.event[last'[m].id] # None
        /\ tx'.event[last'[m].id].b = cache[m].bid
    BY <1>5, <2>1 DEF RowsOf
  <2>3. CASE m = n
    BY <1>1, <1>2, <1>5, <2>1, <2>3
  <2>4. CASE m # n
    <3>1. last'[m] = last[m] /\ m \notin stale
      BY <1>2, <1>3, <1>5, <2>4
    <3>2. cache[m].bid # cache[n].bid
      BY <2>1, <2>4, DistinctRows
    <3>3. Row(cache[n].bid, v).b = cache[n].bid
      BY DEF Row
    <3>4. last[m].id # id
      BY <1>1, <2>2, <3>1, <3>2, <3>3
    <3>5. tx'.event[last[m].id] = tx.event[last[m].id]
      BY <1>1, <2>2, <3>1, <3>4
    <3>6. last[m].id \in RowsOf(tx, cache[m].bid)
      BY <2>2, <3>1, <3>5 DEF RowsOf
    <3> QED
      BY <1>5, <2>1, <3>1, <3>5, <3>6 DEF Sound
  <2> QED
    BY <2>3, <2>4
<1> QED
  BY <1>4, <1>5 DEF Sound

\* What a heartbeat does: it forgets, it extends the row of the event it was
\* compared with, or it adds a row.
LEMMA HeartbeatEffect ==
  ASSUME TypeOK, NEW n \in Name, NEW hb \in Beat, NEW pulse, Heartbeat(n, hb, pulse)
  PROVE  \/ UNCHANGED vars
         \/ /\ cache[n] # None /\ UNCHANGED <<disk, commit, diverged>>
            /\ \/ UNCHANGED <<tx, cache>> /\ Remember(n, None)
               \/ \E l \in CachedEvent :
                     /\ \/ l = last[n] /\ last[n] # None
                        \/ l = AsCached(l.id, tx.event[l.id])
                     /\ l.id \in RowsOf(tx, cache[n].bid)
                     /\ StoreEvent(n, l.id, Merged(l, hb))
                     /\ Remember(n, Merged(l, hb))
               \/ \E w \in {None, AsCached(RowId(tx, None), hb)} :
                     StoreEvent(n, RowId(tx, None), hb) /\ Remember(n, w)
<1>1. CASE UNCHANGED vars
  BY <1>1
<1>2. CASE ~UNCHANGED vars
  <2>1. cache[n] # None /\ UNCHANGED <<disk, commit, diverged>>
    BY <1>2 DEF Heartbeat, Rejected
  <2>2. CASE last[n] # None /\ MergeOrInsert(n, last[n], hb, pulse)
    <3>1. last[n] \in CachedEvent
      BY <2>2, Typed
    <3> QED
      BY <2>1, <2>2, <3>1 DEF MergeOrInsert
  <2>3. ASSUME NEW i \in Newest(tx, cache[n].bid),
               MergeOrInsert(n, AsCached(i, tx.event[i]), hb, pulse)
        PROVE  \/ UNCHANGED <<tx, cache>> /\ Remember(n, None)
               \/ \E l \in CachedEvent :
                     /\ \/ l = last[n] /\ last[n] # None
                        \/ l = AsCached(l.id, tx.event[l.id])
                     /\ l.id \in RowsOf(tx, cache[n].bid)
                     /\ StoreEvent(n, l.id, Merged(l, hb))
                     /\ Remember(n, Merged(l, hb))
               \/ \E w \in {None, AsCached(RowId(tx, None), hb)} :
                     StoreEvent(n, RowId(tx, None), hb) /\ Remember(n, w)
    <3> DEFINE l == AsCached(i, tx.event[i])
    <3>1. l \in CachedEvent
      BY <2>1, FetchedType, Typed
    <3>2. l.id = i
      BY DEF AsCached
    <3>3. l = AsCached(l.id, tx.event[l.id])
      BY <3>2
    <3> HIDE DEF l
    <3> QED
      BY <2>3, <3>1, <3>3 DEF MergeOrInsert, l
  <2>4. CASE FirstHeartbeat(n, hb)
    BY <2>1, <2>4 DEF FirstHeartbeat
  <2> QED
    BY <1>2, <2>1, <2>2, <2>3, <2>4 DEF Heartbeat, Rejected
<1> QED
  BY <1>1, <1>2

\* A heartbeat leaves every cached event sound and every cached id handed out.
LEMMA HeartbeatSound ==
  ASSUME TypeOK, \A m \in Name : CacheMirrors(m), \A m \in Name \ stale : Sound(m),
         \A m \in Name : last[m] # None => last[m].id <= tx.eseq,
         NEW n \in Name, NEW hb \in Beat, NEW pulse, Heartbeat(n, hb, pulse)
  PROVE  /\ \A m \in Name \ stale' : Sound(m)'
         /\ \A m \in Name : last'[m] # None => last'[m].id <= tx'.eseq
<1>1. hb.s \in Nat /\ hb.e \in Nat
  BY EventParts
<1>2. CASE UNCHANGED vars
  BY <1>2 DEF vars, Sound
<1>3. CASE UNCHANGED <<tx, cache>> /\ Remember(n, None)
  <2>1. \A m \in Name : last'[m] = IF m = n THEN None ELSE last[m]
    BY <1>3, Typed DEF Remember
  <2>2. stale' = stale \ {n}
    BY <1>3 DEF Remember
  <2> QED
    BY <1>3, <2>1, <2>2 DEF Sound
<1>4. ASSUME cache[n] # None, NEW l \in CachedEvent,
             StoreEvent(n, l.id, Merged(l, hb)), Remember(n, Merged(l, hb))
      PROVE  /\ \A m \in Name \ stale' : Sound(m)'
             /\ \A m \in Name : last'[m] # None => last'[m].id <= tx'.eseq
  <2>1. PICK w : w = Merged(l, hb)
    OBVIOUS
  <2>2. w.id = l.id /\ w.s \in Nat /\ w.e \in Nat
    BY <1>1, <2>1, MergedParts DEF CachedEvent
  <2>3. StoreEvent(n, l.id, w) /\ Remember(n, w)
    BY <1>4, <2>1
  <2> QED
    BY <1>4, <2>2, <2>3, StoreEventSound
<1>5. ASSUME cache[n] # None, NEW w \in {None, AsCached(RowId(tx, None), hb)},
             StoreEvent(n, RowId(tx, None), hb), Remember(n, w)
      PROVE  /\ \A m \in Name \ stale' : Sound(m)'
             /\ \A m \in Name : last'[m] # None => last'[m].id <= tx'.eseq
  <2>1. PICK id : id = RowId(tx, None)
    OBVIOUS
  <2>2. w = None \/ (w.id = id /\ Row(cache[n].bid, w) = Row(cache[n].bid, hb))
    BY <1>5, <2>1 DEF AsCached, Row
  <2>3. StoreEvent(n, id, hb)
    BY <1>5, <2>1
  <2> QED
    BY <1>1, <1>5, <2>2, <2>3, StoreEventSound
<1> QED
  BY <1>2, <1>3, <1>4, <1>5, HeartbeatEffect

\* An inserted event takes the place of no cached one, unless it replaces its
\* row, and the cache of its own bucket is emptied.
LEMMA InsertEventSound ==
  ASSUME TypeOK, \A m \in Name : CacheMirrors(m), \A m \in Name \ stale : Sound(m),
         \A m \in Name : last[m] # None => last[m].id <= tx.eseq,
         NEW n \in Name, NEW id, NEW v \in Body, InsertEvent(n, id, v)
  PROVE  /\ \A m \in Name \ stale' : Sound(m)'
         /\ \A m \in Name : last'[m] # None => last'[m].id <= tx'.eseq
<1>1. CASE UNCHANGED vars
  BY <1>1 DEF vars, Sound
<1>2. CASE ~UNCHANGED vars
  <2>1. cache[n] # None /\ StoreEvent(n, RowId(tx, id), v) /\ Remember(n, None)
    BY <1>2 DEF InsertEvent, Rejected
  <2>2. PICK row : row = RowId(tx, id)
    OBVIOUS
  <2>3. v.s \in Nat /\ v.e \in Nat
    BY EventParts
  <2> QED
    BY <2>1, <2>2, <2>3, StoreEventSound
<1> QED
  BY <1>1, <1>2

\* create_bucket writes at most one row: the next id of the sequence, or the
\* one the import asks for.
LEMMA CreateBucketRows ==
  ASSUME TypeOK, NEW n \in Name, NEW host \in NewHost, NEW import \in Import \cup {None},
         CreateBucket(n, host, import), ~UNCHANGED vars
  PROVE  /\ tx.eseq <= tx'.eseq /\ last' = last /\ stale \subseteq stale'
         /\ \A i \in Eid : tx'.event[i] # tx.event[i] =>
               i = tx.eseq + 1 \/ (last[n] # None => n \in stale')
<1> DEFINE b == tx.bseq + 1
           row == [name |-> n, host |-> host]
           withBucket == [tx EXCEPT !.bucket[b] = row, !.bseq = b]
<1>1. /\ b \in Bid /\ last' = last
      /\ \/ import = None /\ tx' = withBucket /\ stale' = stale
         \/ /\ import # None /\ RowId(tx, import.id) \in Eid
            /\ tx' = PutEvent(withBucket, RowId(tx, import.id), b, import.v)
            /\ stale \subseteq stale'
            /\ last[n] # None /\ import.id # None => n \in stale'
  <2>1. CASE import = None
    BY <2>1 DEF CreateBucket, Rejected
  <2>2. CASE import # None
    BY <2>2 DEF CreateBucket, Rejected
  <2> QED
    BY <2>1, <2>2
<1>2. PICK t : t = withBucket
  OBVIOUS
<1>3. t.event = tx.event /\ t.eseq = tx.eseq /\ t \in Tables
  <2>1. t.event = tx.event /\ t.eseq = tx.eseq
    BY <1>2, Typed DEF Tables
  <2>2. host \in Host
    BY DatastoreAssumption
  <2> QED
    BY <1>1, <1>2, <2>1, <2>2, Typed, WithBucketType
<1>4. CASE import = None
  <2>1. tx' = t /\ last' = last /\ stale' = stale
    BY <1>1, <1>2, <1>4
  <2> QED
    BY <1>3, <2>1, Typed
<1>5. CASE import # None
  <2>1. PICK id : id = RowId(tx, import.id)
    OBVIOUS
  <2>2. id \in Eid /\ tx' = PutEvent(t, id, b, import.v)
    BY <1>1, <1>2, <1>5, <2>1
  <2>3. /\ tx'.event = [tx.event EXCEPT ![id] = Row(b, import.v)]
        /\ tx'.eseq = IF id > tx.eseq THEN id ELSE tx.eseq
    BY <1>3, <2>2 DEF PutEvent, Tables
  <2>4. id \in Nat /\ tx.eseq \in Nat
    BY <2>2, Typed
  <2>5. id = tx.eseq + 1 \/ (last[n] # None => n \in stale')
    BY <1>1, <1>5, <2>1 DEF RowId
  <2> QED
    BY <1>1, <1>5, <2>3, <2>4, <2>5, Typed
<1> QED
  BY <1>4, <1>5

\* A new bucket takes over no cached heartbeat, though its events may bring
\* ids of their own.
LEMMA CreateBucketSound ==
  ASSUME TypeOK, Consistent(tx), \A m \in Name : CacheMirrors(m),
         \A m \in Name \ stale : Sound(m),
         \A m \in Name : last[m] # None => last[m].id <= tx.eseq,
         NEW n \in Name, NEW host \in NewHost, NEW import \in Import \cup {None},
         CreateBucket(n, host, import)
  PROVE  /\ \A m \in Name \ stale' : Sound(m)'
         /\ \A m \in Name : last'[m] # None => last'[m].id <= tx'.eseq
<1>1. CASE UNCHANGED vars
  BY <1>1 DEF vars, Sound
<1>2. CASE ~UNCHANGED vars
  <2>1. /\ tx.eseq <= tx'.eseq /\ last' = last /\ stale \subseteq stale'
        /\ \A i \in Eid : tx'.event[i] # tx.event[i] =>
              i = tx.eseq + 1 \/ (last[n] # None => n \in stale')
    BY <1>2, CreateBucketRows
  <2>2. /\ tx.bseq + 1 \in Bid /\ tx.bucket[tx.bseq + 1] = None
        /\ cache'[n].bid = tx.bseq + 1
        /\ \A m \in Name \ {n} : cache'[m] = cache[m]
    BY <1>2, CreateBucketAdds
  <2>3. \A i \in Eid : tx'.event[i] # None =>
           tx'.event[i] = tx.event[i] \/ tx'.event[i].b = cache'[n].bid
    BY <1>2, CreateBucketCovers
  <2>4. tx.eseq \in Nat /\ tx'.eseq \in Nat
    <3>1. TypeOK'
      BY CreateBucketType
    <3>2. tx' \in Tables
      BY <3>1 DEF TypeOK
    <3> QED
      BY <3>2, Typed, TablesParts
  <2>5. ASSUME NEW m \in Name, last'[m] # None PROVE last'[m].id <= tx'.eseq
    <3>1. last[m].id \in Nat /\ last[m].id <= tx.eseq
      BY <2>1, <2>5, Typed
    <3> QED
      BY <2>1, <2>4, <3>1
  <2>6. ASSUME NEW m \in Name \ stale', last'[m] # None, cache'[m] # None,
               last'[m].id \in RowsOf(tx', cache'[m].bid)
        PROVE  tx'.event[last'[m].id] = Row(cache'[m].bid, last'[m])
    <3>1. PICK i : i = last[m].id
      OBVIOUS
    <3>2. /\ i \in Eid /\ tx'.event[i] # None /\ tx'.event[i].b = cache'[m].bid
          /\ last'[m] = last[m] /\ m \notin stale
      BY <2>1, <2>6, <3>1 DEF RowsOf
    <3>3. i \in Nat /\ i <= tx.eseq
      BY <2>1, <2>6, <3>1, Typed
    <3>4. CASE m = n
      <4>1. tx'.event[i] = tx.event[i]
        BY <2>1, <2>4, <2>6, <3>2, <3>3, <3>4
      <4>2. tx.bucket[tx.event[i].b] # None
        BY <3>2, <4>1 DEF Consistent
      <4> QED
        BY <2>2, <3>2, <3>4, <4>1, <4>2
    <3>5. CASE m # n
      <4>1. cache'[m] = cache[m] /\ cache[m] # None
        BY <2>2, <2>6, <3>5
      <4>2. cache[m].bid \in Named(tx, m)
        BY <4>1 DEF CacheMirrors
      <4>3. cache[m].bid # tx.bseq + 1
        BY <2>2, <4>2 DEF Named
      <4>4. tx'.event[i] = tx.event[i]
        BY <2>2, <2>3, <3>2, <4>1, <4>3
      <4>5. i \in RowsOf(tx, cache[m].bid)
        BY <3>2, <4>1, <4>4 DEF RowsOf
      <4>6. Sound(m)
        BY <3>2
      <4> QED
        BY <2>6, <3>1, <3>2, <4>1, <4>4, <4>5, <4>6 DEF Sound
    <3> QED
      BY <3>4, <3>5
  <2> QED
    BY <2>5, <2>6 DEF Sound
<1> QED
  BY <1>1, <1>2

\* Events only disappear, and the names that keep a cache entry keep its row:
\* nothing that was sound becomes unsound.
LEMMA RemainingSound ==
  ASSUME \A m \in Name \ stale : Sound(m), stale \subseteq stale', last' = last,
         \A i \in Eid : tx'.event[i] # None => tx'.event[i] = tx.event[i],
         \A m \in Name \ stale' : last[m] # None /\ cache'[m] # None =>
            cache[m] # None /\ cache'[m].bid = cache[m].bid
  PROVE  \A m \in Name \ stale' : Sound(m)'
<1> SUFFICES ASSUME NEW m \in Name \ stale', last[m] # None, cache'[m] # None,
                    last[m].id \in RowsOf(tx', cache'[m].bid)
             PROVE  tx'.event[last[m].id] = Row(cache'[m].bid, last[m])
  BY DEF Sound
<1>1. cache[m] # None /\ cache'[m].bid = cache[m].bid /\ Sound(m)
  OBVIOUS
<1>2. last[m].id \in Eid /\ tx'.event[last[m].id] # None
      /\ tx'.event[last[m].id].b = cache[m].bid
  BY <1>1 DEF RowsOf
<1>3. tx'.event[last[m].id] = tx.event[last[m].id]
  BY <1>2
<1>4. last[m].id \in RowsOf(tx, cache[m].bid)
  BY <1>2, <1>3 DEF RowsOf
<1> QED
  BY <1>1, <1>3, <1>4 DEF Sound

\* Every step keeps the cached heartbeats sound, or is a rollback or a renaming
\* migration.
LEMMA HeartbeatStep ==
  HeartbeatInv /\ [Next]_vars => HeartbeatCacheSound' /\ IdsHandedOut'
<1> SUFFICES ASSUME TypeOK, TablesConsistent, CacheMirrorsTables, HeartbeatCacheSound,
                    IdsHandedOut, [Next]_vars, ~diverged'
             PROVE  /\ \A m \in Name \ stale' : Sound(m)'
                    /\ \A m \in Name : last'[m] # None => last'[m].id <= tx'.eseq
  BY DEF HeartbeatInv, HeartbeatCacheSound, IdsHandedOut, Sound
<1>1. Consistent(tx)
  BY DEF TablesConsistent
<1>2. ASSUME diverged' = diverged
      PROVE  /\ \A m \in Name : CacheMirrors(m)
             /\ \A m \in Name \ stale : Sound(m)
             /\ \A m \in Name : last[m] # None => last[m].id <= tx.eseq
  BY <1>2 DEF CacheMirrorsTables, HeartbeatCacheSound, IdsHandedOut, Sound
<1>3. ASSUME UNCHANGED <<last, diverged>>, stale \subseteq stale', tx'.eseq = tx.eseq,
             \A i \in Eid : tx'.event[i] # None => tx'.event[i] = tx.event[i],
             \A m \in Name \ stale' : last[m] # None /\ cache'[m] # None =>
                cache[m] # None /\ cache'[m].bid = cache[m].bid
      PROVE  /\ \A m \in Name \ stale' : Sound(m)'
             /\ \A m \in Name : last'[m] # None => last'[m].id <= tx'.eseq
  <2>1. \A m \in Name \ stale' : Sound(m)'
    BY <1>2, <1>3, RemainingSound
  <2> QED
    BY <1>2, <1>3, <2>1
<1>4. CASE UNCHANGED <<tx, cache, last, diverged, stale>>
  BY <1>3, <1>4
<1>5. CASE Reopen
  BY <1>5 DEF Reopen, Sound
<1>6. ASSUME NEW n \in Name, Command(n), ~UNCHANGED vars
      PROVE  /\ \A m \in Name \ stale' : Sound(m)'
             /\ \A m \in Name : last'[m] # None => last'[m].id <= tx'.eseq
  <2>1. ASSUME NEW host \in NewHost, NEW import \in Import \cup {None},
               CreateBucket(n, host, import)
        PROVE  /\ \A m \in Name \ stale' : Sound(m)'
               /\ \A m \in Name : last'[m] # None => last'[m].id <= tx'.eseq
    <3>1. diverged' = diverged
      BY <1>1, <1>6, <2>1, CreateBucketAdds
    <3> QED
      BY <1>1, <1>2, <2>1, <3>1, CreateBucketSound
  <2>2. CASE DeleteBucket(n)
    <3>1. /\ cache[n] # None /\ UNCHANGED <<last, diverged, stale>>
          /\ cache' = [cache EXCEPT ![n] = None]
          /\ tx' = [tx EXCEPT !.event = [i \in Eid |-> IF i \in RowsOf(tx, cache[n].bid)
                                                       THEN None ELSE tx.event[i]],
                              !.bucket[cache[n].bid] = None]
      BY <1>6, <2>2 DEF DeleteBucket, Rejected
    <3>2. /\ tx'.event = [i \in Eid |-> IF i \in RowsOf(tx, cache[n].bid) THEN None
                                        ELSE tx.event[i]]
          /\ tx'.eseq = tx.eseq
      BY <3>1, Typed DEF Tables
    <3>3. \A m \in Name : cache'[m] # None => cache'[m] = cache[m]
      BY <3>1, Typed
    <3> QED
      BY <1>3, <3>1, <3>2, <3>3
  <2>3. ASSUME NEW id, NEW v \in Body, InsertEvent(n, id, v)
        PROVE  /\ \A m \in Name \ stale' : Sound(m)'
               /\ \A m \in Name : last'[m] # None => last'[m].id <= tx'.eseq
    <3>1. diverged' = diverged
      BY <1>1, <2>3, EventCommandsKeepBuckets
    <3> QED
      BY <1>2, <2>3, <3>1, InsertEventSound
  <2>4. ASSUME NEW hb \in Beat, NEW pulse, Heartbeat(n, hb, pulse)
        PROVE  /\ \A m \in Name \ stale' : Sound(m)'
               /\ \A m \in Name : last'[m] # None => last'[m].id <= tx'.eseq
    <3>1. diverged' = diverged
      BY <1>1, <2>4, EventCommandsKeepBuckets
    <3> QED
      BY <1>2, <2>4, <3>1, HeartbeatSound
  <2>5. ASSUME NEW id \in Eid, DeleteEvent(n, id)
        PROVE  /\ \A m \in Name \ stale' : Sound(m)'
               /\ \A m \in Name : last'[m] # None => last'[m].id <= tx'.eseq
    <3>1. /\ UNCHANGED <<cache, last, diverged, stale>>
          /\ tx' = IF id \in RowsOf(tx, cache[n].bid) THEN [tx EXCEPT !.event[id] = None]
                   ELSE tx
      BY <1>6, <2>5 DEF DeleteEvent, Rejected
    <3>2. /\ tx'.eseq = tx.eseq
          /\ \A i \in Eid : tx'.event[i] # None => tx'.event[i] = tx.event[i]
      BY <3>1, Typed DEF Tables
    <3> QED
      BY <1>3, <3>1, <3>2
  <2>6. ASSUME NEW new \in Name, RenameBucket(n, new)
        PROVE  /\ \A m \in Name \ stale' : Sound(m)'
               /\ \A m \in Name : last'[m] # None => last'[m].id <= tx'.eseq
    <3>1. /\ UNCHANGED <<last, diverged>>
          /\ Named(tx, new) = {} /\ tx' = WithName(tx, n, new)
          /\ cache' = [cache EXCEPT ![new] = cache[n], ![n] = None]
          /\ stale' = stale \cup {m \in {n, new} : last[m] # None}
      BY <1>6, <2>6 DEF RenameBucket, Rejected
    <3>2. tx'.event = tx.event /\ tx'.eseq = tx.eseq
      BY <3>1, Typed DEF WithName, Tables
    <3>3. \A m \in Name \ stale' : last[m] # None => cache'[m] = cache[m]
      BY <3>1, Typed
    <3> QED
      BY <1>3, <3>1, <3>2, <3>3
  <2> QED
    BY <1>6, <2>1, <2>2, <2>3, <2>4, <2>5, <2>6 DEF Command
<1>7. CASE MigrateHostname
  <2>1. UNCHANGED <<last, diverged, stale>>
    BY <1>7, MigrationParts
  <2>2. CASE UnknownHosts = {}
    BY <1>4, <1>7, <2>1, <2>2, MigrationParts
  <2>3. CASE UnknownHosts # {}
    <3>1. tx' = HostMigrated(tx, UnknownHosts)
      BY <1>7, <2>3, MigrationParts
    <3>2. tx'.event = tx.event /\ tx'.eseq = tx.eseq
      BY <3>1, Typed DEF HostMigrated, Tables
    <3>3. \A m \in Name : Named(tx', m) = Named(tx, m)
      <4>1. \A b \in Bid : /\ tx'.bucket[b] = None <=> tx.bucket[b] = None
                           /\ tx'.bucket[b] # None => tx'.bucket[b].name = tx.bucket[b].name
        BY <1>1, <3>1, HostMigratedConsistent
      <4> QED
        BY <4>1 DEF Named
    <3>4. ASSUME NEW m \in Name, cache'[m] # None
          PROVE  cache[m] # None /\ cache'[m].bid = cache[m].bid
      <4>1. CacheMirrorsTables'
        BY MirrorStep
      <4>2. CacheMirrors(m)' /\ CacheMirrors(m)
        BY <1>2, <2>1, <4>1 DEF CacheMirrorsTables
      <4> QED
        BY <3>3, <3>4, <4>2 DEF CacheMirrors
    <3> QED
      BY <1>3, <2>1, <3>2, <3>4
  <2> QED
    BY <2>2, <2>3
<1>8. CASE MigrateTestBucketNames
  <2>1. CASE TestBuckets = {}
    BY <1>4, <1>8, <2>1, MigrationParts
  <2>2. CASE TestBuckets # {}
    BY <1>8, <2>2, MigrationParts
  <2> QED
    BY <2>1, <2>2
<1>9. CASE Commit
  BY <1>4, <1>9 DEF Commit
<1>10. CASE CommitFails
  BY <1>10 DEF CommitFails
<1>11. CASE UNCHANGED vars
  BY <1>4, <1>11 DEF vars
<1> QED
  BY <1>5, <1>6, <1>7, <1>8, <1>9, <1>10, <1>11 DEF Next

-----------------------------------------------------------------------------
(* Theorems                                                                *)

\* The caches and the tables agree in every reachable state.
LEMMA HeartbeatInvariance == Spec => []HeartbeatInv
<1>1. Init => HeartbeatInv
  BY TypeInit, ConsistentInit DEF Init, HeartbeatInv, HeartbeatCacheSound, IdsHandedOut
<1>2. HeartbeatInv /\ [Next]_vars => HeartbeatInv'
  BY TypeStep, ConsistentStep, MirrorStep, HeartbeatStep DEF HeartbeatInv
<1> QED
  BY <1>1, <1>2, PTL DEF Spec

\* What last_heartbeat remembers for a bucket is the row as it stands in the
\* table, however the table was written since, or no row of that bucket.
THEOREM HeartbeatCacheSoundness == Spec => []HeartbeatCacheSound
<1>1. HeartbeatInv => HeartbeatCacheSound
  BY DEF HeartbeatInv
<1> QED
  BY <1>1, HeartbeatInvariance, PTL

\* A heartbeat adds an event or gives one a later end; every other event, and
\* the start and payload of that one, stay as recorded.
LEMMA HeartbeatPreserves ==
  ASSUME HeartbeatInv, ~diverged, NEW n \in Name \ stale, NEW hb \in Beat, NEW pulse,
         Heartbeat(n, hb, pulse), NEW i \in Eid, tx.event[i] # None
  PROVE  Preserved(i)
<1> USE DEF HeartbeatInv
<1>1. tx.event[i].e \in Nat /\ hb.s \in Nat /\ hb.e \in Nat
  BY Typed, TablesParts, EventParts
<1>2. CASE tx'.event[i] = tx.event[i]
  BY <1>1, <1>2 DEF Preserved
<1>3. ASSUME cache[n] # None, NEW l \in CachedEvent,
             \/ l = last[n] /\ last[n] # None
             \/ l = AsCached(l.id, tx.event[l.id]),
             l.id \in RowsOf(tx, cache[n].bid),
             StoreEvent(n, l.id, Merged(l, hb))
      PROVE  Preserved(i)
  <2>1. PICK w : w = Merged(l, hb)
    OBVIOUS
  <2>2. /\ w.id = l.id /\ w.s = l.s /\ w.d = l.d /\ l.e <= w.e
        /\ w.s \in Nat /\ w.e \in Nat
    BY <1>1, <2>1, MergedParts DEF CachedEvent
  <2>3. /\ tx'.event[l.id] = Row(cache[n].bid, w)
        /\ i # l.id => tx'.event[i] = tx.event[i]
    BY <1>3, <2>1, <2>2, StoreEventRows
  <2>4. CASE i = l.id
    <3>1. tx.event[i].b = cache[n].bid
      BY <1>3, <2>4 DEF RowsOf
    <3>2. tx.event[i].s = l.s /\ tx.event[i].d = l.d /\ tx.event[i].e = l.e
      <4>1. CASE l = last[n] /\ last[n] # None
        <5>1. tx.event[last[n].id] = Row(cache[n].bid, last[n])
          BY <1>3, <4>1 DEF HeartbeatCacheSound
        <5> QED
          BY <2>4, <4>1, <5>1 DEF Row
      <4>2. CASE l = AsCached(l.id, tx.event[l.id])
        BY <2>4, <4>2 DEF AsCached
      <4> QED
        BY <1>3, <4>1, <4>2
    <3>3. /\ tx'.event[i] \in EventRow /\ tx'.event[i].b = cache[n].bid
          /\ tx'.event[i].s = w.s /\ tx'.event[i].e = w.e /\ tx'.event[i].d = w.d
      <4>1. cache[n].bid \in Bid /\ w.d \in Data
        BY <1>3, <2>2, Typed DEF CachedEvent
      <4>2. Row(cache[n].bid, w) \in EventRow
        BY <2>2, <4>1 DEF Row, EventRow
      <4> QED
        BY <2>3, <2>4, <4>2 DEF Row
    <3> QED
      BY <2>2, <3>1, <3>2, <3>3, Typed DEF Preserved
  <2> QED
    BY <1>2, <2>3, <2>4
<1>4. ASSUME cache[n] # None, StoreEvent(n, RowId(tx, None), hb)
      PROVE  Preserved(i)
  <2>1. PICK id : id = RowId(tx, None)
    OBVIOUS
  <2>2. i <= tx.eseq /\ i \in Nat /\ tx.eseq \in Nat
    BY Typed DEF TablesConsistent, Consistent
  <2>3. i # id
    BY <2>1, <2>2 DEF RowId
  <2>4. tx'.event[i] = tx.event[i]
    BY <1>1, <1>4, <2>1, <2>3, StoreEventRows
  <2> QED
    BY <1>2, <2>4
<1> QED
  BY <1>2, <1>3, <1>4, HeartbeatEffect DEF vars

\* While no cached heartbeat was left behind by a rename, an import or a
\* rollback, a heartbeat destroys nothing that was recorded.
THEOREM HeartbeatsKeepTheRecord == Spec => HeartbeatKeepsRecord
<1>1. HeartbeatInv /\ [Next]_vars =>
         [\A n \in Name \ stale :
             ~diverged /\ BeatsAt(n) =>
                 \A i \in Eid : tx.event[i] # None => Preserved(i)]_vars
  BY HeartbeatPreserves DEF BeatsAt
<1> QED
  BY <1>1, HeartbeatInvariance, PTL DEF Spec, HeartbeatKeepsRecord

\* Until a rollback or a renaming migration, what is written to a bucket becomes
\* an event of the bucket that has that name in the table.
THEOREM WritesReachTheirBucket == Spec => WritesReachNamedBucket
<1>1. ASSUME HeartbeatInv, NEW n \in Name, ~diverged, Writes(n)
      PROVE  LandsIn(n)
  <2>1. TypeOK /\ Consistent(tx) /\ CacheMirrors(n)
    BY <1>1 DEF HeartbeatInv, TablesConsistent, CacheMirrorsTables
  <2>2. \/ UNCHANGED <<tx, cache>>
        \/ cache[n] # None /\ \E i, w : /\ w.s \in Nat /\ w.e \in Nat /\ w.d \in Data
                                        /\ StoreEvent(n, i, w)
    BY <1>1, <2>1, EventCommandWrites DEF Writes, BeatsAt
  <2>3. CASE UNCHANGED <<tx, cache>>
    BY <2>3 DEF LandsIn
  <2>4. ASSUME cache[n] # None, NEW i, NEW w, w.s \in Nat, w.e \in Nat, StoreEvent(n, i, w)
        PROVE  LandsIn(n)
    <3>1. /\ tx'.event[i] = Row(cache[n].bid, w) /\ tx'.bucket = tx.bucket
          /\ \A j \in Eid : j # i => tx'.event[j] = tx.event[j]
      BY <2>1, <2>4, StoreEventRows
    <3>2. Row(cache[n].bid, w).b = cache[n].bid
      BY DEF Row
    <3>3. tx.bucket[cache[n].bid].name = n
      BY <2>1, <2>4 DEF CacheMirrors, Named
    <3> QED
      BY <3>1, <3>2, <3>3 DEF LandsIn
  <2> QED
    BY <2>2, <2>3, <2>4
<1>2. HeartbeatInv /\ [Next]_vars => [\A n \in Name : ~diverged /\ Writes(n) => LandsIn(n)]_vars
  BY <1>1
<1> QED
  BY <1>2, HeartbeatInvariance, PTL DEF Spec, WritesReachNamedBucket
=============================================================================
