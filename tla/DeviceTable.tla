---------------------------- MODULE DeviceTable ----------------------------
(* The registry of peers in sync.db (src/aw-sync-rust/src/storage.rs,
   discovery.rs, paircode.rs) as a value, and its operations as functions from
   a registry to a registry.

   A registry is a record of
     rows    the devices, by id;
     secret  device_secrets: the shared secret of a peer, by its id;
     heir    device_id_alias: from an id that was merged to the id it went to;
     codes   pairing_codes: the time a code expires.
   A row's "heir" is its superseded_by, "via" and "viaAt" are the discovery
   path that last wrote its address and when, "uid" is the fingerprint of the
   machine.  Names and kinds are left out. *)
EXTENDS SqlNull, Naturals, FiniteSets, FiniteSetsExt, Functions

CONSTANTS
    MdnsFresh,        \* MDNS_FRESH_SECS
    OnlineGrace,      \* ONLINE_GRACE_SECS
    DiscoveredAge,    \* DISCOVERED_MAX_AGE_DAYS
    DiscoveredKeep,   \* DISCOVERED_KEEP
    StaleAfter        \* the days the user gives to the purge

ASSUME DeviceTableAssumption ==
    {MdnsFresh, OnlineGrace, DiscoveredAge, DiscoveredKeep, StaleAfter} \subseteq Nat

EmptyRegistry == [rows |-> <<>>, secret |-> <<>>, heir |-> <<>>, codes |-> <<>>]

Put(f, x, v) == [y \in DOMAIN f \cup {x} |-> IF y = x THEN v ELSE f[y]]
Drop(f, xs) == Restrict(f, DOMAIN f \ xs)
At(f, x) == IF x \in DOMAIN f THEN f[x] ELSE None
Coalesce(x, y) == IF x = None THEN y ELSE x

Known(r, id) == id \in DOMAIN r.rows

\* What the list shows.
Listed(r) == {id \in DOMAIN r.rows : r.rows[id].heir = None}

(***************************************************************************)
(* Writing a row.  w is the Device of a message or of the caller.          *)
(***************************************************************************)
\* An existing row keeps its paired_at, its discovery path and its heir.
UpsertDevice(r, id, w) ==
    LET old == r.rows[id]
        fresh == [addr |-> w.addr, paired |-> w.paired, isSelf |-> w.isSelf,
                  alias |-> w.alias, synced |-> w.synced, seen |-> w.seen,
                  online |-> w.online, uid |-> w.uid, pairedAt |-> w.pairedAt,
                  via |-> None, viaAt |-> None, heir |-> None]
    IN  [r EXCEPT !.rows = Put(@, id,
            IF ~Known(r, id) THEN fresh
            ELSE [fresh EXCEPT !.uid = Coalesce(@, old.uid),
                               !.pairedAt = old.pairedAt, !.via = old.via,
                               !.viaAt = old.viaAt, !.heir = old.heir])]

\* What discovery writes: where the device is, and that it is there.
UpsertDiscovered(r, id, addr, via, now) ==
    [r EXCEPT !.rows = Put(@, id,
        IF ~Known(r, id)
        THEN [addr |-> addr, paired |-> FALSE, isSelf |-> FALSE, alias |-> None,
              synced |-> None, seen |-> now, online |-> FALSE, uid |-> None,
              pairedAt |-> now, via |-> via, viaAt |-> now, heir |-> None]
        ELSE [@[id] EXCEPT !.addr = addr, !.seen = now, !.online = TRUE,
                           !.isSelf = FALSE, !.via = via, !.viaAt = now])]

\* Mutant: the freshness is that of the last sign of life.
SourceWinsBySeen(r, id, via, now) ==
    \/ ~Known(r, id)
    \/ via # "udp" \/ r.rows[id].via # "mdns"
    \/ r.rows[id].seen = None
    \/ now - r.rows[id].seen >= MdnsFresh

\* A broadcast does not overwrite what mDNS has said lately.
SourceWins(r, id, via, now) ==
    \/ ~Known(r, id)
    \/ via # "udp" \/ r.rows[id].via # "mdns"
    \/ now - r.rows[id].viaAt >= MdnsFresh

\* Mutant: only the flag is set.
TouchSeenFlag(r, id, now) == [r EXCEPT !.rows[id].online = TRUE]

TouchSeen(r, id, now) ==
    IF r.rows[id].isSelf THEN r
    ELSE [r EXCEPT !.rows[id].seen = now, !.rows[id].online = TRUE]

RecordPeer(r, id, addr, via, now) ==
    IF SourceWins(r, id, via, now) THEN UpsertDiscovered(r, id, addr, via, now)
                                   ELSE TouchSeen(r, id, now)

\* A failed probe does not contradict a device that was heard lately.
TouchOnline(r, id, online, now) ==
    LET row == r.rows[id]
        heard == row.seen # None /\ row.seen + OnlineGrace > now
    IN  IF ~Known(r, id) \/ (~online /\ heard) THEN r
        ELSE [r EXCEPT !.rows[id].online = online]

SetPaired(r, id) == IF Known(r, id) THEN [r EXCEPT !.rows[id].paired = TRUE] ELSE r

UpdateAlias(r, id, alias) == [r EXCEPT !.rows[id].alias = alias]

MarkSynced(r, id, now) ==
    IF Known(r, id)
    THEN [r EXCEPT !.rows[id].synced = now, !.rows[id].online = TRUE] ELSE r

SetSecret(r, id, s) == [r EXCEPT !.secret = Put(@, id, s)]

(***************************************************************************)
(* Removing rows.                                                          *)
(***************************************************************************)
\* The alias map keeps what it says of the id.
DeleteDevice(r, id) == [r EXCEPT !.rows = Drop(@, {id}), !.secret = Drop(@, {id})]

DeleteAllDevices(r) ==
    [r EXCEPT !.rows = [id \in {i \in DOMAIN @ : @[i].isSelf} |-> @[id]],
              !.secret = <<>>, !.heir = <<>>]

\* Paired devices that synced once, but not for a long time.
StalePaired(r, now) ==
    {id \in Listed(r) : /\ r.rows[id].paired
                        /\ ~r.rows[id].isSelf
                        /\ r.rows[id].synced # None
                        /\ r.rows[id].synced + StaleAfter < now}

PurgeStalePaired(r, now) ==
    LET gone == StalePaired(r, now)
    IN  [r EXCEPT !.rows = Drop(@, gone), !.secret = Drop(@, gone),
                  !.heir = [id \in {i \in DOMAIN @ : {i, @[i]} \cap gone = {}}
                                |-> @[id]]]

\* Devices that were only ever heard: the silent ones, then the oldest ones
\* beyond the limit.  Their secrets stay.
Discovered(r) == {id \in DOMAIN r.rows : /\ ~r.rows[id].paired
                                         /\ ~r.rows[id].isSelf
                                         /\ r.rows[id].via # None}

SeenAt(r, id) == IF r.rows[id].seen = None THEN 0 ELSE r.rows[id].seen

Purgings(r, now) ==
    LET silent == {id \in Discovered(r) : SeenAt(r, id) + DiscoveredAge < now}
        rest == Discovered(r) \ silent
        kept(k) == /\ Cardinality(k) = Min({Cardinality(rest), DiscoveredKeep})
                   /\ \A x \in k, y \in rest \ k : SeenAt(r, x) >= SeenAt(r, y)
    IN  {[r EXCEPT !.rows = Drop(@, silent \cup (rest \ k))] :
            k \in {k \in SUBSET rest : kept(k)}}

(***************************************************************************)
(* One machine under two ids: it was installed again.                      *)
(***************************************************************************)
Candidates(r, uid, id) ==
    {o \in Listed(r) \ {id} : /\ r.rows[o].uid = uid
                              /\ r.rows[o].paired
                              /\ ~r.rows[o].isSelf}

\* Mutant: the earlier of two pairings is not told from the later one.
MergeCandidatesBoth(r, id, uid) ==
    {o \in Candidates(r, uid, id) : \A p \in Candidates(r, uid, id) :
                                       r.rows[o].pairedAt <= r.rows[p].pairedAt}

\* The row that was paired first, unless that is the row itself.
MergeCandidates(r, id, uid) ==
    {o \in Candidates(r, uid, id) :
        /\ \A p \in Candidates(r, uid, id) : r.rows[o].pairedAt <= r.rows[p].pairedAt
        /\ r.rows[id].paired => r.rows[id].pairedAt > r.rows[o].pairedAt}

Mergeable(r, from, to) ==
    /\ from # to
    /\ {from, to} \subseteq Listed(r)
    /\ ~r.rows[from].isSelf /\ ~r.rows[to].isSelf
    /\ r.rows[from].paired \/ r.rows[to].paired

\* What the row that stays takes over from the one that goes.
MergedRow(t, f) == [t EXCEPT !.alias = Coalesce(@, f.alias),
                             !.paired = @ \/ f.paired,
                             !.pairedAt = Min({@, f.pairedAt}),
                             !.synced = Coalesce(@, f.synced),
                             !.uid = Coalesce(@, f.uid)]

MergeDevice(r, from, to) ==
    [r EXCEPT !.secret = Drop(@, {from}),
              !.heir = Put(@, from, to),
              !.rows = [@ EXCEPT ![from].heir = to, ![from].online = FALSE,
                                 ![to] = MergedRow(r.rows[to], r.rows[from])]]

(***************************************************************************)
(* Pairing codes.                                                          *)
(***************************************************************************)
StoreCode(r, code, now, validity) ==
    [r EXCEPT !.codes = Put(Restrict(@, {c \in DOMAIN @ : @[c] > now}),
                            code, now + validity)]

ValidCode(r, code, now) == code \in DOMAIN r.codes /\ now < r.codes[code]

\* Mutant: the code stays.
JoinKeepsCode(r, code, id, w) ==
    UpsertDevice(r, id, [w EXCEPT !.paired = TRUE, !.isSelf = FALSE])

\* Mutant: the joiner's own view of itself is stored.
JoinAsSelf(r, code, id, w) ==
    [UpsertDevice(r, id, [w EXCEPT !.paired = TRUE]) EXCEPT !.codes = Drop(@, {code})]

\* Validated by the caller; the device is paired and the code is spent.
JoinWithCode(r, code, id, w) ==
    [UpsertDevice(r, id, [w EXCEPT !.paired = TRUE, !.isSelf = FALSE])
        EXCEPT !.codes = Drop(@, {code})]
=============================================================================
