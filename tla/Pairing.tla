------------------------------ MODULE Pairing ------------------------------
(* Machines on a LAN that find each other, pair and agree on a secret
   (src/aw-sync-rust/src/manager.rs, endpoints.rs, transport.rs, discovery.rs).

   Every route runs under the manager's mutex.  The three routes that pair
   (initiate, accept, join by code) keep it while they wait for the peer's
   answer, so a machine that waits serves nobody; a request that was given up
   may still be served later, when nobody waits for its answer.  Discovery and
   the probe only take the lock of the database. *)
EXTENDS DeviceTable, Sequences

CONSTANTS
    Machine,
    Ids,              \* by machine: the ids of its installations, in order
    Code,             \* pairing codes; a code is drawn once
    Validity,         \* CODE_VALIDITY_MINUTES
    Acting,           \* bound: the machines whose user does more than pair
    MaxClock, MaxEvents                                     \* bounds

AllIds == UNION {Range(Ids[m]) : m \in Machine}

\* The id of an installation is drawn at random: no two have the same.
ASSUME PairingAssumption ==
    /\ {Validity, MaxClock} \subseteq Nat /\ Acting \subseteq Machine
    /\ \A m \in Machine : Ids[m] \in Seq(AllIds) /\ Ids[m] # <<>>
    /\ \A m, p \in Machine : \A i \in DOMAIN Ids[m], j \in DOMAIN Ids[p] :
          Ids[m][i] = Ids[p][j] => m = p /\ i = j
    /\ "nobody" \notin Machine
    /\ None \notin Machine \cup AllIds \cup {"nobody", "mdns", "udp"}

VARIABLES
    clock,
    install,          \* by machine: which installation is running
    reg,              \* by machine: its registry
    inbound,          \* by machine: pairing requests to be confirmed, id to uid
    call,             \* by machine: the request it waits for, with the lock
    net,              \* requests and responses on their way
    events,           \* calls, losses, operations and announcements so far
    joins,            \* history: the uses of pairing codes
    torn,             \* history: the pairs of machines whose last handshake
                      \* ended on one side only
    spoken            \* history: by machine and id, when mDNS last spoke of the
                      \* peer and when anything last did

vars == <<clock, install, reg, inbound, call, net, events, joins, torn, spoken>>

Id(m) == Ids[m][install[m]]
Owner(id) == CHOOSE m \in Machine : id \in Range(Ids[m])
Idle == [kind |-> "idle"]

\* self_device_info: what a machine says of itself in a handshake.
Me(m) == [addr |-> m, paired |-> FALSE, isSelf |-> TRUE, alias |-> None,
          synced |-> None, seen |-> clock, online |-> TRUE, uid |-> m,
          pairedAt |-> clock]

Silence == [id \in AllIds |-> [mdnsAt |-> None, heardAt |-> None]]

\* Nobody has heard of anybody, or everybody of everybody else.
Init ==
    /\ clock = 0
    /\ install = [m \in Machine |-> 1]
    /\ reg \in {[m \in Machine |-> EmptyRegistry],
               [m \in Machine |->
                   LET met(ids) == [i \in ids |-> RecordPeer(EmptyRegistry, i,
                                        Owner(i), "mdns", 0).rows[i]]
                   IN  [EmptyRegistry EXCEPT
                           !.rows = met({Id(p) : p \in Machine \ {m}})]]}
    /\ inbound = [m \in Machine |-> <<>>]
    /\ call = [m \in Machine |-> Idle]
    /\ net = {}
    /\ events = 0
    /\ joins = {}
    /\ torn = {}
    /\ spoken = [m \in Machine |-> [id \in AllIds |->
                     IF Known(reg[m], id) THEN [mdnsAt |-> 0, heardAt |-> 0]
                                          ELSE Silence[id]]]

Event == events < MaxEvents /\ events' = events + 1

LockFree(m) == call[m] = Idle

\* What the history knows of rows that are gone is forgotten; a handshake
\* brings the time it was sent, on the sender's clock, however late it comes.
Remember(sp, m, r) == [sp EXCEPT ![m] = [id \in AllIds |->
                          IF id \in DOMAIN r.rows THEN @[id] ELSE Silence[id]]]

Met(sp, m, r, id, w) ==
    IF Known(r, id) THEN [Remember(sp, m, r) EXCEPT ![m][id].heardAt = w.seen]
                    ELSE Remember(sp, m, r)

(***************************************************************************)
(* Handshakes.  A generated secret is named by who made it and for which   *)
(* call.                                                                   *)
(***************************************************************************)
\* The address of the row may be wrong: nobody is there, or it is left alone.
Call(m, kind, id, code) ==
    /\ LockFree(m)
    /\ Known(reg[m], id)
    /\ reg[m].rows[id].addr \in Machine \ {m}
    /\ Event
    /\ call' = [call EXCEPT ![m] = [kind |-> kind, peer |-> id]]
    /\ net' = net \cup {[type |-> "request", kind |-> kind, from |-> m,
                         id |-> Id(m), to |-> reg[m].rows[id].addr, me |-> Me(m),
                         code |-> code, wanted |-> TRUE, n |-> events]}
    /\ UNCHANGED <<clock, install, reg, inbound, joins, torn, spoken>>

InitiatePair(m, id) == Call(m, "request", id, None)
ConfirmPairWith(m, id) == Call(m, "confirm", id, None)
JoinRemote(m, id, code) == Call(m, "join", id, code)

\* Mutant: what the user knows of the peer is overwritten.
RefreshForgets(r, id, w) == UpsertDevice(r, id, [w EXCEPT !.isSelf = FALSE])

\* The peer's own word for its address, the local one for everything else.
RefreshPeer(r, id, w) ==
    UpsertDevice(r, id,
        IF Known(r, id)
        THEN [w EXCEPT !.isSelf = FALSE, !.paired = r.rows[id].paired,
                       !.alias = r.rows[id].alias,
                       !.synced = Coalesce(@, r.rows[id].synced)]
        ELSE [w EXCEPT !.isSelf = FALSE])

Answer(q, ok, secret, id) ==
    IF q.wanted THEN {[type |-> "response", kind |-> q.kind, to |-> q.from,
                       from |-> q.to, id |-> id, me |-> Me(q.to), ok |-> ok,
                       secret |-> secret]}
    ELSE {}

\* What /pair/request, /pair/confirm and /join do to the registry of the
\* machine that is called.  The caller never offers a secret, so it makes one.
AdoptIncomingSecret(r, id, s) == SetSecret(r, id, s)

PairRequest(r, q, s) == AdoptIncomingSecret(r, q.id, s)

PairConfirm(r, q, s) ==
    SetPaired(AdoptIncomingSecret(RefreshPeer(r, q.id, q.me), q.id, s), q.id)

\* The device that join_with_code returns is saved once more.
Join(r, q, s) ==
    LET joined == AdoptIncomingSecret(JoinWithCode(r, q.code, q.id, q.me), q.id, s)
    IN  UpsertDevice(joined, q.id, [q.me EXCEPT !.paired = TRUE, !.isSelf =
                                                    joined.rows[q.id].isSelf])

Serve(m) ==
    \E q \in net :
        LET s == [by |-> m, for |-> q.n]
            spent == q.kind = "join" /\ ~ValidCode(reg[m], q.code, clock)
            serve(r, waiting) ==
                /\ reg' = [reg EXCEPT ![m] = r]
                /\ inbound' = [inbound EXCEPT ![m] = waiting]
        IN  /\ q.type = "request" /\ q.to = m
            /\ LockFree(m)
            /\ \/ /\ q.kind = "request"
                  /\ serve(PairRequest(reg[m], q, s), Put(inbound[m], q.id, q.me.uid))
                  /\ UNCHANGED joins
               \/ /\ q.kind = "confirm"
                  /\ serve(PairConfirm(reg[m], q, s), Drop(inbound[m], {q.id}))
                  /\ UNCHANGED joins
               \/ /\ q.kind = "join" /\ ~spent
                  /\ serve(Join(reg[m], q, s), inbound[m])
                  /\ joins' = joins \cup {[code |-> q.code, n |-> q.n]}
               \/ spent /\ UNCHANGED <<reg, inbound, joins>>
            /\ net' = (net \ {q}) \cup Answer(q, ~spent, s, Id(m))
            /\ torn' = IF spent THEN torn
                       ELSE IF q.wanted THEN torn \ {{m, q.from}}
                       ELSE torn \cup {{m, q.from}}
            /\ spoken' = IF spent \/ q.kind = "request" THEN spoken
                         ELSE Met(spoken, m, reg'[m], q.id, q.me)
            /\ UNCHANGED <<clock, install, call, events>>

\* Mutant: the secret that is there stays (store_secret_if_absent).
AbsorbSecretIfAbsent(r, id, s) == IF id \in DOMAIN r.secret THEN r ELSE SetSecret(r, id, s)

AbsorbSecret(r, id, s) == SetSecret(r, id, s)

\* The answer: the secret is stored under the id that was called, the peer's
\* description under the id it gives.
Finish(m) ==
    \E a \in net :
        LET c == call[m]
            met == RefreshPeer(AbsorbSecret(reg[m], c.peer, a.secret), a.id, a.me)
            paired == SetPaired(met, c.peer)
        IN  /\ a.type = "response" /\ a.to = m
            /\ net' = net \ {a}
            /\ call' = [call EXCEPT ![m] = Idle]
            /\ reg' = [reg EXCEPT ![m] = IF ~a.ok THEN @
                                         ELSE IF c.kind = "request" THEN met
                                         ELSE paired]
            /\ inbound' = [inbound EXCEPT ![m] =
                               IF a.ok /\ c.kind = "confirm" THEN Drop(@, {c.peer})
                               ELSE @]
            /\ torn' = IF a.ok /\ a.id # c.peer THEN torn \cup {{m, a.from}} ELSE torn
            /\ spoken' = IF a.ok THEN Met(spoken, m, reg'[m], a.id, a.me) ELSE spoken
            /\ UNCHANGED <<clock, install, events, joins>>

\* The caller gives up.  What it has sent may arrive all the same.
Timeout(m) ==
    /\ call[m] # Idle
    /\ Event
    /\ call' = [call EXCEPT ![m] = Idle]
    /\ LET sent == {q \in net : q.type = "request" /\ q.from = m /\ q.wanted}
           late == {a \in net : a.type = "response" /\ a.to = m}
       IN  /\ \/ net' = net \ (sent \cup late)
              \/ /\ sent # {}
                 /\ net' = (net \ sent) \cup {[q EXCEPT !.wanted = FALSE] : q \in sent}
           /\ torn' = torn \cup {{m, a.from} : a \in late}
    /\ UNCHANGED <<clock, install, reg, inbound, joins, spoken>>

(***************************************************************************)
(* The user's other operations, each a route of its own.                   *)
(***************************************************************************)
Operation(m, r) ==
    /\ LockFree(m)
    /\ Event
    /\ reg' = [reg EXCEPT ![m] = r]
    /\ spoken' = Remember(spoken, m, r)
    /\ UNCHANGED <<clock, install, call, net, joins>>

\* An answer that is on its way will tell of a pairing that is no more.
Tears(m) == torn' = torn \cup {{m, a.to} : a \in {x \in net : x.from = m}}

CreateCode(m) ==
    \E c \in Code :
        /\ \A o \in Machine : c \notin DOMAIN reg[o].codes
        /\ \A j \in joins : j.code # c
        /\ Operation(m, StoreCode(reg[m], c, clock, Validity))
        /\ UNCHANGED <<inbound, torn>>

Remove(m) ==
    \E id \in DOMAIN reg[m].rows :
        Operation(m, DeleteDevice(reg[m], id)) /\ Tears(m) /\ UNCHANGED inbound

ClearAll(m) ==
    /\ Operation(m, DeleteAllDevices(reg[m]))
    /\ inbound' = [inbound EXCEPT ![m] = <<>>]
    /\ Tears(m)

Purge(m) ==
    /\ \E r \in Purgings(reg[m], clock) : Operation(m, PurgeStalePaired(r, clock))
    /\ Tears(m)
    /\ UNCHANGED inbound

Merge(m) ==
    \E from, to \in DOMAIN reg[m].rows :
        /\ Mergeable(reg[m], from, to)
        /\ Operation(m, MergeDevice(reg[m], from, to))
        /\ Tears(m)
        /\ UNCHANGED inbound

SetAlias(m) ==
    \E id \in DOMAIN reg[m].rows :
        Operation(m, UpdateAlias(reg[m], id, "alias")) /\ UNCHANGED <<inbound, torn>>

\* The client enters a device by hand, as it knows it.
AddDevice(m) ==
    \E p \in Machine \ {m} :
        /\ Operation(m, UpsertDevice(reg[m], Id(p),
               [Me(p) EXCEPT !.isSelf = FALSE, !.uid = None, !.paired = TRUE]))
        /\ UNCHANGED <<inbound, torn>>

\* Installed again: another id, an empty registry.
Reinstall(m) ==
    /\ install[m] < Len(Ids[m])
    /\ install' = [install EXCEPT ![m] = @ + 1]
    /\ Event
    /\ reg' = [reg EXCEPT ![m] = EmptyRegistry]
    /\ inbound' = [inbound EXCEPT ![m] = <<>>]
    /\ call' = [call EXCEPT ![m] = Idle]
    /\ net' = {q \in net : m \notin {q.from, q.to}}
    /\ torn' = torn \cup {{q.from, q.to} : q \in {x \in net : m \in {x.from, x.to}}}
    /\ spoken' = [spoken EXCEPT ![m] = Silence]
    /\ UNCHANGED <<clock, joins>>

(***************************************************************************)
(* A synchronisation, seen from the registries: the bodies are sealed with *)
(* the secret each side has for the other, or sent as they are.            *)
(***************************************************************************)
\* The secret a body from m to the device of that id is sealed with, or None.
SealBody(m, id) == At(reg[m].secret, id)

\* A plain body is refused where there is a secret.
OpenBody(m, id, key) ==
    IF key = None THEN id \notin DOMAIN reg[m].secret
    ELSE id \in DOMAIN reg[m].secret /\ reg[m].secret[id] = key

\* The snapshot of p is fetched, then the own one is pushed; whether the push
\* succeeds is not looked at.  An unknown device that pushes is entered as it
\* describes itself.
SyncTo(m, id) ==
    \E p \in Machine \ {m} :
        /\ reg[m].rows[id].addr = p
        /\ LockFree(m) /\ LockFree(p)
        /\ OpenBody(m, id, SealBody(p, Id(m)))
        /\ Event
        /\ \E pushed \in {FALSE, OpenBody(p, Id(m), SealBody(m, id))} :
              reg' = [reg EXCEPT
                  ![m] = MarkSynced(@, id, clock),
                  ![p] = IF pushed /\ ~Known(@, Id(m))
                         THEN UpsertDevice(@, Id(m), Me(m)) ELSE @]
        /\ UNCHANGED <<clock, install, inbound, call, net, joins, torn, spoken>>

SyncNow(m) == \E id \in Listed(reg[m]) : SyncTo(m, id)

\* The background thread: paired devices; those marked offline are tried again
\* from time to time, so the flag decides only when.
AutoSync(m) ==
    \E id \in Listed(reg[m]) :
        reg[m].rows[id].paired /\ ~reg[m].rows[id].isSelf /\ SyncTo(m, id)

(***************************************************************************)
(* Discovery and the probe.  The address of an announcement is the         *)
(* sender's or, from a wrong interface, nobody's.                          *)
(***************************************************************************)
\* Mutant: the machine records its own announcement.
AnnounceToSelf(m, p, via, addr) ==
    /\ Event
    /\ reg' = [reg EXCEPT ![m] = RecordPeer(@, Id(p), addr, via, clock)]
    /\ UNCHANGED <<clock, install, inbound, call, net, joins, torn, spoken>>

Announce(m, p, via, addr) ==
    /\ m # p
    /\ Event
    /\ reg' = [reg EXCEPT ![m] = RecordPeer(@, Id(p), addr, via, clock)]
    /\ spoken' = [spoken EXCEPT ![m][Id(p)] =
           [mdnsAt |-> IF via = "mdns" THEN clock ELSE @.mdnsAt, heardAt |-> clock]]
    /\ UNCHANGED <<clock, install, inbound, call, net, joins, torn>>

\* The probe thread: first the purge, then the answer of one listed device.
Probe(m) ==
    \E r \in Purgings(reg[m], clock) :
        \E id \in Listed(r), online \in BOOLEAN :
            /\ ~r.rows[id].isSelf
            /\ Event
            /\ reg' = [reg EXCEPT ![m] = TouchOnline(r, id, online, clock)]
            /\ spoken' = Remember(spoken, m, r)
            /\ UNCHANGED <<clock, install, inbound, call, net, joins, torn>>

Tick ==
    /\ clock < MaxClock
    /\ clock' = clock + 1
    /\ UNCHANGED <<install, reg, inbound, call, net, events, joins, torn, spoken>>

UserStep(m) ==
    \/ CreateCode(m) \/ Remove(m) \/ ClearAll(m) \/ Purge(m) \/ Merge(m)
    \/ SetAlias(m) \/ AddDevice(m)

Next ==
    \/ Tick
    \/ \E m \in Machine :
          \/ \E id \in AllIds : \/ InitiatePair(m, id) \/ ConfirmPairWith(m, id)
                                \/ \E c \in Code : JoinRemote(m, id, c)
          \/ Serve(m) \/ Finish(m) \/ Timeout(m) \/ Reinstall(m)
          \/ \E p \in Machine : Announce(m, p, "mdns", p)
    \/ \E m \in Acting : \/ UserStep(m) \/ SyncNow(m) \/ AutoSync(m) \/ Probe(m)
    \/ \E m \in Acting, p \in Machine : \/ Announce(m, p, "mdns", "nobody")
                                       \/ Announce(m, p, "udp", p)
                                       \/ Announce(m, p, "udp", "nobody")

Spec == Init /\ [][Next]_vars

(***************************************************************************)
(* Properties.                                                             *)
(***************************************************************************)
PairTypeOK ==
    /\ clock \in 0..MaxClock
    /\ \A m \in Machine :
          /\ install[m] \in 1..Len(Ids[m])
          /\ Known(reg[m], Id(m)) = FALSE
          /\ DOMAIN reg[m].rows \subseteq AllIds
          /\ DOMAIN reg[m].secret \subseteq AllIds
          /\ DOMAIN inbound[m] \subseteq AllIds
          /\ call[m] = Idle => ~\E q \in net :
                 \/ q.type = "request" /\ q.from = m /\ q.wanted
                 \/ q.type = "response" /\ q.to = m

\* Two machines that have a secret for each other have the same one, once
\* neither waits for an answer and their last handshake was not left on one
\* side: snapshots can be read, whatever the order and the number of the
\* pairings, and whatever the other machines do.
SecretsAgree ==
    \A m, p \in Machine :
        (/\ {m, p} \notin torn /\ call[m] = Idle /\ call[p] = Idle
         /\ Id(p) \in DOMAIN reg[m].secret /\ Id(m) \in DOMAIN reg[p].secret) =>
            reg[m].secret[Id(p)] = reg[p].secret[Id(m)]

\* A pairing code lets in one device, and none when it has expired.
CodeJoinsOnce ==
    \A c \in Code : Cardinality({j \in joins : j.code = c}) <= 1

\* A paired device is never marked as the machine itself: the list would hide
\* it (the comment of join_with_code).  It can be for an id the peer no longer
\* has: its push entered it as it described itself, and accepting it paired it.
PairedIsNotSelf ==
    \A m, p \in Machine :
        (Known(reg[m], Id(p)) /\ reg[m].rows[Id(p)].paired) =>
            ~reg[m].rows[Id(p)].isSelf

\* Of two rows of one machine at most one is offered to be merged into the
\* other, and the offer can be taken.
MergeHintsHold ==
    \A m \in Machine : \A id \in Listed(reg[m]) :
        LET r == reg[m]
            uid == Coalesce(At(inbound[m], id), r.rows[id].uid)
        IN  (uid # None /\ ~r.rows[id].isSelf) =>
                \A o \in MergeCandidates(r, id, uid) :
                    /\ Mergeable(r, o, id)
                    /\ r.rows[id].paired => id \notin MergeCandidates(r, o, uid)

\* Pairing is the user's: a paired device stays paired whatever is announced,
\* probed, asked for or answered.
PairingSticks ==
    [][\A m \in Machine : \A id \in DOMAIN reg[m].rows :
          reg[m].rows[id].paired /\ ~UserStep(m) /\ ~Reinstall(m) =>
              Known(reg'[m], id) /\ reg'[m].rows[id].paired]_vars

\* A broadcast writes the address it comes from, unless mDNS has spoken of the
\* device within its time of freshness: then the address stays.  The sign of
\* life that such a broadcast is does not prolong that time.
MdnsHasTheWord ==
    [][\A m, p \in Machine : \A addr \in {p, "nobody"} :
          Announce(m, p, "udp", addr) =>
              LET said == spoken[m][Id(p)].mdnsAt
              IN  reg'[m].rows[Id(p)].addr =
                      IF said # None /\ clock - said < MdnsFresh
                      THEN reg[m].rows[Id(p)].addr ELSE addr]_vars

\* A device that was heard within the grace time is not marked offline; after
\* a handshake, what counts is when its message was sent.
HeardIsNotOffline ==
    [][\A m \in Machine : \A id \in DOMAIN reg[m].rows :
          (/\ Known(reg'[m], id)
           /\ reg[m].rows[id].online /\ ~reg'[m].rows[id].online
           /\ reg'[m].rows[id].heir = None
           /\ spoken[m][id].heardAt # None) =>
              clock - spoken[m][id].heardAt >= OnlineGrace]_vars
=============================================================================
