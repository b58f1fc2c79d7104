---------------------------- MODULE DurableLog -----------------------------
(***************************************************************************)
(* What the datastore worker promises its clients about durability,        *)
(* without requests, batches or flags: accepted writes are pending until   *)
(* all of them become durable at once or all of them are lost, and a       *)
(* client that asked for a synchronous commit is told it was kept only in  *)
(* a step that leaves nothing pending because everything became durable.   *)
(***************************************************************************)
EXTENDS Naturals, FiniteSets

CONSTANTS Client, Op

VARIABLES
    log,      \* durable writes
    pending,  \* accepted writes that are not durable yet
    sync      \* what each client knows of the synchronous commit it asked for

SyncState == {"none", "asked", "kept", "broken"}

AbstractInit ==
    /\ log = {}
    /\ pending = {}
    /\ sync = [c \in Client |-> "none"]

\* A write is accepted: it was never accepted before.
Accept ==
    /\ \E op \in pending' : op \notin pending \cup log /\ pending' = pending \cup {op}
    /\ UNCHANGED <<log, sync>>

\* A client asks for a synchronous commit, or turns to something else.
AskOrForget(c) ==
    /\ sync[c] # "asked"
    /\ sync' \in {[sync EXCEPT ![c] = "asked"], [sync EXCEPT ![c] = "none"]}
    /\ UNCHANGED <<log, pending>>

\* Everything pending becomes durable; at most one client is told so, any
\* number of them are told that they cannot rely on it.
Persist ==
    /\ log' = log \cup pending
    /\ pending' = {}
    /\ sync' \in [Client -> SyncState]
    /\ \A c \in Client : sync'[c] # sync[c] =>
          sync[c] = "asked" /\ sync'[c] \in {"kept", "broken"}
    /\ \A c, d \in Client :
          sync'[c] # sync[c] /\ sync'[d] # sync[d] /\ sync'[c] = "kept" => c = d

\* Everything pending is lost; nobody may be told it was kept.
Lose ==
    /\ pending' = {}
    /\ log' = log
    /\ sync' \in [Client -> SyncState]
    /\ \A c \in Client : sync'[c] # sync[c] =>
          sync[c] = "asked" /\ sync'[c] = "broken"

\* A request that was never looked at is refused.
Refuse(c) ==
    /\ sync[c] = "asked"
    /\ sync' = [sync EXCEPT ![c] = "broken"]
    /\ UNCHANGED <<log, pending>>

AbstractNext ==
    \/ Accept \/ Persist \/ Lose
    \/ \E c \in Client : AskOrForget(c) \/ Refuse(c)

AbstractSpec == AbstractInit /\ [][AbstractNext]_<<log, pending, sync>>
=============================================================================
