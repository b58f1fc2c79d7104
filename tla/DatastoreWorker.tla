-------------------------- MODULE DatastoreWorker --------------------------
(***************************************************************************)
(* The worker thread of aw-datastore (src/aw-datastore/src/worker.rs): the *)
(* request channel, the batching transaction, the two kinds of ack, a      *)
(* commit that fails, a handler that panics, and a process that dies.      *)
(*                                                                         *)
(* What a command does to the tables is Datastore.tla's subject; here a    *)
(* write is an operation with a number, and what matters is whether it is  *)
(* in the open transaction, on disk, or lost.                              *)
(***************************************************************************)
EXTENDS Naturals, Sequences, FiniteSets

CONSTANTS
    Client,     \* threads that hold a clone of the Datastore handle
    None,       \* "no client": the deferred_ack is empty
    EventCap,   \* uncommitted events that force a commit (100 in the code)
    MaxBatch,   \* BOUND: events in one insert
    MaxOps,     \* BOUND: writes handled in one behaviour
    MaxCrashes  \* BOUND: times the process is killed

ASSUME WorkerAssumption ==
    /\ None \notin Client
    /\ EventCap \in Nat
    /\ MaxBatch \in Nat \ {0}
    /\ MaxOps \in Nat
    /\ MaxCrashes \in Nat

VARIABLES
    pc,           \* where work_loop is
    queue,        \* the mpsc channel: clients in the order of their requests
    asked,        \* the command each client sent last
    answer,       \* what each client knows of that command
    tx,           \* operations in the open transaction
    disk,         \* operations committed to the file
    lost,         \* operations rolled back, by a failed commit or a crash
    next,         \* number of the next write to be handled
    uncommitted,  \* uncommitted_events
    commit,       \* the commit flag
    quit,         \* the quit flag
    elapsed,      \* 15 s have passed since the transaction was begun
    deferred,     \* the client whose ack waits for the commit
    acked,        \* the writes each client was told succeeded
    crashes       \* times the process was killed

loopVars == <<uncommitted, commit, quit, elapsed, deferred>>
dataVars == <<tx, disk, lost, next>>
clientVars == <<asked, answer, acked>>
vars == <<pc, queue, loopVars, dataVars, clientVars, crashes>>

-----------------------------------------------------------------------------
(* Commands, by what the loop does with them:                              *)
(*   events  InsertEvents and Heartbeat: counted, n events at once         *)
(*   quiet   DeleteEventsById, Set/DeleteKeyValue: neither counted nor     *)
(*           committed at once                                             *)
(*   bucket  Create/Delete/RenameBucket and the migrations that changed    *)
(*           something: set the commit flag                                *)
(*   query   every read, every command that failed or had nothing to do    *)
(*   force   ForceCommit,  close  Close: their ack waits for the commit    *)

EventWrite == [kind : {"events"}, n : 1..MaxBatch]
PlainCommand == [kind : {"quiet", "bucket", "query", "force", "close"}, n : {0}]
Command == EventWrite \cup PlainCommand

Writes == {"events", "quiet", "bucket"}
AckAfterCommit == {"force", "close"}

Op == [id : Nat \ {0}, kind : Writes]

AckedOps == UNION {acked[c] : c \in Client}

TypeOK ==
    /\ pc \in {"begin", "poll", "commit", "stopped", "down"}
    /\ queue \in Seq(Client)
    /\ asked \in [Client -> Command]
    /\ answer \in [Client -> {"idle", "waiting", "ok", "err", "gone"}]
    /\ tx \in SUBSET Op
    /\ disk \in SUBSET Op
    /\ lost \in SUBSET Op
    /\ next \in Nat \ {0}
    /\ uncommitted \in Nat
    /\ commit \in BOOLEAN
    /\ quit \in BOOLEAN
    /\ elapsed \in BOOLEAN
    /\ deferred \in Client \cup {None}
    /\ acked \in [Client -> SUBSET Op]
    /\ crashes \in Nat

Init ==
    /\ pc = "begin"
    /\ queue = <<>>
    /\ asked = [c \in Client |-> [kind |-> "query", n |-> 0]]
    /\ answer = [c \in Client |-> "idle"]
    /\ tx = {} /\ disk = {} /\ lost = {} /\ next = 1
    /\ uncommitted = 0 /\ commit = FALSE /\ quit = FALSE /\ elapsed = FALSE
    /\ deferred = None
    /\ acked = [c \in Client |-> {}]
    /\ crashes = 0

-----------------------------------------------------------------------------
(* Clients                                                                 *)

Free(c) == answer[c] \in {"idle", "ok", "err"}

\* Datastore::request sends the command and blocks for the answer. A channel
\* whose receiver is gone refuses it; Orphaned then gives the error.
Send(c, cmd) ==
    /\ pc # "down"
    /\ Free(c)
    /\ cmd.kind \in Writes => next + Len(queue) <= MaxOps
    /\ asked' = [asked EXCEPT ![c] = cmd]
    /\ answer' = [answer EXCEPT ![c] = "waiting"]
    /\ queue' = IF pc = "stopped" THEN queue ELSE Append(queue, c)
    /\ UNCHANGED <<pc, loopVars, dataVars, acked, crashes>>

\* The worker thread is gone: the request fails with InternalError.
Orphaned(c) ==
    /\ pc = "stopped"
    /\ answer[c] = "waiting"
    /\ answer' = [answer EXCEPT ![c] = "err"]
    /\ UNCHANGED <<pc, queue, loopVars, dataVars, asked, acked, crashes>>

\* A client drops its handle; poll() fails when the last one has.
DropHandle(c) ==
    /\ pc # "down"
    /\ Free(c)
    /\ answer' = [answer EXCEPT ![c] = "gone"]
    /\ UNCHANGED <<pc, queue, loopVars, dataVars, asked, acked, crashes>>

-----------------------------------------------------------------------------
(* The worker                                                              *)

\* Mutant of Begin: the flags of the last batch are not reset.
BeginKeepsFlags ==
    /\ pc = "begin"
    /\ pc' = "poll"
    /\ deferred' = None
    /\ UNCHANGED <<queue, uncommitted, commit, elapsed, quit, dataVars, clientVars, crashes>>

\* BEGIN IMMEDIATE succeeded. A refusal is retried after one second and
\* changes nothing.
Begin ==
    /\ pc = "begin"
    /\ pc' = "poll"
    /\ uncommitted' = 0
    /\ commit' = FALSE
    /\ elapsed' = FALSE
    /\ deferred' = None
    /\ UNCHANGED <<queue, quit, dataVars, clientVars, crashes>>

\* The commit interval passes while the transaction is open. Nothing wakes
\* the worker up: the clock is only read after a request was handled.
IntervalPasses ==
    /\ pc = "poll"
    /\ ~elapsed
    /\ elapsed' = TRUE
    /\ UNCHANGED <<pc, queue, uncommitted, commit, quit, deferred, dataVars,
                   clientVars, crashes>>

\* Mutants of EndOfBatch: one of its three conditions is forgotten.
EndOfBatchIgnoresFlag(nUncommitted, commitFlag) == elapsed \/ nUncommitted > EventCap
EndOfBatchIgnoresClock(nUncommitted, commitFlag) == commitFlag \/ nUncommitted > EventCap

\* After a request that was acked at once: commit now, or poll again?
EndOfBatch(nUncommitted, commitFlag) ==
    commitFlag \/ elapsed \/ nUncommitted > EventCap

Polled(c) ==
    /\ pc = "poll"
    /\ queue # <<>>
    /\ c = Head(queue)
    /\ queue' = Tail(queue)

Answer(c, what) == answer' = [answer EXCEPT ![c] = what]

\* A command that writes, answered Ok before the transaction commits.
HandleWrite(c) ==
    LET op == [id |-> next, kind |-> asked[c].kind]
    IN  /\ Polled(c)
        /\ asked[c].kind \in Writes
        /\ tx' = tx \cup {op}
        /\ next' = next + 1
        /\ uncommitted' = uncommitted + asked[c].n
        /\ commit' = (commit \/ asked[c].kind = "bucket")
        /\ Answer(c, "ok")
        /\ acked' = [acked EXCEPT ![c] = @ \cup {op}]
        /\ pc' = IF EndOfBatch(uncommitted', commit') THEN "commit" ELSE "poll"
        /\ UNCHANGED <<quit, elapsed, deferred, disk, lost, asked, crashes>>

\* A read, an Err, or a write with nothing to write: only the clock matters.
HandleQuery(c) ==
    /\ Polled(c)
    /\ asked[c].kind = "query"
    /\ \E what \in {"ok", "err"} : Answer(c, what)
    /\ pc' = IF EndOfBatch(uncommitted, commit) THEN "commit" ELSE "poll"
    /\ UNCHANGED <<loopVars, dataVars, asked, acked, crashes>>

\* Mutant of HandleDeferred: the ack is sent like any other, before the commit.
HandleDeferredAcksFirst(c) ==
    /\ Polled(c)
    /\ asked[c].kind \in AckAfterCommit
    /\ commit' = (commit \/ asked[c].kind = "force")
    /\ quit' = (quit \/ asked[c].kind = "close")
    /\ Answer(c, "ok")
    /\ pc' = "commit"
    /\ UNCHANGED <<uncommitted, elapsed, deferred, dataVars, asked, acked, crashes>>

\* ForceCommit and Close: no ack yet, leave the inner loop.
HandleDeferred(c) ==
    /\ Polled(c)
    /\ asked[c].kind \in AckAfterCommit
    /\ commit' = (commit \/ asked[c].kind = "force")
    /\ quit' = (quit \/ asked[c].kind = "close")
    /\ deferred' = c
    /\ pc' = "commit"
    /\ UNCHANGED <<uncommitted, elapsed, dataVars, clientVars, crashes>>

\* insert_key_value and delete_key_value call expect(): an SQLite error there
\* unwinds the worker thread, and dropping the transaction commits it
\* (DropBehavior::Commit), or rolls it back when that fails too.
HandlerPanics(c, persisted) ==
    /\ Polled(c)
    /\ asked[c].kind = "quiet"
    /\ disk' = IF persisted THEN disk \cup tx ELSE disk
    /\ lost' = IF persisted THEN lost ELSE lost \cup tx
    /\ tx' = {}
    /\ pc' = "stopped"
    /\ Answer(c, "err")
    /\ UNCHANGED <<loopVars, next, asked, acked, crashes>>

\* Every handle is gone: poll() fails and the worker quits.
Hangup ==
    /\ pc = "poll"
    /\ queue = <<>>
    /\ \A c \in Client : answer[c] = "gone"
    /\ quit' = TRUE
    /\ pc' = "commit"
    /\ UNCHANGED <<queue, uncommitted, commit, elapsed, deferred, dataVars,
                   clientVars, crashes>>

\* Mutant of AfterCommit: the held-back ack is dropped when the commit failed.
AfterCommitForgetsAck(what) ==
    /\ answer' = IF deferred = None \/ what = "err" THEN answer
                 ELSE [answer EXCEPT ![deferred] = what]
    /\ deferred' = None
    /\ pc' = IF quit THEN "stopped" ELSE "begin"
    /\ UNCHANGED <<queue, uncommitted, commit, quit, elapsed, next, asked,
                   acked, crashes>>

\* What follows tx.commit(): the deferred ack, and the exit when quitting.
AfterCommit(what) ==
    /\ answer' = IF deferred = None THEN answer
                 ELSE [answer EXCEPT ![deferred] = what]
    /\ deferred' = None
    /\ pc' = IF quit THEN "stopped" ELSE "begin"
    /\ UNCHANGED <<queue, uncommitted, commit, quit, elapsed, next, asked,
                   acked, crashes>>

CommitSucceeds ==
    /\ pc = "commit"
    /\ disk' = disk \cup tx
    /\ tx' = {}
    /\ lost' = lost
    /\ AfterCommit("ok")

\* Mutant of CommitFails: the held-back ack does not look at the outcome.
CommitFailsUnnoticed(persisted) ==
    /\ pc = "commit"
    /\ disk' = IF persisted THEN disk \cup tx ELSE disk
    /\ lost' = IF persisted THEN lost ELSE lost \cup tx
    /\ tx' = {}
    /\ AfterCommit("ok")

\* COMMIT returned an error. Dropping the transaction tries COMMIT once more
\* and rolls back only when that fails: the batch may have been persisted.
CommitFails(persisted) ==
    /\ pc = "commit"
    /\ disk' = IF persisted THEN disk \cup tx ELSE disk
    /\ lost' = IF persisted THEN lost ELSE lost \cup tx
    /\ tx' = {}
    /\ AfterCommit("err")

-----------------------------------------------------------------------------
(* The process                                                             *)

\* The process is killed: the open transaction and the channel are gone.
Crash ==
    /\ pc # "down"
    /\ crashes < MaxCrashes
    /\ crashes' = crashes + 1
    /\ pc' = "down"
    /\ lost' = lost \cup tx
    /\ tx' = {}
    /\ queue' = <<>>
    /\ deferred' = None
    /\ answer' = [c \in Client |-> IF answer[c] = "waiting" THEN "err"
                                   ELSE answer[c]]
    /\ UNCHANGED <<uncommitted, commit, quit, elapsed, disk, next, asked, acked>>

\* Datastore::new opens the file again and spawns a new worker.
Restart ==
    /\ pc = "down"
    /\ pc' = "begin"
    /\ quit' = FALSE
    /\ answer' = [c \in Client |-> IF answer[c] = "gone" THEN "idle"
                                   ELSE answer[c]]
    /\ UNCHANGED <<queue, uncommitted, commit, elapsed, deferred, dataVars,
                   asked, acked, crashes>>

WorkerStep ==
    \/ Begin
    \/ \E c \in Client :
          HandleWrite(c) \/ HandleQuery(c) \/ HandleDeferred(c)
    \/ Hangup
    \/ CommitSucceeds

Failure ==
    \/ \E c \in Client, persisted \in BOOLEAN : HandlerPanics(c, persisted)
    \/ \E persisted \in BOOLEAN : CommitFails(persisted)
    \/ Crash

ClientStep ==
    \E c \in Client :
        \/ \E cmd \in Command : Send(c, cmd)
        \/ DropHandle(c)

Next ==
    \/ ClientStep
    \/ WorkerStep
    \/ IntervalPasses
    \/ Failure
    \/ \E c \in Client : Orphaned(c)
    \/ Restart

Spec == Init /\ [][Next]_vars

-----------------------------------------------------------------------------
(* Fairness: the worker thread runs until it quits, a COMMIT that is       *)
(* started returns, BEGIN is granted in the end, and time passes. Nothing  *)
(* is assumed of clients, and no failure is assumed to happen.             *)

CommitReturns == CommitSucceeds \/ \E persisted \in BOOLEAN : CommitFails(persisted)

HandlerRuns ==
    \E c \in Client :
        \/ HandleWrite(c) \/ HandleQuery(c) \/ HandleDeferred(c)
        \/ \E persisted \in BOOLEAN : HandlerPanics(c, persisted)

WorkerFairness ==
    /\ WF_vars(Begin)
    /\ WF_vars(HandlerRuns)
    /\ WF_vars(CommitReturns)
    /\ WF_vars(IntervalPasses)
    /\ WF_vars(Hangup)
    /\ \A c \in Client : WF_vars(Orphaned(c))

FairSpec == Spec /\ WorkerFairness

\* Watchers that keep polling: some client sends a request again and again.
Query(c) == Send(c, [kind |-> "query", n |-> 0])

BusySpec == FairSpec /\ WF_vars(\E c \in Client : Query(c))

-----------------------------------------------------------------------------
(* Properties                                                              *)

\* ForceCommit and Close "promise the caller that their data is committed, so
\* their acks are held back until the transaction has actually committed"
\* (worker.rs:203-205). Whenever such a request is answered Ok, every write
\* that any client was told succeeded is on disk, unless an earlier failure
\* had already lost it.
SyncAckIsDurable ==
    [][\A c \in Client :
         /\ asked[c].kind \in AckAfterCommit
         /\ answer[c] = "waiting"
         /\ answer'[c] = "ok"
         => AckedOps \subseteq disk' \cup lost]_vars

\* What a worker that waits for requests can lose (worker.rs:233-239): at most
\* EventCap events, and no created, deleted or renamed bucket, since those set
\* the commit flag.
IdleWorkerOwesLittle ==
    pc = "poll" =>
        /\ \A op \in tx : op.kind # "bucket"
        /\ Cardinality({op \in tx : op.kind = "events"}) <= uncommitted
        /\ uncommitted <= EventCap

\* The worker implements DurableLog: a synchronous ack is given only by a step
\* that makes every accepted write durable.
SyncOf ==
    [c \in Client |->
        IF asked[c].kind \notin AckAfterCommit THEN "none"
        ELSE CASE answer[c] = "waiting" -> "asked"
               [] answer[c] = "ok"      -> "kept"
               [] answer[c] = "err"     -> "broken"
               [] OTHER                 -> "none"]

Abstract == INSTANCE DurableLog WITH log <- disk, pending <- tx, sync <- SyncOf

ImplementsDurableLog == Abstract!AbstractSpec

\* Datastore::request blocks the calling thread: whatever the worker does, a
\* request that was sent is answered, if only by an error.
EveryRequestAnswered ==
    \A c \in Client : answer[c] = "waiting" ~> answer[c] # "waiting"

\* An accepted write does not stay pending for ever.
PendingWritesSettle ==
    \A i \in 1..MaxOps :
        (\E op \in tx : op.id = i) ~> (\A op \in tx : op.id # i)

\* "All other commands are acked immediately: a watcher heartbeat must not wait
\* up to 15 s for the batch commit" (worker.rs:209-210): once the commit
\* interval has passed, the batch is committed or at least given up.
IntervalEndsBatch == (elapsed /\ tx # {}) ~> tx = {}

-----------------------------------------------------------------------------
(* The inductive invariant behind the theorems                             *)

\* A transaction is open only while requests are handled or committed.
NoTxOutsideLoop == pc \notin {"poll", "commit"} => tx = {}

\* The client of a held-back ack waits for the commit it asked for.
DeferredAckPending ==
    deferred # None =>
        /\ pc = "commit"
        /\ answer[deferred] = "waiting"
        /\ asked[deferred].kind \in AckAfterCommit

\* While the worker polls, nothing that would have ended the batch holds.
PollsOnlyWithinBatch ==
    /\ pc \in {"begin", "poll"} => ~quit
    /\ pc = "poll" => ~commit /\ uncommitted <= EventCap

\* Every write that was ever handled is pending, durable or lost; its number
\* is used up, and nobody was told of any other.
OpsAccounted ==
    /\ \A op \in tx \cup disk \cup lost : op.id < next
    /\ AckedOps \subseteq tx \cup disk \cup lost

\* No request is forgotten and none is handled twice: a client that waits is
\* in the channel exactly once, or its ack is held back, or the worker is gone.
NoRequestForgotten ==
    pc # "stopped" =>
        /\ \A i \in 1..Len(queue) :
              /\ answer[queue[i]] = "waiting"
              /\ queue[i] # deferred
              /\ \A j \in 1..Len(queue) : queue[i] = queue[j] => i = j
        /\ \A c \in Client : answer[c] = "waiting" =>
              c = deferred \/ \E i \in 1..Len(queue) : queue[i] = c

WorkerInv ==
    /\ TypeOK
    /\ NoTxOutsideLoop
    /\ DeferredAckPending
    /\ PollsOnlyWithinBatch
    /\ OpsAccounted
    /\ NoRequestForgotten
=============================================================================
