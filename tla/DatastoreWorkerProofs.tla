----------------------- MODULE DatastoreWorkerProofs -----------------------
(***************************************************************************)
(* Theorems about DatastoreWorker, for any set of clients, any event cap   *)
(* and any bounds. The inductive invariant is WorkerInv.                   *)
(***************************************************************************)
EXTENDS DatastoreWorker, FiniteSetTheorems, TLAPS

USE DEF Writes, AckAfterCommit

\* The commands are well formed: what a client asks has a kind and a count.
LEMMA CommandParts ==
    \A cmd \in Command : cmd.kind \in {"events", "quiet", "bucket", "query", "force", "close"}
                         /\ cmd.n \in Nat
  BY WorkerAssumption DEF Command, EventWrite, PlainCommand

\* The invariant holds when the worker starts.
LEMMA InitInv == Init => WorkerInv
<1> SUFFICES ASSUME Init PROVE WorkerInv
  OBVIOUS
<1>1. [kind |-> "query", n |-> 0] \in Command
  BY DEF Command, PlainCommand
<1>2. queue \in Seq(Client) /\ asked \in [Client -> Command]
  BY <1>1 DEF Init
<1>3. acked \in [Client -> SUBSET Op] /\ deferred \in Client \cup {None}
  BY DEF Init
<1>4. answer \in [Client -> {"idle", "waiting", "ok", "err", "gone"}]
  BY DEF Init
<1>5. /\ pc \in {"begin", "poll", "commit", "stopped", "down"}
      /\ next \in Nat \ {0}
      /\ uncommitted \in Nat /\ crashes \in Nat
  BY DEF Init
<1>6. commit \in BOOLEAN /\ quit \in BOOLEAN /\ elapsed \in BOOLEAN
  BY Zenon DEF Init
<1>7. tx \in SUBSET Op /\ disk \in SUBSET Op /\ lost \in SUBSET Op
  BY DEF Init
<1>8. TypeOK
  BY <1>2, <1>3, <1>4, <1>5, <1>6, <1>7 DEF TypeOK
<1> QED
  BY <1>8, WorkerAssumption
  DEF Init, WorkerInv, NoTxOutsideLoop, DeferredAckPending, PollsOnlyWithinBatch,
      OpsAccounted, AckedOps, NoRequestForgotten

\* One step of the type invariant.
LEMMA TypeStep == TypeOK /\ [Next]_vars => TypeOK'
<1> SUFFICES ASSUME TypeOK, [Next]_vars PROVE TypeOK'
  OBVIOUS
<1> USE CommandParts, WorkerAssumption
<1>1. ASSUME NEW c \in Client, NEW cmd \in Command, Send(c, cmd) PROVE TypeOK'
  BY <1>1 DEF TypeOK, Send, loopVars, dataVars
<1>2. ASSUME NEW c \in Client, DropHandle(c) PROVE TypeOK'
  BY <1>2 DEF TypeOK, DropHandle, loopVars, dataVars
<1>3. CASE Begin
  BY <1>3 DEF TypeOK, Begin, clientVars, dataVars
<1>4. ASSUME NEW c \in Client, HandleWrite(c) PROVE TypeOK'
  <2> DEFINE op == [id |-> next, kind |-> asked[c].kind]
  <2>1. op \in Op
    BY <1>4 DEF TypeOK, HandleWrite, Op
  <2>2. asked[c].n \in Nat
    BY DEF TypeOK
  <2>3. queue' \in Seq(Client)
    BY <1>4 DEF TypeOK, HandleWrite, Polled
  <2>4. /\ tx' = tx \cup {op}
        /\ acked' = [acked EXCEPT ![c] = @ \cup {op}]
        /\ next' = next + 1
        /\ uncommitted' = uncommitted + asked[c].n
    BY <1>4 DEF HandleWrite
  <2>5. tx' \in SUBSET Op /\ acked' \in [Client -> SUBSET Op]
    BY <2>1, <2>4 DEF TypeOK
  <2>6. commit' \in BOOLEAN
    BY <1>4 DEF TypeOK, HandleWrite
  <2>7. /\ pc' \in {"poll", "commit"}
        /\ answer' = [answer EXCEPT ![c] = "ok"]
        /\ UNCHANGED <<quit, elapsed, deferred, disk, lost, asked, crashes>>
    BY <1>4 DEF HandleWrite, Answer
  <2> QED
    BY <2>2, <2>3, <2>4, <2>5, <2>6, <2>7 DEF TypeOK
<1>5. ASSUME NEW c \in Client, HandleQuery(c) PROVE TypeOK'
  <2>1. queue' \in Seq(Client)
    BY <1>5 DEF TypeOK, HandleQuery, Polled
  <2> QED
    BY <1>5, <2>1 DEF TypeOK, HandleQuery, Answer, loopVars, dataVars
<1>6. ASSUME NEW c \in Client, HandleDeferred(c) PROVE TypeOK'
  <2>1. queue' \in Seq(Client)
    BY <1>6 DEF TypeOK, HandleDeferred, Polled
  <2> QED
    BY <1>6, <2>1 DEF TypeOK, HandleDeferred, clientVars, dataVars
<1>7. CASE Hangup
  BY <1>7 DEF TypeOK, Hangup, clientVars, dataVars
<1>8. CASE CommitSucceeds
  BY <1>8 DEF TypeOK, CommitSucceeds, AfterCommit
<1>9. CASE IntervalPasses
  BY <1>9 DEF TypeOK, IntervalPasses, clientVars, dataVars
<1>10. ASSUME NEW c \in Client, NEW persisted \in BOOLEAN, HandlerPanics(c, persisted)
       PROVE TypeOK'
  <2>1. queue' \in Seq(Client)
    BY <1>10 DEF TypeOK, HandlerPanics, Polled
  <2> QED
    BY <1>10, <2>1 DEF TypeOK, HandlerPanics, Answer, loopVars
<1>11. ASSUME NEW persisted \in BOOLEAN, CommitFails(persisted) PROVE TypeOK'
  BY <1>11 DEF TypeOK, CommitFails, AfterCommit
<1>12. CASE Crash
  BY <1>12 DEF TypeOK, Crash
<1>13. ASSUME NEW c \in Client, Orphaned(c) PROVE TypeOK'
  BY <1>13 DEF TypeOK, Orphaned, loopVars, dataVars
<1>14. CASE Restart
  BY <1>14 DEF TypeOK, Restart, dataVars
<1>15. CASE UNCHANGED vars
  BY <1>15 DEF TypeOK, vars, loopVars, dataVars, clientVars
<1> QED
  BY <1>1, <1>2, <1>3, <1>4, <1>5, <1>6, <1>7, <1>8, <1>9, <1>10, <1>11,
     <1>12, <1>13, <1>14, <1>15
  DEF Next, ClientStep, WorkerStep, Failure

-----------------------------------------------------------------------------
(* One lemma per part of WorkerInv; each lists the actions it must look at. *)

\* What taking the head of the channel leaves: one client less, in order.
LEMMA PolledQueue ==
  ASSUME TypeOK, NEW c \in Client, Polled(c)
  PROVE  /\ c = queue[1]
         /\ 1 \in 1..Len(queue)
         /\ Len(queue') = Len(queue) - 1
         /\ \A i \in 1..Len(queue') : queue'[i] = queue[i + 1]
         /\ \A i \in 1..Len(queue') : i + 1 \in 1..Len(queue) /\ i + 1 # 1
         /\ \A i \in 1..Len(queue) : i = 1 \/ (i - 1 \in 1..Len(queue') /\ queue'[i - 1] = queue[i])
<1> queue \in Seq(Client) /\ queue # <<>> /\ queue' = Tail(queue) /\ c = Head(queue)
  BY DEF TypeOK, Polled
<1> QED
  OBVIOUS

\* No step leaves a transaction open outside the request loop.
LEMMA NoTxStep == TypeOK /\ NoTxOutsideLoop /\ [Next]_vars => NoTxOutsideLoop'
<1> SUFFICES ASSUME TypeOK, NoTxOutsideLoop, [Next]_vars PROVE NoTxOutsideLoop'
  OBVIOUS
<1> USE DEF NoTxOutsideLoop
<1>1. CASE ClientStep
  BY <1>1 DEF ClientStep, Send, DropHandle, dataVars
<1>2. CASE WorkerStep
  <2>1. ASSUME NEW c \in Client, HandleWrite(c) \/ HandleQuery(c) \/ HandleDeferred(c)
        PROVE NoTxOutsideLoop'
    BY <2>1 DEF HandleWrite, HandleQuery, HandleDeferred
  <2> QED
    BY <1>2, <2>1 DEF WorkerStep, Begin, Hangup, CommitSucceeds
<1>3. CASE Failure
  BY <1>3 DEF Failure, HandlerPanics, CommitFails, Crash
<1> QED
  BY <1>1, <1>2, <1>3
  DEF Next, IntervalPasses, Orphaned, Restart, dataVars, vars

\* No step keeps the worker polling once a batch should have ended.
LEMMA PollsStep == TypeOK /\ PollsOnlyWithinBatch /\ [Next]_vars => PollsOnlyWithinBatch'
<1> SUFFICES ASSUME TypeOK, PollsOnlyWithinBatch, [Next]_vars PROVE PollsOnlyWithinBatch'
  OBVIOUS
<1> USE DEF PollsOnlyWithinBatch
<1>1. CASE ClientStep
  BY <1>1 DEF ClientStep, Send, DropHandle, loopVars
<1>2. CASE Begin
  BY <1>2, WorkerAssumption DEF Begin
<1>3. ASSUME NEW c \in Client, HandleWrite(c) PROVE PollsOnlyWithinBatch'
  BY <1>3, CommandParts, WorkerAssumption DEF TypeOK, HandleWrite, Polled, EndOfBatch
<1>4. ASSUME NEW c \in Client, HandleQuery(c) PROVE PollsOnlyWithinBatch'
  BY <1>4 DEF HandleQuery, Polled, loopVars
<1>5. ASSUME NEW c \in Client, HandleDeferred(c) PROVE PollsOnlyWithinBatch'
  BY <1>5 DEF HandleDeferred
<1>6. CASE Hangup
  BY <1>6 DEF Hangup
<1>7. CASE CommitSucceeds
  BY <1>7 DEF CommitSucceeds, AfterCommit
<1>8. CASE Failure
  BY <1>8 DEF Failure, HandlerPanics, CommitFails, AfterCommit, Crash
<1> QED
  BY <1>1, <1>2, <1>3, <1>4, <1>5, <1>6, <1>7, <1>8
  DEF Next, WorkerStep, IntervalPasses, Orphaned, Restart, loopVars, vars

\* No step forgets a handled write or uses its number again.
LEMMA OpsStep == TypeOK /\ OpsAccounted /\ [Next]_vars => OpsAccounted'
<1> SUFFICES ASSUME TypeOK, OpsAccounted, [Next]_vars PROVE OpsAccounted'
  OBVIOUS
<1> USE DEF OpsAccounted, AckedOps
<1>1. ASSUME NEW c \in Client, HandleWrite(c) PROVE OpsAccounted'
  <2> DEFINE op == [id |-> next, kind |-> asked[c].kind]
  <2>1. /\ tx' = tx \cup {op} /\ disk' = disk /\ lost' = lost /\ next' = next + 1
        /\ acked' = [acked EXCEPT ![c] = @ \cup {op}]
    BY <1>1 DEF HandleWrite
  <2>2. op.id < next'
    BY <2>1 DEF TypeOK
  <2>3. \A o \in tx \cup disk \cup lost : o.id < next'
    <3> TAKE o \in tx \cup disk \cup lost
    <3>1. o.id \in Nat /\ o.id < next
      BY DEF TypeOK, Op
    <3> QED
      BY <3>1, <2>1 DEF TypeOK
  <2>4. \A d \in Client : acked'[d] \subseteq acked[d] \cup {op}
    BY <2>1 DEF TypeOK
  <2>5. AckedOps' \subseteq tx' \cup disk' \cup lost'
    BY <2>1, <2>4
  <2>6. \A o \in tx' \cup disk' \cup lost' : o.id < next'
    BY <2>1, <2>2, <2>3
  <2> QED
    BY <2>5, <2>6
<1>2. ASSUME tx' \cup disk' \cup lost' = tx \cup disk \cup lost,
             next' = next, acked' = acked
      PROVE  OpsAccounted'
  BY <1>2
<1>3. ASSUME NEW c \in Client, HandleQuery(c) \/ HandleDeferred(c) PROVE OpsAccounted'
  BY <1>2, <1>3 DEF HandleQuery, HandleDeferred, dataVars, clientVars
<1>4. CASE Failure
  BY <1>2, <1>4 DEF Failure, HandlerPanics, CommitFails, AfterCommit, Crash
<1>5. CASE CommitSucceeds
  BY <1>2, <1>5 DEF CommitSucceeds, AfterCommit
<1>6. CASE ClientStep
  BY <1>2, <1>6 DEF ClientStep, Send, DropHandle, dataVars
<1> QED
  BY <1>1, <1>2, <1>3, <1>4, <1>5, <1>6
  DEF Next, WorkerStep, Begin, Hangup, IntervalPasses, Orphaned, Restart,
      dataVars, clientVars, vars

\* A held-back ack keeps its waiting client until the commit.
LEMMA DeferredStep ==
    TypeOK /\ DeferredAckPending /\ NoRequestForgotten /\ [Next]_vars => DeferredAckPending'
<1> SUFFICES ASSUME TypeOK, DeferredAckPending, NoRequestForgotten, [Next]_vars
             PROVE  DeferredAckPending'
  OBVIOUS
<1> USE DEF DeferredAckPending
<1>1. CASE ClientStep
  BY <1>1 DEF ClientStep, Send, DropHandle, Free, TypeOK, loopVars
<1>2. ASSUME NEW c \in Client, HandleWrite(c) \/ HandleQuery(c) PROVE DeferredAckPending'
  BY <1>2 DEF HandleWrite, HandleQuery, Polled, loopVars
<1>3. ASSUME NEW c \in Client, HandleDeferred(c) PROVE DeferredAckPending'
  <2>1. answer[c] = "waiting"
    BY <1>3, PolledQueue DEF HandleDeferred, Polled, NoRequestForgotten
  <2> QED
    BY <1>3, <2>1 DEF HandleDeferred, clientVars
<1>4. CASE Begin \/ Hangup \/ CommitSucceeds
  BY <1>4 DEF Begin, Hangup, CommitSucceeds, AfterCommit
<1>5. CASE Failure
  BY <1>5 DEF Failure, HandlerPanics, CommitFails, AfterCommit, Crash, Polled, loopVars
<1>6. ASSUME NEW c \in Client, Orphaned(c) PROVE DeferredAckPending'
  BY <1>6 DEF Orphaned, TypeOK, loopVars
<1> QED
  BY <1>1, <1>2, <1>3, <1>4, <1>5, <1>6
  DEF Next, WorkerStep, IntervalPasses, Restart, clientVars, loopVars, vars

\* A request taken from the channel and answered leaves the others in place.
LEMMA PollKeepsOthers ==
  ASSUME TypeOK, DeferredAckPending, NoRequestForgotten, NEW c \in Client, Polled(c),
         pc' # "stopped", \A d \in Client \ {c} : answer'[d] = answer[d],
         \/ deferred' = deferred /\ answer'[c] # "waiting"
         \/ deferred' = c
  PROVE  NoRequestForgotten'
<1>1. deferred = None /\ pc = "poll"
  BY DEF Polled, DeferredAckPending
<1>2. \A i \in 1..Len(queue) : queue[i] \in Client
  BY DEF TypeOK
<1>3. ASSUME NEW i \in 1..Len(queue')
      PROVE  /\ queue'[i] \in Client \ {c}
             /\ answer'[queue'[i]] = "waiting"
             /\ queue'[i] # deferred'
             /\ \A j \in 1..Len(queue') : queue'[i] = queue'[j] => i = j
  <2>1. queue'[i] = queue[i + 1] /\ i + 1 \in 1..Len(queue) /\ c = queue[1] /\ 1 \in 1..Len(queue)
    BY PolledQueue
  <2>2. i + 1 # 1
    OBVIOUS
  <2>3. queue'[i] \in Client \ {c}
    BY <1>1, <1>2, <2>1, <2>2 DEF NoRequestForgotten
  <2>4. answer'[queue'[i]] = "waiting" /\ queue'[i] # deferred'
    BY <1>1, <2>1, <2>3, WorkerAssumption DEF NoRequestForgotten
  <2>5. \A j \in 1..Len(queue') : queue'[i] = queue'[j] => i = j
    <3> TAKE j \in 1..Len(queue')
    <3>1. queue'[j] = queue[j + 1] /\ j + 1 \in 1..Len(queue)
      BY PolledQueue
    <3>2. queue[i + 1] = queue[j + 1] => i + 1 = j + 1
      BY <1>1, <2>1, <3>1 DEF NoRequestForgotten
    <3> QED
      BY <2>1, <3>1, <3>2
  <2> QED
    BY <2>3, <2>4, <2>5
<1>4. ASSUME NEW d \in Client, answer'[d] = "waiting"
      PROVE  d = deferred' \/ \E i \in 1..Len(queue') : queue'[i] = d
  <2>1. CASE d = c
    BY <1>4, <2>1
  <2>2. CASE d # c
    <3>1. answer[d] = "waiting" /\ d # deferred
      BY <1>1, <1>4, <2>2, WorkerAssumption
    <3>2. PICK i \in 1..Len(queue) : queue[i] = d
      BY <1>1, <3>1 DEF NoRequestForgotten
    <3>3. i # 1
      BY <2>2, <3>2, PolledQueue
    <3>4. i - 1 \in 1..Len(queue') /\ queue'[i - 1] = d
      BY <3>2, <3>3, PolledQueue
    <3> QED
      BY <3>4
  <2> QED
    BY <2>1, <2>2
<1> QED
  BY <1>3, <1>4 DEF NoRequestForgotten

\* No step loses a request, or lets one be handled twice.
LEMMA ForgottenStep ==
    TypeOK /\ DeferredAckPending /\ NoRequestForgotten /\ [Next]_vars => NoRequestForgotten'
<1> SUFFICES ASSUME TypeOK, DeferredAckPending, NoRequestForgotten, [Next]_vars
             PROVE  NoRequestForgotten'
  OBVIOUS
<1>0. \A i \in 1..Len(queue) : queue[i] \in Client
  BY DEF TypeOK
<1>1. ASSUME NEW c \in Client, NEW cmd \in Command, Send(c, cmd) PROVE NoRequestForgotten'
  <2>1. /\ answer[c] # "waiting" /\ answer' = [answer EXCEPT ![c] = "waiting"]
        /\ pc' = pc /\ deferred' = deferred
        /\ pc # "stopped" => queue' = Append(queue, c)
    BY <1>1 DEF Send, Free, loopVars
  <2>2. answer'[c] = "waiting" /\ \A d \in Client \ {c} : answer'[d] = answer[d]
    BY <2>1 DEF TypeOK
  <2>3. CASE pc # "stopped"
    <3>1. /\ Len(queue') = Len(queue) + 1
          /\ queue'[Len(queue) + 1] = c
          /\ \A i \in 1..Len(queue) : queue'[i] = queue[i] /\ queue[i] # c /\ queue[i] # deferred
      BY <2>1, <2>3 DEF TypeOK, NoRequestForgotten
    <3>2. Len(queue) \in Nat
      BY DEF TypeOK
    <3>3. c # deferred
      BY <2>1, WorkerAssumption DEF DeferredAckPending
    <3>4. ASSUME NEW i \in 1..Len(queue')
          PROVE  /\ answer'[queue'[i]] = "waiting"
                 /\ queue'[i] # deferred'
                 /\ \A j \in 1..Len(queue') : queue'[i] = queue'[j] => i = j
      <4>1. i \in 1..Len(queue) \/ i = Len(queue) + 1
        BY <3>1, <3>2
      <4>2. \A j \in 1..Len(queue') : j \in 1..Len(queue) \/ j = Len(queue) + 1
        BY <3>1, <3>2
      <4>3. \A j, k \in 1..Len(queue) : queue[j] = queue[k] => j = k
        BY <2>3 DEF NoRequestForgotten
      <4>4. answer'[queue'[i]] = "waiting" /\ queue'[i] # deferred'
        BY <1>0, <2>1, <2>2, <2>3, <3>1, <3>3, <4>1 DEF NoRequestForgotten
      <4> QED
        BY <3>1, <4>1, <4>2, <4>3, <4>4
    <3>5. ASSUME NEW d \in Client, answer'[d] = "waiting"
          PROVE  d = deferred' \/ \E i \in 1..Len(queue') : queue'[i] = d
      <4>1. CASE d = c
        <5>1. Len(queue) + 1 \in 1..Len(queue')
          BY <3>1, <3>2
        <5> QED
          BY <3>1, <4>1, <5>1
      <4>2. CASE d # c /\ d # deferred
        <5>1. PICK i \in 1..Len(queue) : queue[i] = d
          BY <2>2, <2>3, <3>5, <4>2 DEF NoRequestForgotten
        <5>2. i \in 1..Len(queue')
          BY <3>1, <3>2
        <5> QED
          BY <3>1, <5>1, <5>2
      <4> QED
        BY <2>1, <4>1, <4>2
    <3> QED
      BY <3>4, <3>5 DEF NoRequestForgotten
  <2> QED
    BY <2>1, <2>3 DEF NoRequestForgotten
<1>2. ASSUME NEW c \in Client, DropHandle(c) \/ Orphaned(c) PROVE NoRequestForgotten'
  BY <1>0, <1>2 DEF DropHandle, Orphaned, Free, NoRequestForgotten, TypeOK, loopVars
<1>3. ASSUME NEW c \in Client, HandleWrite(c) PROVE NoRequestForgotten'
  <2>1. Polled(c) /\ deferred' = deferred /\ pc' # "stopped" /\ answer' = [answer EXCEPT ![c] = "ok"]
    BY <1>3 DEF HandleWrite, Answer
  <2>2. answer'[c] = "ok" /\ \A d \in Client \ {c} : answer'[d] = answer[d]
    BY <2>1 DEF TypeOK
  <2> QED
    BY <2>1, <2>2, PollKeepsOthers
<1>4. ASSUME NEW c \in Client, HandleQuery(c) PROVE NoRequestForgotten'
  <2>1. Polled(c) /\ deferred' = deferred /\ pc' # "stopped"
        /\ \E what \in {"ok", "err"} : answer' = [answer EXCEPT ![c] = what]
    BY <1>4 DEF HandleQuery, Answer, loopVars
  <2>2. answer'[c] # "waiting" /\ \A d \in Client \ {c} : answer'[d] = answer[d]
    BY <2>1 DEF TypeOK
  <2> QED
    BY <2>1, <2>2, PollKeepsOthers
<1>5. ASSUME NEW c \in Client, HandleDeferred(c) PROVE NoRequestForgotten'
  <2>1. Polled(c) /\ deferred' = c /\ pc' # "stopped" /\ answer' = answer
    BY <1>5 DEF HandleDeferred, clientVars
  <2> QED
    BY <2>1, PollKeepsOthers
<1>6. ASSUME NEW c \in Client, NEW persisted \in BOOLEAN, HandlerPanics(c, persisted)
      PROVE  NoRequestForgotten'
  BY <1>6 DEF HandlerPanics, NoRequestForgotten
<1>7. CASE Begin \/ Hangup \/ IntervalPasses
  BY <1>7 DEF Begin, Hangup, IntervalPasses, NoRequestForgotten, DeferredAckPending, clientVars
<1>8. ASSUME NEW what \in {"ok", "err"}, AfterCommit(what), pc = "commit" PROVE NoRequestForgotten'
  <2>1. /\ queue' = queue /\ deferred' = None
        /\ deferred # None => answer' = [answer EXCEPT ![deferred] = what]
        /\ deferred = None => answer' = answer
    BY <1>8 DEF AfterCommit
  <2>2. \A d \in Client :
           /\ d = deferred => answer'[d] = what
           /\ d # deferred => answer'[d] = answer[d]
    BY <2>1, WorkerAssumption DEF TypeOK
  <2>3. \A i \in 1..Len(queue) :
           /\ answer[queue[i]] = "waiting" /\ queue[i] # deferred
           /\ queue[i] \in Client /\ queue[i] # None
           /\ \A j \in 1..Len(queue) : queue[i] = queue[j] => i = j
    <3> TAKE i \in 1..Len(queue)
    <3>1. queue[i] \in Client /\ queue[i] # None
      BY <1>0, WorkerAssumption
    <3> QED
      BY <1>8, <3>1 DEF NoRequestForgotten
  <2>4. \A i \in 1..Len(queue) : answer'[queue[i]] = "waiting" /\ queue[i] # deferred'
    BY <2>1, <2>2, <2>3
  <2>5. ASSUME NEW c \in Client, answer'[c] = "waiting"
        PROVE  \E i \in 1..Len(queue) : queue[i] = c
    <3>1. c # deferred
      BY <1>8, <2>2, <2>5
    <3>2. answer[c] = "waiting"
      BY <2>2, <2>5, <3>1
    <3> QED
      BY <1>8, <3>1, <3>2 DEF NoRequestForgotten
  <2> QED
    BY <2>1, <2>3, <2>4, <2>5 DEF NoRequestForgotten
<1>9. CASE CommitSucceeds \/ \E persisted \in BOOLEAN : CommitFails(persisted)
  BY <1>8, <1>9 DEF CommitSucceeds, CommitFails
<1>10. CASE Crash
  BY <1>10 DEF Crash, NoRequestForgotten, TypeOK
<1>11. CASE Restart
  BY <1>0, <1>11 DEF Restart, NoRequestForgotten, TypeOK
<1>12. CASE UNCHANGED vars
  BY <1>12 DEF NoRequestForgotten, vars, clientVars, loopVars
<1> QED
  BY <1>1, <1>2, <1>3, <1>4, <1>5, <1>6, <1>7, <1>9, <1>10, <1>11, <1>12
  DEF Next, ClientStep, WorkerStep, Failure

\* WorkerInv is inductive.
LEMMA InvStep == WorkerInv /\ [Next]_vars => WorkerInv'
  BY TypeStep, NoTxStep, PollsStep, OpsStep, DeferredStep, ForgottenStep DEF WorkerInv

-----------------------------------------------------------------------------
(* Theorems                                                                *)

\* The loop's bookkeeping never breaks: in particular no request is forgotten
\* or handled twice, whatever fails and whenever the process dies.
THEOREM WorkerInvariance == Spec => []WorkerInv
  BY InitInv, InvStep, PTL DEF Spec

\* A client told Ok by ForceCommit or Close: everything anybody was told
\* succeeded is on disk, or an earlier failure had lost it.
THEOREM SyncAckDurability == Spec => SyncAckIsDurable
<1>1. ASSUME WorkerInv, [Next]_vars, NEW c \in Client,
             asked[c].kind \in AckAfterCommit, answer[c] = "waiting", answer'[c] = "ok"
      PROVE  AckedOps \subseteq disk' \cup lost
  <2> USE DEF WorkerInv
  <2>1. CASE CommitSucceeds
    BY <1>1, <2>1 DEF CommitSucceeds, OpsAccounted
  <2>2. \A d \in Client, what \in {"idle", "waiting", "ok", "err", "gone"} :
           answer' = [answer EXCEPT ![d] = what] => d = c /\ what = "ok"
    BY <1>1 DEF TypeOK
  <2>3. ASSUME NEW d \in Client, HandleWrite(d) \/ HandleQuery(d) PROVE FALSE
    BY <1>1, <2>2, <2>3 DEF HandleWrite, HandleQuery, Answer
  <2>4. answer' # answer
    BY <1>1
  <2>5. ASSUME NEW persisted \in BOOLEAN, CommitFails(persisted) PROVE FALSE
    <3>1. deferred = None => answer' = answer
      BY <2>5 DEF CommitFails, AfterCommit
    <3>2. deferred # None => deferred \in Client /\ answer' = [answer EXCEPT ![deferred] = "err"]
      BY <1>1, <2>5 DEF CommitFails, AfterCommit, TypeOK
    <3> QED
      BY <2>2, <2>4, <3>1, <3>2
  <2>6. ASSUME NEW d \in Client, NEW persisted \in BOOLEAN, HandlerPanics(d, persisted) PROVE FALSE
    BY <2>2, <2>6 DEF HandlerPanics, Answer
  <2>7. ~Crash /\ ~Restart
    BY <1>1 DEF Crash, Restart, TypeOK
  <2>8. ASSUME NEW d \in Client, NEW cmd \in Command,
               Send(d, cmd) \/ DropHandle(d) \/ Orphaned(d)
        PROVE  FALSE
    BY <2>2, <2>8 DEF Send, DropHandle, Orphaned
  <2>9. ~Begin /\ ~Hangup /\ ~IntervalPasses /\ ~UNCHANGED vars
        /\ \A d \in Client : ~HandleDeferred(d)
    BY <2>4 DEF Begin, Hangup, IntervalPasses, HandleDeferred, clientVars, vars
  <2>10. \A d \in Client : ~DropHandle(d) /\ ~Orphaned(d)
    BY <2>2 DEF DropHandle, Orphaned
  <2> QED
    BY <1>1, <2>1, <2>3, <2>5, <2>6, <2>7, <2>8, <2>9, <2>10
    DEF Next, ClientStep, WorkerStep, Failure
<1>2. WorkerInv /\ [Next]_vars =>
        [\A c \in Client :
           /\ asked[c].kind \in AckAfterCommit
           /\ answer[c] = "waiting"
           /\ answer'[c] = "ok"
           => AckedOps \subseteq disk' \cup lost]_vars
  BY <1>1
<1> QED
  BY <1>2, WorkerInvariance, PTL DEF Spec, SyncAckIsDurable

\* How SyncOf reads the state of one client.
LEMMA SyncOfClient ==
  ASSUME TypeOK, NEW c \in Client
  PROVE  /\ SyncOf[c] \in {"none", "asked", "kept", "broken"}
         /\ SyncOf[c] = "asked" <=> asked[c].kind \in AckAfterCommit /\ answer[c] = "waiting"
  BY DEF SyncOf, TypeOK

\* A step that leaves the sync commands alone leaves the abstract acks alone.
LEMMA SyncUntouched ==
  ASSUME asked' = asked,
         \A c \in Client : asked[c].kind \in AckAfterCommit => answer'[c] = answer[c]
  PROVE  SyncOf' = SyncOf
  BY DEF SyncOf

\* A step in which only client c does something with its own request.
LEMMA SyncOneClient ==
  ASSUME TypeOK, NEW c \in Client,
         \A d \in Client \ {c} : asked'[d] = asked[d] /\ answer'[d] = answer[d]
  PROVE  SyncOf' = [SyncOf EXCEPT ![c] = SyncOf'[c]]
  BY DEF SyncOf

\* A starting worker is a starting DurableLog.
LEMMA RefineInit == Init => Abstract!AbstractInit
  BY DEF Init, Abstract!AbstractInit, SyncOf

\* Every step of the worker is a step of DurableLog or a stutter of it.
LEMMA RefineStep ==
    WorkerInv /\ [Next]_vars => [Abstract!AbstractNext]_<<disk, tx, SyncOf>>
<1> SUFFICES ASSUME WorkerInv, [Next]_vars
             PROVE  Abstract!AbstractNext \/ UNCHANGED <<disk, tx, SyncOf>>
  OBVIOUS
<1>0. TypeOK
  BY DEF WorkerInv
<1>1. ASSUME NEW c \in Client, NEW cmd \in Command, Send(c, cmd)
      PROVE  Abstract!AskOrForget(c)
  <2>1. /\ asked' = [asked EXCEPT ![c] = cmd]
        /\ answer' = [answer EXCEPT ![c] = "waiting"]
        /\ disk' = disk /\ tx' = tx /\ answer[c] # "waiting"
    BY <1>1 DEF Send, Free, dataVars
  <2>2. SyncOf[c] # "asked"
    BY <1>0, <2>1, SyncOfClient
  <2>3. SyncOf' = [SyncOf EXCEPT ![c] = SyncOf'[c]]
    BY <1>0, <2>1, SyncOneClient DEF TypeOK
  <2>4. SyncOf'[c] \in {"asked", "none"}
    BY <1>0, <2>1 DEF SyncOf, TypeOK
  <2> QED
    BY <2>1, <2>2, <2>3, <2>4 DEF Abstract!AskOrForget
<1>2. ASSUME NEW c \in Client, DropHandle(c)
      PROVE  Abstract!AskOrForget(c)
  <2>1. /\ asked' = asked /\ answer' = [answer EXCEPT ![c] = "gone"]
        /\ disk' = disk /\ tx' = tx /\ answer[c] # "waiting"
    BY <1>2 DEF DropHandle, Free, dataVars
  <2>2. SyncOf[c] # "asked"
    BY <1>0, <2>1, SyncOfClient
  <2>3. SyncOf' = [SyncOf EXCEPT ![c] = SyncOf'[c]]
    BY <1>0, <2>1, SyncOneClient DEF TypeOK
  <2>4. SyncOf'[c] = "none"
    BY <1>0, <2>1 DEF SyncOf, TypeOK
  <2> QED
    BY <2>1, <2>2, <2>3, <2>4 DEF Abstract!AskOrForget
<1>3. ASSUME NEW c \in Client, Orphaned(c)
      PROVE  Abstract!Refuse(c) \/ UNCHANGED <<disk, tx, SyncOf>>
  <2>1. /\ asked' = asked /\ answer' = [answer EXCEPT ![c] = "err"]
        /\ disk' = disk /\ tx' = tx /\ answer[c] = "waiting"
    BY <1>3 DEF Orphaned, dataVars
  <2>2. SyncOf' = [SyncOf EXCEPT ![c] = SyncOf'[c]]
    BY <1>0, <2>1, SyncOneClient DEF TypeOK
  <2>3. CASE asked[c].kind \in AckAfterCommit
    <3>1. SyncOf[c] = "asked" /\ SyncOf'[c] = "broken"
      BY <1>0, <2>1, <2>3 DEF SyncOf, TypeOK
    <3> QED
      BY <2>1, <2>2, <3>1 DEF Abstract!Refuse
  <2>4. CASE asked[c].kind \notin AckAfterCommit
    BY <1>0, <2>1, <2>4, SyncUntouched DEF TypeOK
  <2> QED
    BY <2>3, <2>4
<1>4. ASSUME NEW c \in Client, HandleWrite(c)
      PROVE  Abstract!Accept
  <2> DEFINE op == [id |-> next, kind |-> asked[c].kind]
  <2>1. /\ tx' = tx \cup {op} /\ disk' = disk /\ asked' = asked
        /\ answer' = [answer EXCEPT ![c] = "ok"]
        /\ asked[c].kind \in Writes
    BY <1>4 DEF HandleWrite, Answer
  <2>2. op \notin tx \cup disk
    <3> SUFFICES ASSUME op \in tx \cup disk PROVE FALSE
      OBVIOUS
    <3> QED
      BY <1>0 DEF WorkerInv, OpsAccounted, TypeOK
  <2>3. SyncOf' = SyncOf
    BY <1>0, <2>1, SyncUntouched DEF TypeOK
  <2> QED
    BY <2>1, <2>2, <2>3 DEF Abstract!Accept
<1>5. ASSUME NEW c \in Client, HandleQuery(c)
      PROVE  UNCHANGED <<disk, tx, SyncOf>>
  <2>1. /\ asked' = asked /\ disk' = disk /\ tx' = tx /\ asked[c].kind = "query"
        /\ \E what \in {"ok", "err"} : answer' = [answer EXCEPT ![c] = what]
    BY <1>5 DEF HandleQuery, Answer, dataVars
  <2> QED
    BY <1>0, <2>1, SyncUntouched DEF TypeOK
<1>6. ASSUME NEW c \in Client, HandleDeferred(c) PROVE UNCHANGED <<disk, tx, SyncOf>>
  BY <1>6, SyncUntouched DEF HandleDeferred, clientVars, dataVars
<1>7. ASSUME NEW c \in Client, NEW persisted \in BOOLEAN, HandlerPanics(c, persisted)
      PROVE  Abstract!Persist \/ Abstract!Lose
  <2>1. /\ asked' = asked /\ answer' = [answer EXCEPT ![c] = "err"] /\ asked[c].kind = "quiet"
        /\ tx' = {}
        /\ disk' = disk \cup tx \/ disk' = disk
    BY <1>7 DEF HandlerPanics, Answer
  <2>2. SyncOf' = SyncOf
    BY <1>0, <2>1, SyncUntouched DEF TypeOK
  <2>3. SyncOf \in [Client -> Abstract!SyncState]
    BY <1>0, SyncOfClient DEF SyncOf, Abstract!SyncState
  <2> QED
    BY <2>1, <2>2, <2>3 DEF Abstract!Persist, Abstract!Lose
<1>8. ASSUME NEW what \in {"ok", "err"}, AfterCommit(what), pc = "commit"
      PROVE  /\ SyncOf' \in [Client -> Abstract!SyncState]
             /\ \A c \in Client : SyncOf'[c] # SyncOf[c] =>
                   /\ c = deferred
                   /\ SyncOf[c] = "asked"
                   /\ SyncOf'[c] = IF what = "ok" THEN "kept" ELSE "broken"
  <2>1. /\ asked' = asked
        /\ deferred = None => answer' = answer
        /\ deferred # None => answer' = [answer EXCEPT ![deferred] = what]
    BY <1>8 DEF AfterCommit
  <2>2. \A c \in Client \ {deferred} : answer'[c] = answer[c] /\ SyncOf'[c] = SyncOf[c]
    <3> TAKE c \in Client \ {deferred}
    <3>1. answer'[c] = answer[c]
      BY <1>0, <2>1 DEF TypeOK
    <3> QED
      BY <2>1, <3>1 DEF SyncOf
  <2>3. ASSUME deferred \in Client
        PROVE  /\ SyncOf[deferred] = "asked"
               /\ SyncOf'[deferred] = IF what = "ok" THEN "kept" ELSE "broken"
    <3>1. deferred # None /\ answer[deferred] = "waiting" /\ asked[deferred].kind \in AckAfterCommit
      BY <2>3, WorkerAssumption DEF WorkerInv, DeferredAckPending
    <3>2. answer'[deferred] = what /\ asked'[deferred].kind \in AckAfterCommit
      BY <1>0, <2>1, <2>3, <3>1 DEF TypeOK
    <3> QED
      BY <1>8, <2>3, <3>1, <3>2 DEF SyncOf
  <2>4. \A c \in Client : SyncOf'[c] \in Abstract!SyncState
    BY <1>0, <2>2, <2>3, SyncOfClient DEF Abstract!SyncState
  <2> QED
    BY <2>2, <2>3, <2>4 DEF SyncOf
<1>9. CASE CommitSucceeds
  <2>1. tx' = {} /\ disk' = disk \cup tx /\ AfterCommit("ok") /\ pc = "commit"
    BY <1>9 DEF CommitSucceeds
  <2> QED
    BY <1>8, <2>1 DEF Abstract!Persist, Abstract!AbstractNext
<1>10. ASSUME NEW persisted \in BOOLEAN, CommitFails(persisted)
       PROVE  Abstract!Persist \/ Abstract!Lose
  <2>1. tx' = {} /\ (disk' = disk \cup tx \/ disk' = disk) /\ AfterCommit("err") /\ pc = "commit"
    BY <1>10 DEF CommitFails
  <2> QED
    BY <1>8, <2>1 DEF Abstract!Persist, Abstract!Lose
<1>11. CASE Crash
  <2>1. /\ asked' = asked /\ disk' = disk /\ tx' = {}
        /\ answer' = [c \in Client |-> IF answer[c] = "waiting" THEN "err" ELSE answer[c]]
    BY <1>11 DEF Crash
  <2>2. \A c \in Client : /\ SyncOf[c] = "asked" => SyncOf'[c] = "broken"
                          /\ SyncOf[c] # "asked" => SyncOf'[c] = SyncOf[c]
    BY <1>0, <2>1 DEF SyncOf, TypeOK
  <2>3. SyncOf' \in [Client -> Abstract!SyncState]
    BY <1>0, <2>2, SyncOfClient DEF SyncOf, Abstract!SyncState
  <2> QED
    BY <2>1, <2>2, <2>3 DEF Abstract!Lose, Abstract!AbstractNext
<1>12. CASE Restart
  <2>1. /\ asked' = asked /\ disk' = disk /\ tx' = tx
        /\ answer' = [c \in Client |-> IF answer[c] = "gone" THEN "idle" ELSE answer[c]]
    BY <1>12 DEF Restart, dataVars
  <2>2. SyncOf' = SyncOf
    BY <1>0, <2>1 DEF SyncOf, TypeOK
  <2> QED
    BY <2>1, <2>2
<1>13. CASE Begin \/ Hangup \/ IntervalPasses \/ UNCHANGED vars
  BY <1>13, SyncUntouched DEF Begin, Hangup, IntervalPasses, vars, clientVars, dataVars
<1> QED
  BY <1>1, <1>2, <1>3, <1>4, <1>5, <1>6, <1>7, <1>9, <1>10, <1>11, <1>12, <1>13
  DEF Next, ClientStep, WorkerStep, Failure, Abstract!AbstractNext

\* The worker implements DurableLog, for any number of clients and any bounds.
THEOREM WorkerImplementsDurableLog == Spec => ImplementsDurableLog
  BY RefineInit, RefineStep, WorkerInvariance, PTL
  DEF Spec, ImplementsDurableLog, Abstract!AbstractSpec

-----------------------------------------------------------------------------
(* What a polling worker can lose                                          *)

EventsIn(ops) == {op \in ops : op.kind = "events"}

\* Strengthening of IdleWorkerOwesLittle that each step preserves.
OwesLittle ==
    /\ IsFiniteSet(tx)
    /\ pc \in {"poll", "commit"} => Cardinality(EventsIn(tx)) <= uncommitted
    /\ pc = "poll" => \A op \in tx : op.kind # "bucket"

\* Adding one write adds at most one event write to the transaction.
LEMMA EventsGrowByOne ==
  ASSUME NEW ops, IsFiniteSet(ops), NEW op, NEW n \in Nat, NEW k \in Nat,
         Cardinality(EventsIn(ops)) <= n, op.kind = "events" => k >= 1
  PROVE  IsFiniteSet(ops \cup {op}) /\ Cardinality(EventsIn(ops \cup {op})) <= n + k
<1>1. IsFiniteSet(ops \cup {op})
  BY FS_AddElement
<1>2. IsFiniteSet(EventsIn(ops)) /\ Cardinality(EventsIn(ops)) \in Nat
  BY FS_Subset, FS_CardinalityType DEF EventsIn
<1>3. CASE op.kind = "events"
  <2>1. EventsIn(ops \cup {op}) = EventsIn(ops) \cup {op}
    BY <1>3 DEF EventsIn
  <2> DEFINE E == EventsIn(ops)
  <2> HIDE DEF E
  <2>2. IsFiniteSet(E) /\ Cardinality(E) \in Nat
    BY <1>2 DEF E
  <2>3. Cardinality(E \cup {op}) \in Nat /\ Cardinality(E \cup {op}) <= Cardinality(E) + 1
    BY <2>2, FS_AddElement
  <2> QED
    BY <1>1, <1>3, <2>1, <2>2, <2>3 DEF E
<1>4. CASE op.kind # "events"
  <2>1. EventsIn(ops \cup {op}) = EventsIn(ops)
    BY <1>4 DEF EventsIn
  <2> QED
    BY <1>1, <1>2, <2>1
<1> QED
  BY <1>3, <1>4

\* An empty transaction holds no event writes.
LEMMA NothingOwed == IsFiniteSet({}) /\ Cardinality(EventsIn({})) = 0
<1>1. EventsIn({}) = {}
  BY DEF EventsIn
<1> QED
  BY <1>1, FS_EmptySet

\* No step lets the transaction hold more event writes than are counted.
LEMMA OwesStep == WorkerInv /\ OwesLittle /\ [Next]_vars => OwesLittle'
<1> SUFFICES ASSUME WorkerInv, OwesLittle, [Next]_vars PROVE OwesLittle'
  OBVIOUS
<1>0. TypeOK /\ NoTxOutsideLoop
  BY DEF WorkerInv
<1>1. ASSUME tx' = {}, uncommitted' \in Nat PROVE OwesLittle'
  BY <1>1, NothingOwed DEF OwesLittle
<1>2. ASSUME NEW c \in Client, HandleWrite(c) PROVE OwesLittle'
  <2> DEFINE op == [id |-> next, kind |-> asked[c].kind]
  <2>1. /\ tx' = tx \cup {op} /\ uncommitted' = uncommitted + asked[c].n
        /\ pc = "poll"
        /\ commit' = (commit \/ asked[c].kind = "bucket")
        /\ pc' = IF EndOfBatch(uncommitted', commit') THEN "commit" ELSE "poll"
    BY <1>2 DEF HandleWrite, Polled
  <2>2. asked[c].n \in Nat /\ (op.kind = "events" => asked[c].n >= 1)
    BY <1>0, WorkerAssumption DEF TypeOK, Command, EventWrite, PlainCommand
  <2>3. IsFiniteSet(tx') /\ Cardinality(EventsIn(tx')) <= uncommitted'
    BY <1>0, <2>1, <2>2, EventsGrowByOne DEF OwesLittle, TypeOK
  <2>4. pc' = "poll" => op.kind # "bucket"
    BY <2>1 DEF EndOfBatch
  <2> QED
    BY <2>1, <2>3, <2>4 DEF OwesLittle
<1>3. ASSUME NEW c \in Client, HandleQuery(c) \/ HandleDeferred(c) PROVE OwesLittle'
  BY <1>3 DEF HandleQuery, HandleDeferred, Polled, loopVars, dataVars, OwesLittle
<1>4. CASE Begin
  <2>1. tx' = {} /\ uncommitted' \in Nat
    BY <1>0, <1>4 DEF Begin, NoTxOutsideLoop, dataVars
  <2> QED
    BY <1>1, <2>1
<1>5. CASE CommitSucceeds \/ Failure
  <2>1. tx' = {} /\ uncommitted' = uncommitted
    BY <1>5 DEF CommitSucceeds, Failure, CommitFails, HandlerPanics, Crash, AfterCommit, loopVars
  <2> QED
    BY <1>0, <1>1, <2>1 DEF TypeOK
<1>6. CASE Restart
  BY <1>6 DEF Restart, dataVars, OwesLittle
<1> QED
  BY <1>2, <1>3, <1>4, <1>5, <1>6
  DEF Next, ClientStep, WorkerStep, Send, DropHandle, Hangup, IntervalPasses, Orphaned,
      OwesLittle, vars, loopVars, dataVars

\* Killing a worker that waits for requests costs at most EventCap events and
\* no created, deleted or renamed bucket.
THEOREM IdleWorkerInvariance == Spec => []IdleWorkerOwesLittle
<1>1. Init => OwesLittle
  BY NothingOwed DEF Init, OwesLittle
<1>2. WorkerInv /\ OwesLittle => IdleWorkerOwesLittle
  BY DEF WorkerInv, PollsOnlyWithinBatch, OwesLittle, EventsIn, IdleWorkerOwesLittle
<1> QED
  BY <1>1, <1>2, OwesStep, WorkerInvariance, PTL DEF Spec
=============================================================================
