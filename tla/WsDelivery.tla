------------------------------ MODULE WsDelivery ------------------------------
(***************************************************************************)
(* One-shot exchanges of AsyncWsClient (eazy_sdk/websocket): send() and    *)
(* call() over one connection at a time, its bounded writer queue, the     *)
(* registry of pending replies, failures, reconnects and replays.          *)
(*                                                                         *)
(* Every action is what one asyncio task does between two awaits.          *)
(* The connection handshake and the subscriptions are WsConnection's       *)
(* subject: here a connection is READY as soon as it is open, and the      *)
(* reconnect supervisor is a process that may connect at any time after a  *)
(* reconnectable failure.                                                  *)
(***************************************************************************)
EXTENDS Naturals, Sequences, FiniteSets

CONSTANTS
  Ops,             \* the operations (send or call) issued by the application
  Calls,           \* those that are call(): they wait for a reply
  Unsent,          \* those replayed under ReplayIfUnsent
  Dedup,           \* those replayed under ReplayWithDeduplication
  MaxReplays,      \* max_replays of the policies
  QueueCapacity,   \* config.writer_queue_capacity
  PrepareSuspends, \* middleware, dynamic auth or crypto awaits while preparing
  PrepareMayFail,  \* a transform, a codec or a middleware may raise
  CallersCancel,   \* callers may be cancelled at an await
  MaxDelays,       \* Len(config.reconnect.delays): attempts of the supervisor
  MaxFailures      \* bound on connection losses, for TLC

ASSUME DeliveryAssumption ==
  /\ Calls \subseteq Ops /\ Unsent \subseteq Ops /\ Dedup \subseteq Ops
  /\ Unsent \cap Dedup = {}
  /\ MaxReplays \in Nat \ {0}
  /\ QueueCapacity \in Nat \ {0}
  /\ PrepareSuspends \in BOOLEAN
  /\ PrepareMayFail \in BOOLEAN
  /\ CallersCancel \in BOOLEAN
  /\ MaxDelays \in Nat \ {0}
  /\ MaxFailures \in Nat

\* The background processes that also take the connect lock.
Supervisor == "supervisor"
Closer == "closer"
NoOne == "noone"

ASSUME NamesAssumption == Ops \cap {Supervisor, Closer, NoOne} = {}

Procs == Ops \cup {Supervisor}

VARIABLES
  state,       \* AsyncWsClient._state
  generation,  \* AsyncWsClient._generation
  lock,        \* holder of _connect_lock
  delays,      \* attempts _reconnect_loop has left
  queue,       \* _writer_queue: operations whose item is queued
  active,      \* _active_write
  pending,     \* _pending: generation under which a call is registered, or 0
  sendStarted, \* _PendingExchange.send_started of the current attempt
  completion,  \* _WriteItem.completion of the current attempt
  reply,       \* _PendingExchange.reply of the current attempt
  pc,          \* where each task is suspended
  replays,     \* local variable of send()/call()
  sent,        \* history: times the operation's frame went to socket.send
  verdict,     \* history: what the caller was told
  failures     \* connection losses so far (bounds the model)

vars == <<state, generation, lock, delays, queue, active, pending, sendStarted,
          completion, reply, pc, replays, sent, verdict, failures>>

link == <<state, generation, lock, delays, failures>>
exchange == <<pending, sendStarted, completion, reply>>
history == <<sent, verdict>>

States == {"idle", "connecting", "ready", "reconnecting", "failed",
           "closing", "closed"}
Steps == {"new", "connect", "teardown", "opening", "prepare", "queued",
          "reply", "done", "asleep"}
Futures == {"none", "open", "ok", "notsent", "unknown", "cancelled"}

Queued == {queue[i] : i \in DOMAIN queue}

\* A fault: a policy that ignores the evidence.
MayReplayAnyway(o, evidence) == o \in Unsent \cup Dedup /\ replays[o] < MaxReplays

\* replay_allowed: the evidence is "notsent", or "unknown" or "timeout" when the
\* frame may have been sent.
MayReplay(o, evidence) ==
  /\ o \in Unsent \cup Dedup
  /\ replays[o] < MaxReplays
  /\ o \in Dedup \/ evidence = "notsent"

\* asyncio runs a task up to its next suspension: when preparing a frame never
\* suspends, nothing else runs between connect() and the enqueue.
Undisturbed == PrepareSuspends \/ \A o \in Ops : pc[o] # "prepare"
------------------------------------------------------------------------------
Init ==
  /\ state = "idle" /\ generation = 0 /\ lock = NoOne
  /\ failures = 0 /\ delays = 0
  /\ queue = <<>> /\ active = NoOne
  /\ pending = [o \in Ops |-> 0]
  /\ sendStarted = [o \in Ops |-> FALSE]
  /\ completion = [o \in Ops |-> "none"]
  /\ reply = [o \in Ops |-> "none"]
  /\ pc = [p \in Procs |-> IF p \in Ops THEN "connect" ELSE "asleep"]
  /\ replays = [o \in Ops |-> 0]
  /\ sent = [o \in Ops |-> 0]
  /\ verdict = [o \in Ops |-> "none"]

(***************************************************************************)
(* connect(), shared by the operations and the reconnect supervisor        *)
(***************************************************************************)

\* connect() has returned.  _send_once goes on to prepare its frame; _call_once
\* first registers its pending exchange under the generation it sees.
Connected(p, gen) ==
  IF p \in Ops
  THEN /\ pc' = [pc EXCEPT ![p] = "prepare"]
       /\ completion' = [completion EXCEPT ![p] = "none"]
       /\ sendStarted' = [sendStarted EXCEPT ![p] = FALSE]
       /\ pending' = [pending EXCEPT ![p] = IF p \in Calls THEN gen ELSE 0]
       /\ reply' = [reply EXCEPT ![p] = IF p \in Calls THEN "open" ELSE "none"]
  ELSE /\ pc' = [pc EXCEPT ![p] = "asleep"]
       /\ UNCHANGED exchange

\* connect() has raised: v is what the caller of an operation sees.
ConnectRaised(p, v) ==
  IF p \in Ops
  THEN pc' = [pc EXCEPT ![p] = "done"] /\ verdict' = [verdict EXCEPT ![p] = v]
  ELSE pc' = [pc EXCEPT ![p] = "asleep"] /\ UNCHANGED verdict

ReturnReady(p) ==
  /\ Undisturbed
  /\ pc[p] = "connect" /\ lock = NoOne /\ state = "ready"
  /\ Connected(p, generation)
  /\ UNCHANGED <<link, queue, active, replays, history>>

RejectClosed(p) ==
  /\ Undisturbed
  /\ pc[p] = "connect" /\ lock = NoOne /\ state \in {"closing", "closed"}
  /\ ConnectRaised(p, "closed")
  /\ UNCHANGED <<link, queue, active, exchange, replays, sent>>

BeginConnect(p) ==
  /\ Undisturbed
  /\ pc[p] = "connect" /\ lock = NoOne
  /\ state \notin {"ready", "closing", "closed"}
  /\ lock' = p
  /\ pc' = [pc EXCEPT ![p] = "teardown"]
  /\ UNCHANGED <<state, generation, delays, failures, queue, active, exchange,
                 replays, history>>

TeardownConnection(p) ==
  /\ Undisturbed
  /\ pc[p] = "teardown"
  /\ queue' = <<>> /\ active' = NoOne
  /\ state' = "connecting"
  /\ pc' = [pc EXCEPT ![p] = "opening"]
  /\ UNCHANGED <<generation, lock, delays, failures, exchange, replays, history>>

OpenSucceeds(p) ==
  /\ Undisturbed
  /\ pc[p] = "opening"
  /\ generation' = generation + 1
  /\ queue' = <<>>
  /\ state' = "ready"
  /\ lock' = NoOne
  /\ Connected(p, generation')
  /\ UNCHANGED <<delays, failures, active, replays, history>>

OpenFails(p) ==
  /\ Undisturbed
  /\ pc[p] = "opening"
  /\ state' = "failed"
  /\ lock' = NoOne
  /\ IF p = Supervisor /\ delays > 1        \* _reconnect_loop goes on
     THEN /\ pc' = [pc EXCEPT ![p] = "connect"]
          /\ delays' = delays - 1
          /\ UNCHANGED verdict
     ELSE ConnectRaised(p, "connecterror") /\ UNCHANGED delays
  /\ UNCHANGED <<generation, failures, queue, active, exchange, replays, sent>>

(***************************************************************************)
(* send() and call()                                                       *)
(***************************************************************************)

\* The handler of _AttemptDeliveryFailure: replay, or report the evidence.
Failed(o, evidence) ==
  IF MayReplay(o, evidence)
  THEN /\ replays' = [replays EXCEPT ![o] = @ + 1]
       /\ IF state = "failed"                         \* _prepare_replay
          THEN ConnectRaised(o, "connecterror")
          ELSE pc' = [pc EXCEPT ![o] = "connect"] /\ UNCHANGED verdict
  ELSE /\ UNCHANGED replays
       /\ pc' = [pc EXCEPT ![o] = "done"]
       /\ verdict' = [verdict EXCEPT ![o] = evidence]

Finish(o, v) ==
  /\ pc' = [pc EXCEPT ![o] = "done"]
  /\ verdict' = [verdict EXCEPT ![o] = v]
  /\ UNCHANGED replays

\* The finally clause of _call_once.
PopPending(o) == pending' = [pending EXCEPT ![o] = 0]

\* _enqueue accepts the item.
Enqueue(o) ==
  /\ pc[o] = "prepare" /\ state = "ready" /\ Len(queue) < QueueCapacity
  /\ queue' = Append(queue, o)
  /\ completion' = [completion EXCEPT ![o] = "open"]
  /\ pc' = [pc EXCEPT ![o] = "queued"]
  /\ UNCHANGED <<link, active, pending, sendStarted, reply, replays, history>>

\* _enqueue refuses: the bounded queue is full.
EnqueueOverflows(o) ==
  /\ pc[o] = "prepare" /\ state = "ready" /\ Len(queue) >= QueueCapacity
  /\ Finish(o, "overflow")
  /\ PopPending(o)
  /\ UNCHANGED <<link, queue, active, sendStarted, completion, reply, sent>>

\* _enqueue refuses: the connection is not ready.
EnqueueRefused(o) ==
  /\ pc[o] = "prepare" /\ state # "ready"
  /\ Failed(o, "notsent")
  /\ PopPending(o)
  /\ UNCHANGED <<link, queue, active, sendStarted, completion, reply, sent>>

\* _prepare_outbound raises, before the try that pops the pending exchange.
PrepareFails(o) ==
  /\ PrepareMayFail
  /\ pc[o] = "prepare"
  /\ Finish(o, "error")
  /\ UNCHANGED <<link, queue, active, exchange, sent>>

\* await completion returns: a send is over, a call goes on to its reply.
Delivered(o) ==
  /\ Undisturbed
  /\ pc[o] = "queued" /\ completion[o] = "ok"
  /\ IF o \in Calls
     THEN pc' = [pc EXCEPT ![o] = "reply"] /\ UNCHANGED <<replays, verdict>>
     ELSE Finish(o, "ok")
  /\ UNCHANGED <<link, queue, active, exchange, sent>>

\* await completion raises.
DeliveryFailed(o) ==
  /\ Undisturbed
  /\ pc[o] = "queued" /\ completion[o] \in {"notsent", "unknown"}
  /\ Failed(o, completion[o])
  /\ PopPending(o)
  /\ UNCHANGED <<link, queue, active, sendStarted, completion, reply, sent>>

\* await pending.reply returns or raises.
Answered(o) ==
  /\ Undisturbed
  /\ pc[o] = "reply" /\ reply[o] # "open"
  /\ \/ reply[o] = "ok" /\ Finish(o, "ok")
     \/ reply[o] \in {"notsent", "unknown"} /\ Failed(o, reply[o])
  /\ PopPending(o)
  /\ UNCHANGED <<link, queue, active, sendStarted, completion, reply, sent>>

\* A fault: the timeout is reported without the evidence of the writer.
TimesOutUnsent(o) ==
  /\ Undisturbed
  /\ pc[o] = "reply" /\ reply[o] = "open"
  /\ Failed(o, "notsent")
  /\ PopPending(o)
  /\ reply' = [reply EXCEPT ![o] = "cancelled"]
  /\ UNCHANGED <<link, queue, active, sendStarted, completion, sent>>

\* await pending.reply takes longer than the timeout of the call.
TimesOut(o) ==
  /\ Undisturbed
  /\ pc[o] = "reply" /\ reply[o] = "open"
  /\ Failed(o, IF sendStarted[o] THEN "timeout" ELSE "notsent")
  /\ PopPending(o)
  /\ reply' = [reply EXCEPT ![o] = "cancelled"]
  /\ UNCHANGED <<link, queue, active, sendStarted, completion, sent>>

\* The caller is cancelled at an await.  A task cancelled while it holds the
\* connect lock releases it and leaves the state as it is.  While it prepares,
\* the pending exchange is already registered and nothing pops it.
CancelCaller(o) ==
  /\ CallersCancel /\ Undisturbed
  /\ \/ pc[o] = "connect" /\ lock # NoOne
     \/ pc[o] \in {"teardown", "opening", "prepare", "queued", "reply"}
  /\ Finish(o, "cancelled")
  /\ lock' = IF lock = o THEN NoOne ELSE lock
  /\ IF pc[o] \in {"queued", "reply"}
     THEN /\ PopPending(o)
          /\ completion' = [completion EXCEPT ![o] = IF @ = "open" THEN "cancelled" ELSE @]
          /\ reply' = [reply EXCEPT ![o] = IF @ = "open" THEN "cancelled" ELSE @]
     ELSE UNCHANGED <<pending, completion, reply>>
  /\ UNCHANGED <<state, generation, delays, failures, queue, active, sendStarted, sent>>

(***************************************************************************)
(* The writer and the reader of the current connection                     *)
(***************************************************************************)

\* The writer starts on the next item, whoever still waits for it.
WriterTake ==
  /\ Undisturbed
  /\ state = "ready" /\ active = NoOne /\ queue # <<>>
  /\ active' = Head(queue)
  /\ queue' = Tail(queue)
  /\ sent' = [sent EXCEPT ![Head(queue)] = @ + 1]
  /\ sendStarted' = [sendStarted EXCEPT ![Head(queue)] = TRUE]
  /\ UNCHANGED <<link, pending, completion, reply, pc, replays, verdict>>

\* socket.send returns.
WriterDone ==
  /\ Undisturbed
  /\ state \in {"ready", "closing"} /\ active # NoOne
  /\ completion' = [completion EXCEPT ![active] = IF @ = "open" THEN "ok" ELSE @]
  /\ active' = NoOne
  /\ UNCHANGED <<link, queue, pending, sendStarted, reply, pc, replays, history>>

\* The peer's reply to a call, routed by generation and correlation.
RouteReply(o) ==
  /\ Undisturbed
  /\ state = "ready"
  /\ sendStarted[o] /\ pending[o] = generation /\ reply[o] = "open"
  /\ reply' = [reply EXCEPT ![o] = "ok"]
  /\ PopPending(o)
  /\ UNCHANGED <<link, queue, active, sendStarted, completion, pc, replays, history>>

\* Two faults: the item being written counts as unsent; queued items are
\* drained without a word to their waiters.
WriteVerdictUnsent(o) == IF o = active \/ o \in Queued THEN "notsent" ELSE "open"
WriteVerdictActiveOnly(o) == IF o = active THEN "unknown" ELSE "open"

\* What _fail_outstanding tells the waiter of a write: its item's own evidence.
WriteVerdict(o) ==
  IF o = active THEN "unknown" ELSE IF o \in Queued THEN "notsent" ELSE "open"

\* Every registered reply fails and the registry is cleared.
FailReplies ==
  /\ reply' = [o \in Ops |->
       IF pending[o] = 0 \/ reply[o] # "open" THEN reply[o]
       ELSE IF sendStarted[o] THEN "unknown" ELSE "notsent"]
  /\ pending' = [o \in Ops |-> 0]

\* _fail_outstanding: every open waiter gets a verdict on its own item.
FailOutstanding ==
  /\ completion' = [o \in Ops |->
       IF completion[o] = "open" THEN WriteVerdict(o) ELSE completion[o]]
  /\ FailReplies
  /\ queue' = <<>>

\* _fail_connection, called by the reader, the writer or the heartbeat; the
\* tasks of the connection are cancelled with it.  A retained subscription
\* wakes the supervisor.
LoseConnection(target) ==
  /\ Undisturbed
  /\ state = "ready" /\ failures < MaxFailures
  /\ failures' = failures + 1
  /\ state' = target
  /\ FailOutstanding
  /\ active' = NoOne
  /\ \/ UNCHANGED <<pc, delays>>
     \/ /\ target = "reconnecting" /\ pc[Supervisor] = "asleep"
        /\ pc' = [pc EXCEPT ![Supervisor] = "connect"]
        /\ delays' = MaxDelays
  /\ UNCHANGED <<generation, lock, sendStarted, replays, history>>

\* socket.send raises while the client is closing: _fail_connection ignores it.
WriterFailsClosing ==
  /\ Undisturbed
  /\ state = "closing" /\ active # NoOne
  /\ active' = NoOne
  /\ UNCHANGED <<link, queue, exchange, pc, replays, history>>

(***************************************************************************)
(* aclose()                                                                *)
(***************************************************************************)
BeginClose ==
  /\ Undisturbed
  /\ lock = NoOne /\ state # "closed"
  /\ lock' = Closer
  /\ state' = "closing"
  /\ pc' = [pc EXCEPT ![Supervisor] = "asleep"]
  /\ FailOutstanding
  /\ UNCHANGED <<generation, delays, failures, active, sendStarted, replays, history>>

EndClose ==
  /\ Undisturbed
  /\ lock = Closer
  /\ lock' = NoOne
  /\ state' = "closed"
  /\ active' = NoOne /\ queue' = <<>>
  /\ UNCHANGED <<generation, delays, failures, exchange, pc, replays, history>>

------------------------------------------------------------------------------
ConnectStep(p) ==
  \/ ReturnReady(p) \/ RejectClosed(p) \/ BeginConnect(p)
  \/ TeardownConnection(p) \/ OpenSucceeds(p) \/ OpenFails(p)

ExchangeStep(o) ==
  \/ Enqueue(o) \/ EnqueueOverflows(o) \/ EnqueueRefused(o) \/ PrepareFails(o)
  \/ Delivered(o) \/ DeliveryFailed(o) \/ Answered(o) \/ TimesOut(o)

Next ==
  \/ \E p \in Procs : ConnectStep(p)
  \/ \E o \in Ops : ExchangeStep(o) \/ CancelCaller(o) \/ RouteReply(o)
  \/ WriterTake \/ WriterDone \/ WriterFailsClosing
  \/ \E target \in {"failed", "reconnecting", "idle"} : LoseConnection(target)
  \/ BeginClose \/ EndClose

Spec == Init /\ [][Next]_vars

(***************************************************************************)
(* The event loop runs every runnable task; an opening handshake and a     *)
(* socket.send return or raise; a call waits at most call_timeout; aclose  *)
(* ends.  Replies, failures, closing and cancellation need not happen.     *)
(***************************************************************************)
Fairness ==
  /\ \A p \in Procs : WF_vars(ConnectStep(p))
  /\ \A o \in Ops : WF_vars(ExchangeStep(o))
  /\ WF_vars(WriterTake) /\ WF_vars(WriterDone)
  /\ WF_vars(EndClose)

FairSpec == Spec /\ Fairness
------------------------------------------------------------------------------
TypeOK ==
  /\ state \in States
  /\ generation \in Nat /\ failures \in Nat /\ delays \in Nat
  /\ lock \in Procs \cup {Closer, NoOne}
  /\ queue \in Seq(Ops) /\ Len(queue) <= QueueCapacity
  /\ active \in Ops \cup {NoOne}
  /\ pending \in [Ops -> Nat]
  /\ sendStarted \in [Ops -> BOOLEAN]
  /\ completion \in [Ops -> Futures]
  /\ reply \in [Ops -> Futures]
  /\ pc \in [Procs -> Steps]
  /\ replays \in [Ops -> 0..MaxReplays]
  /\ sent \in [Ops -> Nat]
  /\ verdict \in [Ops -> {"none", "ok", "notsent", "unknown", "timeout", "overflow",
                          "connecterror", "closed", "error", "cancelled"}]

\* DeliveryNotSentError is raised only for an operation none of whose attempts
\* was handed to the socket (_raise_delivery over the evidence collected by
\* _writer_loop and _fail_outstanding).
NotSentIsNotSent ==
  \A o \in Ops : verdict[o] = "notsent" => sent[o] = 0

\* An operation without a deduplication proof reaches the socket at most once,
\* through any number of failures, reconnects and replays.
AtMostOnceWithoutDedup ==
  \A o \in Ops \ Dedup : sent[o] <= 1

\* No path that ends a connection strands a waiter: an unresolved completion
\* belongs to an item that a live writer will take or is writing.
NoStrandedWaiter ==
  \A o \in Ops : completion[o] = "open" =>
    /\ state = "ready"
    /\ o \in Queued \/ active = o

\* Every operation ends with a verdict, whatever fails and whoever closes.
EveryOperationEnds == \A o \in Ops : <>(pc[o] = "done")

\* The exchange implements its promise.
Abs == INSTANCE OneShotDelivery WITH
         Ops <- Ops, Dedup <- Dedup, sent <- sent, verdict <- verdict
OneShotPromise == Abs!ASpec
==============================================================================
