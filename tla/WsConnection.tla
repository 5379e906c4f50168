----------------------------- MODULE WsConnection -----------------------------
(***************************************************************************)
(* The connection lifecycle of AsyncWsClient (eazy_sdk/websocket):         *)
(* connect() under its lock, the reader, writer and heartbeat tasks of a   *)
(* generation, the failure path, the reconnect supervisor, the restoration *)
(* of subscriptions on a new generation, and aclose().                     *)
(*                                                                         *)
(* One action is what one asyncio task does between two suspensions.  The  *)
(* frames are WsDelivery's subject: here a task that waits for its frame   *)
(* to be written has an item that ends "ok" or "failed".                   *)
(***************************************************************************)
EXTENDS Naturals, FiniteSets

CONSTANTS
  Callers,           \* application tasks that connect or subscribe
  Subs,              \* subscriptions they may open
  Correlated,        \* those routed by correlation, not by channel
  Settings,          \* the settings explored, records of: connection middleware
                     \* or protocol auth awaits (suspends); the peer may send an
                     \* event before the resubscription (early); the length of
                     \* config.reconnect.delays (delays); the subscriptions whose
                     \* policy is not NeverResubscribe (retained);
                     \* config.heartbeat_interval is not None (heartbeat);
                     \* protocol.build_cancel returns an envelope (cancel)
  CallersCancel,     \* callers may be cancelled
  MaxFailures        \* bound on connection losses, for TLC

ASSUME ConnectionAssumption ==
  /\ Correlated \subseteq Subs
  /\ MaxFailures \in Nat
  /\ Settings \subseteq [suspends : BOOLEAN, early : BOOLEAN, delays : Nat,
                   retained : SUBSET Subs, heartbeat : BOOLEAN,
                   cancel : BOOLEAN]
  /\ CallersCancel \in BOOLEAN

Supervisor == "supervisor"
Closer == "closer"
NoOne == "noone"

ASSUME NamesAssumption ==
  (Callers \cup Subs) \cap {Supervisor, Closer, NoOne} = {}

Procs == Callers \cup {Supervisor}

VARIABLES
  state,      \* _state
  generation, \* _generation
  lock,       \* holder of _connect_lock
  reader,     \* _reader_task: "none", "live" or "done"
  writer,     \* _writer_task
  heartbeat,  \* _heartbeat_task; "starting" until its first step
  pc,         \* where each task is suspended
  item,       \* the frame a task waits for: "none", "open", "ok", "failed"
  todo,       \* records of its _restore_subscriptions still to visit
  cur,        \* the subscription a task is restoring or opening
  delays,     \* attempts _reconnect_loop has left
  subState,   \* Subscription._state
  closed,     \* Subscription._closed
  registered, \* _subscriptions_by_channel and _subscriptions_by_correlation
  cancelItem, \* the cancel frame Subscription.aclose waits for
  held,       \* history: subscriptions returned to the application
  failures,   \* connection losses so far (bounds the model)
  setting     \* which of the Settings this behaviour is in

Delays == setting.delays
Retained == setting.retained
HasHeartbeat == setting.heartbeat
HasCancel == setting.cancel

tasks == <<reader, writer, heartbeat>>
subs == <<subState, closed, registered>>
work == <<pc, item, todo, cur>>
vars == <<state, generation, lock, tasks, work, delays, subs, cancelItem, held,
          failures, setting>>

Terminal == {"completed", "failed", "cancelled"}
Stopped == {"closing", "closed"}

\* A task that is between two suspensions runs on alone.
Undisturbed ==
  \A p \in Procs : pc[p] # "connected" /\ ~(pc[p] = "restore" /\ cur[p] = NoOne)

Alive == reader = "live" \/ writer = "live" \/ heartbeat = "live"

(***************************************************************************)
(* Effects on a set of subscriptions                                       *)
(***************************************************************************)

\* A fault: _fail changes the state and forgets to close.
FailSubsWithoutClosing(S) ==
  /\ subState' = [s \in Subs |->
       IF s \in S /\ subState[s] \notin Terminal THEN "failed" ELSE subState[s]]
  /\ UNCHANGED closed

\* Subscription._fail on every member of S.
FailSubs(S) ==
  /\ subState' = [s \in Subs |->
       IF s \in S /\ subState[s] \notin Terminal THEN "failed" ELSE subState[s]]
  /\ closed' = [s \in Subs |->
       closed[s] \/ (s \in S /\ subState[s] \notin Terminal)]

\* A fault: _fail_outstanding forgets the queued frames of waiting tasks.
FailCancelItemsOnly ==
  /\ cancelItem' = [s \in Subs |-> IF cancelItem[s] = "open" THEN "failed" ELSE cancelItem[s]]
  /\ UNCHANGED item

\* _fail_outstanding: every frame still waited for fails.
FailItems ==
  /\ item' = [p \in Procs |-> IF item[p] = "open" THEN "failed" ELSE item[p]]
  /\ cancelItem' = [s \in Subs |-> IF cancelItem[s] = "open" THEN "failed" ELSE cancelItem[s]]

\* The supervisor gives up: its loop has no delay left, or it was told to stop.
ExhaustBudget ==
  /\ state' = "failed"
  /\ FailSubs(registered)
  /\ registered' = {}
  /\ pc' = [pc EXCEPT ![Supervisor] = "none"]
------------------------------------------------------------------------------
Init ==
  /\ state = "idle" /\ generation = 0 /\ lock = NoOne
  /\ reader = "none" /\ writer = "none" /\ heartbeat = "none"
  /\ pc = [p \in Procs |-> IF p = Supervisor THEN "none" ELSE "start"]
  /\ item = [p \in Procs |-> "none"]
  /\ todo = [p \in Procs |-> {}]
  /\ cur = [p \in Procs |-> NoOne]
  /\ delays = 0
  /\ subState = [s \in Subs |-> "new"]
  /\ closed = [s \in Subs |-> FALSE]
  /\ registered = {}
  /\ cancelItem = [s \in Subs |-> "none"]
  /\ held = {} /\ failures = 0
  /\ setting \in Settings

(***************************************************************************)
(* connect()                                                               *)
(***************************************************************************)
Goto(p, where) == pc' = [pc EXCEPT ![p] = where]

\* connect() is called by an operation.
Call(c) ==
  /\ Undisturbed /\ c \in Callers /\ pc[c] = "start"
  /\ Goto(c, "connect")
  /\ UNCHANGED <<state, generation, lock, tasks, item, todo, cur, delays, subs,
                 cancelItem, held, failures, setting>>

\* connect() returned: the caller is done, or opens a subscription.
Returned(p) ==
  Goto(p, IF p = Supervisor THEN "none" ELSE "connected")

\* connect() raised WsConnectError: the supervisor sleeps before its next
\* delay, or fails every retained subscription when it has none.
Raised(p) ==
  IF p # Supervisor
  THEN Goto(p, "done") /\ state' = "failed" /\ UNCHANGED <<subs, delays>>
  ELSE IF delays > 1
       THEN /\ Goto(p, "sleep") /\ state' = "failed"
            /\ delays' = delays - 1 /\ UNCHANGED subs
       ELSE ExhaustBudget /\ delays' = 0

ReturnReady(p) ==
  /\ Undisturbed
  /\ pc[p] = "connect" /\ lock = NoOne /\ state = "ready"
  /\ Returned(p)
  /\ UNCHANGED <<state, generation, lock, tasks, item, todo, cur, delays, subs,
                 cancelItem, held, failures, setting>>

RejectClosed(p) ==
  /\ Undisturbed
  /\ pc[p] = "connect" /\ lock = NoOne /\ state \in Stopped
  /\ Goto(p, IF p = Supervisor THEN "none" ELSE "done")
  /\ UNCHANGED <<state, generation, lock, tasks, item, todo, cur, delays, subs,
                 cancelItem, held, failures, setting>>

BeginConnect(p) ==
  /\ Undisturbed
  /\ pc[p] = "connect" /\ lock = NoOne /\ state \notin Stopped \cup {"ready"}
  /\ lock' = p
  /\ Goto(p, "teardown")
  /\ UNCHANGED <<state, generation, tasks, item, todo, cur, delays, subs,
                 cancelItem, held, failures, setting>>

TeardownConnection(p) ==
  /\ Undisturbed /\ pc[p] = "teardown"
  /\ reader' = "none" /\ writer' = "none" /\ heartbeat' = "none"
  /\ state' = "connecting"
  /\ Goto(p, "opening")
  /\ UNCHANGED <<generation, lock, item, todo, cur, delays, subs, cancelItem,
                 held, failures, setting>>

OpenFails(p) ==
  /\ Undisturbed /\ pc[p] = "opening"
  /\ Raised(p)
  /\ lock' = NoOne
  /\ UNCHANGED <<generation, tasks, item, todo, cur, cancelItem, held, failures,
                 setting>>

\* A fault: generation 2 is taken for a first connection.
ReadyOffByOne(p, gen) ==
  /\ state' = "ready"
  /\ lock' = NoOne
  /\ IF gen > 2 /\ registered # {}
     THEN Goto(p, "restore") /\ todo' = [todo EXCEPT ![p] = registered]
     ELSE Returned(p) /\ UNCHANGED todo

\* The end of connect(): READY whatever happened during the handshake, then the
\* records registered now are restored, outside the lock.
Ready(p, gen) ==
  /\ state' = "ready"
  /\ lock' = NoOne
  /\ IF gen > 1 /\ registered # {}
     THEN Goto(p, "restore") /\ todo' = [todo EXCEPT ![p] = registered]
     ELSE Returned(p) /\ UNCHANGED todo

OpenSucceeds(p) ==
  /\ Undisturbed /\ pc[p] = "opening"
  /\ generation' = generation + 1
  /\ reader' = "live" /\ writer' = "live"
  /\ heartbeat' = IF HasHeartbeat THEN "starting" ELSE "none"
  /\ IF setting.suspends
     THEN state' = "handshaking" /\ Goto(p, "handshake") /\ UNCHANGED <<lock, todo>>
     ELSE Ready(p, generation')
  /\ UNCHANGED <<item, cur, delays, subs, cancelItem, held, failures, setting>>

HandshakeSucceeds(p) ==
  /\ Undisturbed /\ pc[p] = "handshake"
  /\ Ready(p, generation)
  /\ UNCHANGED <<generation, tasks, item, cur, delays, subs, cancelItem, held,
                 failures, setting>>

\* Middleware or protocol auth raises, or the task is cancelled while it waits.
HandshakeFails(p) ==
  /\ Undisturbed /\ pc[p] = "handshake"
  /\ reader' = "none" /\ writer' = "none" /\ heartbeat' = "none"
  /\ Raised(p)
  /\ lock' = NoOne
  /\ item' = [q \in Procs |-> IF item[q] = "open" THEN "failed" ELSE item[q]]
  /\ cancelItem' = [s \in Subs |-> IF cancelItem[s] = "open" THEN "failed" ELSE cancelItem[s]]
  /\ UNCHANGED <<generation, todo, cur, held, failures, setting>>

\* A caller is cancelled while it waits for the lock, or while it holds it
\* before the handshake: the state stays as it is.
CancelCaller(c) ==
  /\ CallersCancel /\ Undisturbed /\ c \in Callers
  /\ \/ pc[c] = "connect" /\ lock # NoOne
     \/ pc[c] \in {"teardown", "opening"}
  /\ lock' = IF lock = c THEN NoOne ELSE lock
  /\ Goto(c, "done")
  /\ UNCHANGED <<state, generation, tasks, item, todo, cur, delays, subs,
                 cancelItem, held, failures, setting>>

(***************************************************************************)
(* _restore_subscriptions: one record of the snapshot after another        *)
(***************************************************************************)

\* The next record.  It is marked as restoring, and a correlation route is
\* registered anew, whatever became of the record since the snapshot was taken.
RestoreNext(p, s) ==
  /\ pc[p] = "restore" /\ cur[p] = NoOne /\ s \in todo[p]
  /\ todo' = [todo EXCEPT ![p] = @ \ {s}]
  /\ IF s \notin Retained
     THEN UNCHANGED <<subs, item, cur>>
     ELSE IF state = "ready"
     THEN /\ subState' = [subState EXCEPT ![s] = "restoring"]
          /\ registered' = IF s \in Correlated THEN registered \cup {s} ELSE registered
          /\ item' = [item EXCEPT ![p] = "open"]
          /\ cur' = [cur EXCEPT ![p] = s]
          /\ UNCHANGED closed
     ELSE /\ subState' = [subState EXCEPT ![s] = "failed"]
          /\ closed' = [closed EXCEPT ![s] = TRUE]
          /\ registered' = registered \ {s}
          /\ UNCHANGED <<item, cur>>
  /\ UNCHANGED <<state, generation, lock, tasks, pc, delays, cancelItem, held,
                 failures, setting>>

RestoreEnd(p) ==
  LET s == cur[p] IN
  /\ Undisturbed
  /\ pc[p] = "restore" /\ item[p] \in {"ok", "failed"}
  /\ IF item[p] = "ok"
     THEN /\ subState' = [subState EXCEPT ![s] = IF closed[s] THEN @ ELSE "active"]
          /\ UNCHANGED <<closed, registered>>
     ELSE /\ FailSubs({s})
          /\ registered' = registered \ {s}
  /\ item' = [item EXCEPT ![p] = "none"]
  /\ cur' = [cur EXCEPT ![p] = NoOne]
  /\ UNCHANGED <<state, generation, lock, tasks, pc, todo, delays, cancelItem,
                 held, failures, setting>>

RestoreDone(p) ==
  /\ pc[p] = "restore" /\ cur[p] = NoOne /\ todo[p] = {}
  /\ Returned(p)
  /\ UNCHANGED <<state, generation, lock, tasks, item, todo, cur, delays, subs,
                 cancelItem, held, failures, setting>>

(***************************************************************************)
(* Operations of the application                                           *)
(***************************************************************************)

\* A send or call is over as far as the connection is concerned.
OperationEnds(c) ==
  /\ pc[c] = "connected"
  /\ Goto(c, "done")
  /\ UNCHANGED <<state, generation, lock, tasks, item, todo, cur, delays, subs,
                 cancelItem, held, failures, setting>>

\* A fault: the write is queued whatever the state.
SubscribeUnguarded(c, s) ==
  /\ pc[c] = "connected" /\ subState[s] = "new"
  /\ subState' = [subState EXCEPT ![s] = "active"]
  /\ registered' = registered \cup {s}
  /\ item' = [item EXCEPT ![c] = "open"]
  /\ cur' = [cur EXCEPT ![c] = s]
  /\ Goto(c, "subscribing")
  /\ UNCHANGED <<state, generation, lock, tasks, todo, delays, closed,
                 cancelItem, held, failures, setting>>

\* subscribe() registers its record and enqueues its frame; if the connection
\* is gone by then the record is removed again and the caller sees the error.
Subscribe(c, s) ==
  /\ pc[c] = "connected" /\ subState[s] = "new"
  /\ IF state = "ready"
     THEN /\ subState' = [subState EXCEPT ![s] = "active"]
          /\ registered' = registered \cup {s}
          /\ item' = [item EXCEPT ![c] = "open"]
          /\ cur' = [cur EXCEPT ![c] = s]
          /\ Goto(c, "subscribing")
     ELSE Goto(c, "done") /\ UNCHANGED <<subState, registered, item, cur>>
  /\ UNCHANGED <<state, generation, lock, tasks, todo, delays, closed,
                 cancelItem, held, failures, setting>>

SubscribeEnds(c) ==
  /\ Undisturbed
  /\ pc[c] = "subscribing" /\ item[c] \in {"ok", "failed"}
  /\ IF item[c] = "ok"
     THEN held' = held \cup {cur[c]} /\ UNCHANGED registered
     ELSE registered' = registered \ {cur[c]} /\ UNCHANGED held
  /\ item' = [item EXCEPT ![c] = "none"]
  /\ cur' = [cur EXCEPT ![c] = NoOne]
  /\ Goto(c, "done")
  /\ UNCHANGED <<state, generation, lock, tasks, todo, delays, subState, closed,
                 cancelItem, failures, setting>>

\* A caller cancelled while it waits for its frame sees the wait end; the
\* handlers that follow are those of a failed frame.
CancelWaiting(c) ==
  /\ CallersCancel /\ Undisturbed /\ c \in Callers
  /\ item[c] = "open"
  /\ item' = [item EXCEPT ![c] = "failed"]
  /\ UNCHANGED <<state, generation, lock, tasks, pc, todo, cur, delays, subs,
                 cancelItem, held, failures, setting>>

\* Subscription.aclose: cancelled at once; on a READY connection the peer is
\* told first, and only a frame that was written removes the record.
CloseSubscription(s) ==
  /\ Undisturbed
  /\ s \in held /\ ~closed[s]
  /\ closed' = [closed EXCEPT ![s] = TRUE]
  /\ subState' = [subState EXCEPT ![s] = "cancelled"]
  /\ IF HasCancel /\ state = "ready"
     THEN cancelItem' = [cancelItem EXCEPT ![s] = "open"] /\ UNCHANGED registered
     ELSE registered' = registered \ {s} /\ UNCHANGED cancelItem
  /\ UNCHANGED <<state, generation, lock, tasks, work, delays, held, failures,
                 setting>>

CloseSubscriptionEnds(s) ==
  /\ Undisturbed
  /\ cancelItem[s] \in {"ok", "failed"}
  /\ registered' = IF cancelItem[s] = "ok" THEN registered \ {s} ELSE registered
  /\ cancelItem' = [cancelItem EXCEPT ![s] = "none"]
  /\ UNCHANGED <<state, generation, lock, tasks, work, delays, subState, closed,
                 held, failures, setting>>

(***************************************************************************)
(* The tasks of the current connection                                     *)
(***************************************************************************)

\* The writer hands a waiting task's frame to the socket.
ItemWritten(p) ==
  /\ Undisturbed
  /\ writer = "live" /\ item[p] = "open"
  /\ item' = [item EXCEPT ![p] = "ok"]
  /\ UNCHANGED <<state, generation, lock, tasks, pc, todo, cur, delays, subs,
                 cancelItem, held, failures, setting>>

CancelWritten(s) ==
  /\ Undisturbed
  /\ writer = "live" /\ cancelItem[s] = "open"
  /\ cancelItem' = [cancelItem EXCEPT ![s] = "ok"]
  /\ UNCHANGED <<state, generation, lock, tasks, work, delays, subs, held,
                 failures, setting>>

\* A fault: the loop compares with the generation of the first connection.
HeartbeatStartsOnce ==
  /\ Undisturbed
  /\ heartbeat = "starting"
  /\ heartbeat' = IF state = "ready" /\ generation = 1 THEN "live" ELSE "done"
  /\ UNCHANGED <<state, generation, lock, reader, writer, work, delays, subs,
                 cancelItem, held, failures, setting>>

\* The loop condition of _heartbeat_loop, evaluated when the task first runs.
HeartbeatStarts ==
  /\ Undisturbed
  /\ heartbeat = "starting"
  /\ heartbeat' = IF state = "ready" THEN "live" ELSE "done"
  /\ UNCHANGED <<state, generation, lock, reader, writer, work, delays, subs,
                 cancelItem, held, failures, setting>>

\* The reader routes a terminal error, a completion, or an event that overflows
\* the queue or breaks the sequence.
PeerEnds(s) ==
  /\ Undisturbed
  /\ reader = "live" /\ s \in registered
  /\ \/ FailSubs({s})
     \/ /\ subState' = [subState EXCEPT ![s] = IF closed[s] THEN @ ELSE "completed"]
        /\ closed' = [closed EXCEPT ![s] = TRUE]
  /\ registered' = registered \ {s}
  /\ UNCHANGED <<state, generation, lock, tasks, work, delays, cancelItem, held,
                 failures, setting>>

\* An event of a channel arrives on the new connection before its record is
\* restored: _publish refuses it and the reader removes the route.
EarlyEvent(s) ==
  /\ setting.early /\ Undisturbed
  /\ reader = "live" /\ s \in registered \ Correlated
  /\ subState[s] = "disconnected"
  /\ registered' = registered \ {s}
  /\ UNCHANGED <<state, generation, lock, tasks, work, delays, subState, closed,
                 cancelItem, held, failures, setting>>

\* failure_state of _decisions.py.
FailureState(isFatal, reconnect) ==
  IF isFatal THEN "failed" ELSE IF reconnect THEN "reconnecting" ELSE "idle"

\* _disconnect_subscriptions: the records that survive the loss.
Survivors(isFatal, reconnect) ==
  IF isFatal \/ ~reconnect \/ Delays = 0 THEN {} ELSE registered \cap Retained

\* _fail_connection, from the reader, the writer or the heartbeat.
LoseConnection(isFatal, reconnect) ==
  LET kept == Survivors(isFatal, reconnect) IN
  /\ Undisturbed
  /\ Alive /\ state \notin Stopped /\ failures < MaxFailures
  /\ failures' = failures + 1
  /\ state' = FailureState(isFatal, reconnect)
  /\ FailItems
  /\ subState' = [s \in Subs |->
       IF s \notin registered \/ (closed[s] /\ s \in kept) THEN subState[s]
       ELSE IF s \in kept THEN "disconnected"
       ELSE IF subState[s] \in Terminal THEN subState[s] ELSE "failed"]
  /\ closed' = [s \in Subs |-> closed[s] \/ s \in registered \ kept]
  /\ registered' = kept
  /\ reader' = "done" /\ writer' = "done"
  /\ heartbeat' = IF heartbeat = "none" THEN "none" ELSE "done"
  /\ IF kept # {} /\ pc[Supervisor] = "none"          \* _schedule_reconnect
     THEN Goto(Supervisor, "sleep") /\ delays' = Delays
     ELSE UNCHANGED <<pc, delays>>
  /\ UNCHANGED <<generation, lock, todo, cur, held, setting>>

\* The reader ends by itself while the client closes: the failure is ignored.
LoseWhileClosing ==
  /\ Undisturbed
  /\ state = "closing" /\ reader = "live"
  /\ reader' = "done"
  /\ UNCHANGED <<state, generation, lock, writer, heartbeat, work, delays, subs,
                 cancelItem, held, failures, setting>>

\* _reconnect_loop wakes from its delay.
SupervisorWakes ==
  /\ Undisturbed
  /\ pc[Supervisor] = "sleep"
  /\ Goto(Supervisor, IF state \in Stopped \cup {"ready"} THEN "none" ELSE "connect")
  /\ UNCHANGED <<state, generation, lock, tasks, item, todo, cur, delays, subs,
                 cancelItem, held, failures, setting>>

(***************************************************************************)
(* aclose()                                                                *)
(***************************************************************************)

\* The supervisor is cancelled and joined: a record it was restoring fails, and
\* so do the ones it had not reached.  Then every waiter and every record fails.
BeginClose ==
  LET ended(s) == s \in registered \cup {cur[Supervisor]} /\ subState[s] \notin Terminal
      revisited == todo[Supervisor] \cap Retained IN
  /\ Undisturbed
  /\ lock = NoOne /\ state # "closed"
  /\ lock' = Closer
  /\ state' = "closing"
  /\ pc' = [pc EXCEPT ![Supervisor] = "none"]
  /\ todo' = [todo EXCEPT ![Supervisor] = {}]
  /\ cur' = [cur EXCEPT ![Supervisor] = NoOne]
  /\ item' = [p \in Procs |-> IF p = Supervisor THEN "none"
                              ELSE IF item[p] = "open" THEN "failed" ELSE item[p]]
  /\ cancelItem' = [s \in Subs |-> IF cancelItem[s] = "open" THEN "failed" ELSE cancelItem[s]]
  /\ subState' = [s \in Subs |->
       IF s \in revisited \/ ended(s) THEN "failed" ELSE subState[s]]
  /\ closed' = [s \in Subs |-> closed[s] \/ s \in revisited \/ ended(s)]
  /\ registered' = {}
  /\ UNCHANGED <<generation, tasks, delays, held, failures, setting>>

EndClose ==
  /\ Undisturbed
  /\ lock = Closer
  /\ lock' = NoOne
  /\ state' = "closed"
  /\ reader' = "none" /\ writer' = "none" /\ heartbeat' = "none"
  /\ UNCHANGED <<generation, work, delays, subs, cancelItem, held, failures,
                 setting>>
------------------------------------------------------------------------------
ConnectStep(p) ==
  \/ ReturnReady(p) \/ RejectClosed(p) \/ BeginConnect(p)
  \/ TeardownConnection(p) \/ OpenSucceeds(p) \/ OpenFails(p)
  \/ HandshakeSucceeds(p) \/ HandshakeFails(p)

RestoreStep(p) == (\E s \in Subs : RestoreNext(p, s)) \/ RestoreEnd(p) \/ RestoreDone(p)

CallerStep(c) == OperationEnds(c) \/ (\E s \in Subs : Subscribe(c, s)) \/ SubscribeEnds(c)

Next ==
  \/ \E p \in Procs : ConnectStep(p) \/ RestoreStep(p) \/ ItemWritten(p)
  \/ \E c \in Callers : Call(c) \/ CallerStep(c) \/ CancelCaller(c) \/ CancelWaiting(c)
  \/ \E s \in Subs :
       CloseSubscription(s) \/ CloseSubscriptionEnds(s) \/ CancelWritten(s) \/ PeerEnds(s)
       \/ EarlyEvent(s)
  \/ \E isFatal, reconnect \in BOOLEAN : LoseConnection(isFatal, reconnect)
  \/ HeartbeatStarts \/ LoseWhileClosing \/ SupervisorWakes \/ BeginClose \/ EndClose

Spec == Init /\ [][Next]_vars

(***************************************************************************)
(* Runnable tasks run; opening, handshakes and writes end one way or the   *)
(* other; delays elapse; aclose, once begun, ends.                         *)
(***************************************************************************)
Fairness ==
  /\ \A p \in Procs : /\ WF_vars(ConnectStep(p))
                      /\ WF_vars(RestoreStep(p))
                      /\ WF_vars(ItemWritten(p))
  /\ \A c \in Callers : WF_vars(CallerStep(c))
  /\ \A s \in Subs : WF_vars(CancelWritten(s)) /\ WF_vars(CloseSubscriptionEnds(s))
  /\ WF_vars(SupervisorWakes) /\ WF_vars(EndClose)

FairSpec == Spec /\ Fairness
------------------------------------------------------------------------------
\* A READY connection has its reader and its writer, and its heartbeat if one is
\* configured, in every generation: no loss leaves a connection that admits writes
\* nobody will make, or one whose silence nobody notices.  It is so where the
\* handshake does not suspend; where it does, READY is assigned over a loss.
ReadyIsServed ==
  state = "ready" /\ ~setting.suspends =>
    /\ reader = "live" /\ writer = "live"
    /\ HasHeartbeat => heartbeat \in {"starting", "live"}

\* Once aclose() has ended nothing of a connection is left: no task, no route,
\* no supervisor, no task inside the connect lock.
ClosedIsReleased ==
  state = "closed" =>
    /\ ~Alive /\ registered = {} /\ lock = NoOne
    /\ pc[Supervisor] \in {"none"}
    /\ \A c \in Callers : pc[c] \notin {"teardown", "opening", "handshake"}

\* A client that is READY with no restoration under way has left no routed
\* subscription disconnected.
ReadyRestoresAll ==
  state = "ready" /\ (\A p \in Procs : pc[p] # "restore") =>
    \A s \in registered : subState[s] # "disconnected"

\* A subscription the application holds and has not seen end is routed: it can
\* still receive events or its terminal, unless the peer sends events for it before
\* it is restored.
OpenIsRouted == ~setting.early => \A s \in held : ~closed[s] => s \in registered

\* Whoever has called connect() or subscribe() is answered, and a routed subscription
\* that lost its connection is restored or ended while a supervisor has yet to
\* reconnect: no further loss, failed attempt or close strands a task on the lock or
\* on its frame, or a subscription between connections.  A loss that finds the
\* supervisor restoring starts none (_schedule_reconnect) and is left out, and so
\* are handshakes that suspend.
Lost(s) == s \in registered /\ subState[s] = "disconnected"
Awaited(s) == Lost(s) /\ pc[Supervisor] \notin {"none", "restore"}

NothingIsStranded ==
  /\ \A c \in Callers : pc[c] # "start" /\ ~setting.suspends ~> pc[c] = "done"
  /\ \A s \in Subs : Awaited(s) /\ ~setting.suspends ~> ~Lost(s)
==============================================================================
