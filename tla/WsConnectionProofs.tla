-------------------------- MODULE WsConnectionProofs --------------------------
(***************************************************************************)
(* Proofs about WsConnection, for any callers, subscriptions, settings and *)
(* number of connection losses.                                            *)
(***************************************************************************)
EXTENDS WsConnection, TLAPS

States ==
  {"idle", "connecting", "handshaking", "ready", "reconnecting", "failed", "closing", "closed"}
Steps ==
  {"none", "sleep", "start", "connect", "teardown", "opening", "handshake", "restore",
   "connected", "subscribing", "done"}
Waits == {"none", "open", "ok", "failed"}
SubStates == {"new", "active", "disconnected", "restoring"} \cup Terminal

TypeOK ==
  /\ state \in States
  /\ generation \in Nat /\ delays \in Nat /\ failures \in Nat
  /\ lock \in Procs \cup {Closer, NoOne}
  /\ reader \in {"none", "live", "done"} /\ writer \in {"none", "live", "done"}
  /\ heartbeat \in {"none", "starting", "live", "done"}
  /\ pc \in [Procs -> Steps]
  /\ item \in [Procs -> Waits]
  /\ todo \in [Procs -> SUBSET Subs]
  /\ cur \in [Procs -> Subs \cup {NoOne}]
  /\ subState \in [Subs -> SubStates]
  /\ closed \in [Subs -> BOOLEAN]
  /\ registered \in SUBSET Subs
  /\ cancelItem \in [Subs -> Waits]
  /\ held \in SUBSET Subs
  /\ setting \in Settings

\* A task waits for a frame exactly while it has a subscription in hand.
WaitsForOne == \A p \in Procs : item[p] = "none" <=> cur[p] = NoOne

TypeInv == TypeOK /\ WaitsForOne
------------------------------------------------------------------------------
\* The names of the tasks are not those of callers or subscriptions.
LEMMA Names ==
  /\ Supervisor \in Procs /\ Supervisor \notin Callers /\ Callers \subseteq Procs
  /\ Closer \notin Procs /\ NoOne \notin Procs /\ NoOne \notin Subs /\ Closer # NoOne
  BY NamesAssumption DEF Procs, Supervisor, Closer, NoOne

\* What the settings are.
LEMMA SettingIs ==
  ASSUME setting \in Settings
  PROVE  /\ Delays \in Nat /\ Retained \in SUBSET Subs
         /\ HasHeartbeat \in BOOLEAN /\ HasCancel \in BOOLEAN
  BY ConnectionAssumption DEF Delays, Retained, HasHeartbeat, HasCancel

\* Failing subscriptions keeps their types.
LEMMA FailSubsIs ==
  ASSUME TypeOK, NEW S, FailSubs(S)
  PROVE  /\ subState' \in [Subs -> SubStates] /\ closed' \in [Subs -> BOOLEAN]
         /\ \A s \in Subs : subState'[s] \in {subState[s], "failed"}
         /\ \A s \in Subs : closed[s] => closed'[s]
         /\ \A s \in Subs : s \in S => closed'[s] \/ subState[s] \in Terminal
         /\ \A s \in Subs : subState'[s] = subState[s] \/ closed'[s]
<1>1. ASSUME NEW s \in Subs
      PROVE  subState'[s] = IF s \in S /\ subState[s] \notin Terminal THEN "failed" ELSE subState[s]
  BY DEF FailSubs
<1>2. ASSUME NEW s \in Subs
      PROVE  closed'[s] = (closed[s] \/ (s \in S /\ subState[s] \notin Terminal))
  BY Zenon DEF FailSubs
<1>3. subState' \in [Subs -> SubStates]
  BY DEF FailSubs, TypeOK, SubStates, Terminal
<1>4. closed' \in [Subs -> BOOLEAN]
  BY Zenon DEF FailSubs
<1> QED
  BY <1>1, <1>2, <1>3, <1>4

\* Failing the frames that are waited for keeps their types.
LEMMA FailItemsIs ==
  ASSUME TypeInv, FailItems
  PROVE  /\ item' \in [Procs -> Waits] /\ cancelItem' \in [Subs -> Waits]
         /\ \A p \in Procs : item'[p] = "none" <=> item[p] = "none"
         /\ \A s \in Subs : cancelItem'[s] = "none" <=> cancelItem[s] = "none"
  BY DEF FailItems, TypeInv, TypeOK, Waits

\* Ending an attempt to connect without a connection keeps the types.
LEMMA RaisedIs ==
  ASSUME TypeOK, NEW p \in Procs, Raised(p)
  PROVE  /\ state' = "failed" /\ delays' \in Nat
         /\ subState' \in [Subs -> SubStates] /\ closed' \in [Subs -> BOOLEAN]
         /\ registered' \in SUBSET Subs
         /\ pc' = [pc EXCEPT ![p] = pc'[p]]
         /\ pc'[p] \in {"done", "sleep", "none"}
         /\ p # Supervisor => pc'[p] = "done"
         /\ p = Supervisor => pc'[p] # "done"
         /\ UNCHANGED subs \/ (FailSubs(registered) /\ registered' = {})
<1>t. /\ pc \in [Procs -> Steps] /\ delays \in Nat /\ registered \in SUBSET Subs
      /\ subState \in [Subs -> SubStates] /\ closed \in [Subs -> BOOLEAN]
  BY DEF TypeOK
<1>1. CASE p # Supervisor
  BY <1>t, <1>1 DEF Raised, Goto, subs
<1>2. CASE p = Supervisor /\ delays > 1
  BY <1>t, <1>2 DEF Raised, Goto, subs
<1>3. CASE p = Supervisor /\ ~(delays > 1)
  <2>1. ExhaustBudget /\ delays' = 0
    BY <1>3 DEF Raised
  <2>2. FailSubs(registered) /\ registered' = {} /\ state' = "failed"
        /\ pc' = [pc EXCEPT ![p] = "none"]
    BY <1>3, <2>1 DEF ExhaustBudget
  <2> QED
    BY <1>t, <1>3, <2>1, <2>2, FailSubsIs
<1> QED
  BY <1>1, <1>2, <1>3

\* Becoming READY keeps them, and restores if there is something to restore.
LEMMA ReadyIs ==
  ASSUME TypeOK, NEW p \in Procs, NEW gen \in Nat, Ready(p, gen)
  PROVE  /\ state' = "ready" /\ lock' = NoOne /\ pc' = [pc EXCEPT ![p] = pc'[p]]
         /\ pc'[p] \in {"none", "connected", "restore"}
         /\ todo' \in [Procs -> SUBSET Subs]
         /\ \A q \in Procs : q # p => todo'[q] = todo[q]
         /\ gen > 1 /\ registered # {} => pc'[p] = "restore" /\ todo'[p] = registered
<1>t. /\ pc \in [Procs -> Steps] /\ todo \in [Procs -> SUBSET Subs] /\ registered \in SUBSET Subs
  BY DEF TypeOK
<1>1. CASE gen > 1 /\ registered # {}
  BY <1>t, <1>1 DEF Ready, Goto
<1>2. CASE ~(gen > 1 /\ registered # {})
  BY <1>t, <1>2 DEF Ready, Goto, Returned
<1> QED
  BY <1>1, <1>2

\* Every step of connect() keeps the types.
LEMMA ConnectType ==
  ASSUME TypeInv, NEW p \in Procs, ConnectStep(p)
  PROVE  TypeInv'
<1> USE DEF TypeInv, TypeOK, WaitsForOne
<1>1. CASE ReturnReady(p) \/ RejectClosed(p) \/ BeginConnect(p) \/ TeardownConnection(p)
  <2>1. /\ UNCHANGED <<generation, item, todo, cur, delays, subs, cancelItem, held, failures,
                       setting>>
        /\ lock' \in {lock, p} /\ state' \in {state, "connecting"}
        /\ UNCHANGED tasks \/ (reader' = "none" /\ writer' = "none" /\ heartbeat' = "none")
        /\ \E x \in Steps : pc' = [pc EXCEPT ![p] = x]
    BY <1>1 DEF ReturnReady, RejectClosed, BeginConnect, TeardownConnection, Goto, Returned,
       Steps, tasks
  <2> QED
    BY <2>1 DEF subs, tasks, States
<1>2. CASE OpenFails(p) \/ HandshakeFails(p)
  <2>1. /\ Raised(p) /\ lock' = NoOne /\ UNCHANGED <<generation, todo, cur, held, failures, setting>>
        /\ UNCHANGED tasks \/ (reader' = "none" /\ writer' = "none" /\ heartbeat' = "none")
    BY <1>2 DEF OpenFails, HandshakeFails
  <2>2. UNCHANGED <<item, cancelItem>> \/ FailItems
    BY <1>2 DEF OpenFails, HandshakeFails, FailItems
  <2>3. /\ item' \in [Procs -> Waits] /\ cancelItem' \in [Subs -> Waits]
        /\ \A q \in Procs : item'[q] = "none" <=> item[q] = "none"
    BY <2>2, FailItemsIs
  <2>4. /\ state' = "failed" /\ delays' \in Nat
        /\ subState' \in [Subs -> SubStates] /\ closed' \in [Subs -> BOOLEAN]
        /\ registered' \in SUBSET Subs /\ pc' \in [Procs -> Steps]
    BY <2>1, RaisedIs DEF Steps
  <2> QED
    BY <2>1, <2>3, <2>4 DEF States, tasks
<1>3. CASE HandshakeSucceeds(p) \/ (OpenSucceeds(p) /\ ~setting.suspends)
  <2>1. /\ UNCHANGED <<item, cur, delays, subs, cancelItem, held, failures, setting>>
        /\ generation' \in {generation, generation + 1}
        /\ UNCHANGED tasks \/ (reader' = "live" /\ writer' = "live"
                               /\ heartbeat' \in {"starting", "none"})
        /\ Ready(p, generation')
    BY <1>3 DEF HandshakeSucceeds, OpenSucceeds
  <2>2. generation' \in Nat
    BY <2>1
  <2>3. /\ state' = "ready" /\ lock' = NoOne /\ pc' \in [Procs -> Steps]
        /\ todo' \in [Procs -> SUBSET Subs]
    BY <2>1, <2>2, ReadyIs DEF Steps
  <2> QED
    BY <2>1, <2>2, <2>3 DEF subs, tasks, States
<1>4. CASE OpenSucceeds(p) /\ setting.suspends
  <2>1. /\ UNCHANGED <<item, cur, delays, subs, cancelItem, held, failures, setting, lock, todo>>
        /\ generation' = generation + 1 /\ state' = "handshaking"
        /\ reader' = "live" /\ writer' = "live" /\ heartbeat' \in {"starting", "none"}
        /\ pc' = [pc EXCEPT ![p] = "handshake"]
    BY <1>4 DEF OpenSucceeds, Goto
  <2> QED
    BY <2>1 DEF subs, States, Steps
<1> HIDE DEF TypeInv
<1> QED
  BY <1>1, <1>2, <1>3, <1>4 DEF ConnectStep

\* Every step of a restoration keeps the types.
LEMMA RestoreType ==
  ASSUME TypeInv, NEW p \in Procs, RestoreStep(p)
  PROVE  TypeInv'
<1> USE DEF TypeInv, TypeOK, WaitsForOne
<1>1. ASSUME NEW s \in Subs, RestoreNext(p, s) PROVE TypeInv'
  <2>1. /\ UNCHANGED <<state, generation, lock, tasks, pc, delays, cancelItem, held, failures,
                       setting>>
        /\ todo' = [todo EXCEPT ![p] = @ \ {s}] /\ cur[p] = NoOne
    BY <1>1 DEF RestoreNext
  <2>2. \/ UNCHANGED <<subs, item, cur>>
        \/ /\ subState' = [subState EXCEPT ![s] = "restoring"] /\ UNCHANGED closed
           /\ registered' \in {registered, registered \cup {s}}
           /\ item' = [item EXCEPT ![p] = "open"] /\ cur' = [cur EXCEPT ![p] = s]
        \/ /\ subState' = [subState EXCEPT ![s] = "failed"]
           /\ closed' = [closed EXCEPT ![s] = TRUE]
           /\ registered' = registered \ {s} /\ UNCHANGED <<item, cur>>
    BY <1>1 DEF RestoreNext
  <2>3. CASE UNCHANGED <<subs, item, cur>>
    BY <2>1, <2>3 DEF subs, tasks
  <2>4. CASE /\ subState' = [subState EXCEPT ![s] = "restoring"] /\ UNCHANGED closed
             /\ registered' \in {registered, registered \cup {s}}
             /\ item' = [item EXCEPT ![p] = "open"] /\ cur' = [cur EXCEPT ![p] = s]
    BY <2>1, <2>4, Names DEF tasks, SubStates, Waits
  <2>5. CASE /\ subState' = [subState EXCEPT ![s] = "failed"]
             /\ closed' = [closed EXCEPT ![s] = TRUE]
             /\ registered' = registered \ {s} /\ UNCHANGED <<item, cur>>
    <3>1. closed' \in [Subs -> BOOLEAN]
      BY <2>5, Zenon
    <3> QED
      BY <2>1, <2>5, <3>1 DEF tasks, SubStates, Terminal
  <2> QED
    BY <2>2, <2>3, <2>4, <2>5
<1>2. CASE RestoreEnd(p)
  <2>1. /\ UNCHANGED <<state, generation, lock, tasks, pc, todo, delays, cancelItem, held,
                       failures, setting>>
        /\ item' = [item EXCEPT ![p] = "none"] /\ cur' = [cur EXCEPT ![p] = NoOne]
    BY <1>2 DEF RestoreEnd
  <2>2. \/ /\ UNCHANGED <<closed, registered>>
           /\ subState' = [subState EXCEPT ![cur[p]] = IF closed[cur[p]] THEN @ ELSE "active"]
        \/ FailSubs({cur[p]}) /\ registered' = registered \ {cur[p]}
    BY <1>2 DEF RestoreEnd
  <2>3. /\ subState' \in [Subs -> SubStates] /\ closed' \in [Subs -> BOOLEAN]
        /\ registered' \in SUBSET Subs
    BY <2>2, FailSubsIs DEF SubStates
  <2> QED
    BY <2>1, <2>3 DEF tasks, Waits
<1>3. CASE RestoreDone(p)
  <2>1. /\ UNCHANGED <<state, generation, lock, tasks, item, todo, cur, delays, subs,
                       cancelItem, held, failures, setting>>
        /\ \E x \in Steps : pc' = [pc EXCEPT ![p] = x]
    BY <1>3 DEF RestoreDone, Returned, Goto, Steps
  <2> QED
    BY <2>1 DEF tasks, subs
<1> HIDE DEF TypeInv
<1> QED
  BY <1>1, <1>2, <1>3 DEF RestoreStep

\* Every step of a caller, but those of its connect(), keeps the types.
LEMMA CallerType ==
  ASSUME TypeInv, NEW c \in Callers, Call(c) \/ CallerStep(c) \/ CancelCaller(c) \/ CancelWaiting(c)
  PROVE  TypeInv'
<1> USE DEF TypeInv, TypeOK, WaitsForOne
<1>c. c \in Procs
  BY Names
<1>1. CASE Call(c) \/ OperationEnds(c) \/ CancelCaller(c)
  <2>1. /\ UNCHANGED <<state, generation, tasks, item, todo, cur, delays, subs,
                       cancelItem, held, failures, setting>>
        /\ lock' \in {lock, NoOne}
        /\ \E x \in Steps : pc' = [pc EXCEPT ![c] = x]
    BY <1>1 DEF Call, OperationEnds, CancelCaller, Goto, Steps
  <2> QED
    BY <1>c, <2>1 DEF tasks, subs
<1>2. ASSUME NEW s \in Subs, Subscribe(c, s) PROVE TypeInv'
  <2>1. /\ UNCHANGED <<state, generation, lock, tasks, todo, delays, closed, cancelItem, held,
                       failures, setting>>
        /\ \/ UNCHANGED <<subState, registered, item, cur>>
           \/ /\ subState' = [subState EXCEPT ![s] = "active"]
              /\ registered' = registered \cup {s}
              /\ item' = [item EXCEPT ![c] = "open"] /\ cur' = [cur EXCEPT ![c] = s]
        /\ \E x \in Steps : pc' = [pc EXCEPT ![c] = x]
    BY <1>2 DEF Subscribe, Goto, Steps
  <2> QED
    BY <1>c, <2>1, Names DEF tasks, SubStates, Waits
<1>3. CASE SubscribeEnds(c)
  <2>1. /\ UNCHANGED <<state, generation, lock, tasks, todo, delays, subState, closed,
                       cancelItem, failures, setting>>
        /\ item[c] \in {"ok", "failed"}
        /\ held' \in {held, held \cup {cur[c]}} /\ registered' \in {registered, registered \ {cur[c]}}
        /\ item' = [item EXCEPT ![c] = "none"] /\ cur' = [cur EXCEPT ![c] = NoOne]
        /\ \E x \in Steps : pc' = [pc EXCEPT ![c] = x]
    BY <1>3 DEF SubscribeEnds, Goto, Steps
  <2>2. cur[c] \in Subs
    BY <1>c, <2>1
  <2> QED
    BY <1>c, <2>1, <2>2 DEF tasks, Waits
<1>4. CASE CancelWaiting(c)
  <2>1. /\ UNCHANGED <<state, generation, lock, tasks, pc, todo, cur, delays, subs,
                       cancelItem, held, failures, setting>>
        /\ item[c] = "open" /\ item' = [item EXCEPT ![c] = "failed"]
    BY <1>4 DEF CancelWaiting
  <2> QED
    BY <1>c, <2>1 DEF tasks, subs, Waits
<1> HIDE DEF TypeInv
<1> QED
  BY <1>1, <1>2, <1>3, <1>4 DEF CallerStep

\* Every step of a subscription, and of the writer, keeps the types.
LEMMA SubType ==
  ASSUME TypeInv, NEW s \in Subs,
         \/ CloseSubscription(s) \/ CloseSubscriptionEnds(s) \/ CancelWritten(s)
         \/ PeerEnds(s) \/ EarlyEvent(s)
  PROVE  TypeInv'
<1> USE DEF TypeInv, TypeOK, WaitsForOne
<1>1. /\ UNCHANGED <<state, generation, lock, tasks, work, delays, held, failures, setting>>
  BY DEF CloseSubscription, CloseSubscriptionEnds, CancelWritten, PeerEnds, EarlyEvent
<1>2. /\ registered' \in SUBSET Subs /\ cancelItem' \in [Subs -> Waits]
  BY DEF CloseSubscription, CloseSubscriptionEnds, CancelWritten, PeerEnds, EarlyEvent, Waits, subs
<1>3. subState' \in [Subs -> SubStates]
  <2>1. FailSubs({s}) => subState' \in [Subs -> SubStates]
    BY FailSubsIs
  <2> QED
    BY <2>1 DEF CloseSubscription, CloseSubscriptionEnds, CancelWritten, PeerEnds, EarlyEvent,
       SubStates, Terminal, subs
<1>4. closed' \in [Subs -> BOOLEAN]
  <2>1. FailSubs({s}) => closed' \in [Subs -> BOOLEAN]
    BY FailSubsIs
  <2>2. closed' = [closed EXCEPT ![s] = TRUE] => closed' \in [Subs -> BOOLEAN]
    BY Zenon
  <2>3. closed' = closed \/ closed' = [closed EXCEPT ![s] = TRUE] \/ FailSubs({s})
    BY DEF CloseSubscription, CloseSubscriptionEnds, CancelWritten, PeerEnds, EarlyEvent, subs
  <2> QED
    BY <2>1, <2>2, <2>3
<1> QED
  BY <1>1, <1>2, <1>3, <1>4 DEF tasks, work

\* A loss keeps them.
LEMMA LoseIs ==
  ASSUME TypeInv, NEW isFatal \in BOOLEAN, NEW reconnect \in BOOLEAN,
         LoseConnection(isFatal, reconnect)
  PROVE  /\ TypeInv'
         /\ state' \in {"failed", "reconnecting", "idle"} /\ state \notin Stopped
         /\ registered' \subseteq registered \cap Retained
         /\ \A s \in Subs : closed[s] \/ s \in registered \ registered' => closed'[s]
         /\ \A s \in Subs : /\ subState'[s] \in {subState[s], "disconnected", "failed"}
                            /\ s \notin registered' => subState'[s] \in {subState[s], "failed"}
                            /\ subState'[s] = subState[s] \/ closed'[s]
                               \/ subState'[s] = "disconnected"
         /\ \A p \in Procs : pc'[p] = pc[p]
                             \/ (p = Supervisor /\ pc[p] = "none" /\ pc'[p] = "sleep")
         /\ \A s \in Subs : cancelItem'[s] = "none" <=> cancelItem[s] = "none"
         /\ UNCHANGED <<generation, lock, todo, cur, held, setting>>
<1> DEFINE kept == Survivors(isFatal, reconnect)
<1> USE DEF TypeInv, TypeOK
<1>1. /\ state' = FailureState(isFatal, reconnect) /\ state \notin Stopped
      /\ FailItems /\ registered' = kept /\ failures' = failures + 1
      /\ subState' = [s \in Subs |->
           IF s \notin registered \/ (closed[s] /\ s \in kept) THEN subState[s]
           ELSE IF s \in kept THEN "disconnected"
           ELSE IF subState[s] \in Terminal THEN subState[s] ELSE "failed"]
      /\ closed' = [s \in Subs |-> closed[s] \/ s \in registered \ kept]
      /\ reader' = "done" /\ writer' = "done" /\ heartbeat' \in {"none", "done"}
      /\ UNCHANGED <<generation, lock, todo, cur, held, setting>>
  BY DEF LoseConnection
<1>2. \/ /\ pc[Supervisor] = "none" /\ pc' = [pc EXCEPT ![Supervisor] = "sleep"]
         /\ delays' = Delays
      \/ UNCHANGED <<pc, delays>>
  BY DEF LoseConnection, Goto
<1>3. kept \subseteq registered \cap Retained
  BY DEF Survivors
<1>4. state' \in {"failed", "reconnecting", "idle"}
  BY <1>1 DEF FailureState
<1>5. pc' \in [Procs -> Steps] /\ delays' \in Nat
  BY <1>2, SettingIs DEF Steps
<1> HIDE DEF kept
<1>6. closed' \in [Subs -> BOOLEAN]
  BY <1>1, Zenon
<1>7. \A s \in Subs : closed'[s] = (closed[s] \/ s \in registered \ kept)
  BY <1>1, Zenon
<1>8. subState' \in [Subs -> SubStates]
  BY <1>1 DEF SubStates, Terminal
<1>9. \A s \in Subs :
        /\ subState'[s] \in {subState[s], "disconnected", "failed"}
        /\ s \notin kept => subState'[s] \in {subState[s], "failed"}
        /\ subState'[s] = subState[s] \/ s \in registered \ kept \/ subState'[s] = "disconnected"
  BY <1>1
<1>10. /\ item' \in [Procs -> Waits] /\ cancelItem' \in [Subs -> Waits]
       /\ \A p \in Procs : item'[p] = "none" <=> item[p] = "none"
       /\ \A s \in Subs : cancelItem'[s] = "none" <=> cancelItem[s] = "none"
  BY <1>1, FailItemsIs
<1>11. TypeInv'
  BY <1>1, <1>3, <1>4, <1>5, <1>6, <1>8, <1>10 DEF WaitsForOne, States
<1>12. \A p \in Procs : pc'[p] = pc[p] \/ (p = Supervisor /\ pc[p] = "none" /\ pc'[p] = "sleep")
  BY <1>2, Names
<1> HIDE DEF TypeInv, TypeOK
<1> QED
  BY <1>1, <1>3, <1>4, <1>7, <1>9, <1>10, <1>11, <1>12

\* Closing the client ends its subscriptions, and keeps the types.
LEMMA CloseIs ==
  ASSUME TypeInv, BeginClose
  PROVE  /\ TypeInv'
         /\ lock = NoOne /\ lock' = Closer /\ state' = "closing" /\ registered' = {}
         /\ pc' = [pc EXCEPT ![Supervisor] = "none"]
         /\ \A s \in Subs : closed[s] => closed'[s]
         /\ \A s \in registered : closed'[s] \/ subState[s] \in Terminal
         /\ \A s \in Subs : subState'[s] = subState[s] \/ (subState'[s] = "failed" /\ closed'[s])
         /\ \A s \in Subs : cancelItem'[s] = "none" <=> cancelItem[s] = "none"
         /\ \A p \in Procs : p # Supervisor => cur'[p] = cur[p] /\ todo'[p] = todo[p]
         /\ UNCHANGED <<generation, tasks, held, setting>>
<1> DEFINE ended(s) == s \in registered \cup {cur[Supervisor]} /\ subState[s] \notin Terminal
           revisited == todo[Supervisor] \cap Retained
<1> USE DEF TypeInv, TypeOK
<1>1. /\ lock = NoOne /\ lock' = Closer /\ state' = "closing" /\ registered' = {}
      /\ pc' = [pc EXCEPT ![Supervisor] = "none"]
      /\ todo' = [todo EXCEPT ![Supervisor] = {}]
      /\ cur' = [cur EXCEPT ![Supervisor] = NoOne]
      /\ item' = [p \in Procs |-> IF p = Supervisor THEN "none"
                                  ELSE IF item[p] = "open" THEN "failed" ELSE item[p]]
      /\ cancelItem' = [s \in Subs |-> IF cancelItem[s] = "open" THEN "failed" ELSE cancelItem[s]]
      /\ UNCHANGED <<generation, tasks, delays, held, failures, setting>>
  BY DEF BeginClose
<1>2. /\ subState' = [s \in Subs |-> IF s \in revisited \/ ended(s) THEN "failed" ELSE subState[s]]
      /\ closed' = [s \in Subs |-> closed[s] \/ s \in revisited \/ ended(s)]
  BY DEF BeginClose
<1> HIDE DEF revisited
<1>3. /\ \A s \in Subs : closed'[s] = (closed[s] \/ s \in revisited \/ ended(s))
      /\ closed' \in [Subs -> BOOLEAN]
  BY <1>2, Zenon
<1>4. \A s \in Subs : ended(s) <=> s \in registered \cup {cur[Supervisor]} /\ subState[s] \notin Terminal
  OBVIOUS
<1> HIDE DEF ended
<1>5. /\ subState' \in [Subs -> SubStates]
      /\ \A s \in Subs : subState'[s] = subState[s]
                         \/ (subState'[s] = "failed" /\ (s \in revisited \/ ended(s)))
  BY <1>2 DEF SubStates, Terminal
<1>6. /\ item' \in [Procs -> Waits] /\ cancelItem' \in [Subs -> Waits]
      /\ item'[Supervisor] = "none"
      /\ \A p \in Procs \ {Supervisor} : item'[p] = "none" <=> item[p] = "none"
      /\ \A s \in Subs : cancelItem'[s] = "none" <=> cancelItem[s] = "none"
  BY <1>1, Names DEF Waits
<1>7. /\ todo' \in [Procs -> SUBSET Subs] /\ cur' \in [Procs -> Subs \cup {NoOne}]
      /\ pc' \in [Procs -> Steps] /\ cur'[Supervisor] = NoOne
      /\ \A p \in Procs : p # Supervisor => cur'[p] = cur[p] /\ todo'[p] = todo[p]
  BY <1>1, Names DEF Steps
<1>8. WaitsForOne'
  BY <1>6, <1>7 DEF WaitsForOne
<1>9. TypeInv'
  BY <1>1, <1>3, <1>5, <1>6, <1>7, <1>8 DEF States, tasks
<1>10. \A s \in registered : closed'[s] \/ subState[s] \in Terminal
  BY <1>3, <1>4
<1> HIDE DEF TypeInv, TypeOK
<1> QED
  BY <1>1, <1>3, <1>5, <1>6, <1>7, <1>9, <1>10

\* The other steps of the connection keep the types.
LEMMA ConnectionType ==
  ASSUME TypeInv,
         \/ \E p \in Procs : ItemWritten(p)
         \/ HeartbeatStarts \/ LoseWhileClosing \/ SupervisorWakes \/ EndClose
  PROVE  TypeInv'
<1> USE DEF TypeInv, TypeOK, WaitsForOne
<1>1. ASSUME NEW p \in Procs, ItemWritten(p) PROVE TypeInv'
  BY <1>1 DEF ItemWritten, tasks, subs, Waits
<1>2. CASE HeartbeatStarts \/ LoseWhileClosing
  <2>1. /\ UNCHANGED <<state, generation, lock, writer, work, delays, subs, cancelItem, held,
                       failures, setting>>
        /\ reader' \in {reader, "done"} /\ heartbeat' \in {heartbeat, "live", "done"}
    BY <1>2 DEF HeartbeatStarts, LoseWhileClosing
  <2> QED
    BY <2>1 DEF work, subs
<1>3. CASE SupervisorWakes
  <2>1. /\ UNCHANGED <<state, generation, lock, tasks, item, todo, cur, delays, subs,
                       cancelItem, held, failures, setting>>
        /\ \E x \in Steps : pc' = [pc EXCEPT ![Supervisor] = x]
    BY <1>3 DEF SupervisorWakes, Goto, Steps
  <2> QED
    BY <2>1, Names DEF tasks, subs
<1>4. CASE EndClose
  BY <1>4 DEF EndClose, work, subs, States
<1> QED
  BY <1>1, <1>2, <1>3, <1>4

\* Every step is of one of these kinds.
LEMMA StepIs ==
  ASSUME [Next]_vars
  PROVE  \/ \E p \in Procs : ConnectStep(p) \/ RestoreStep(p) \/ ItemWritten(p)
         \/ \E c \in Callers : Call(c) \/ CallerStep(c) \/ CancelCaller(c) \/ CancelWaiting(c)
         \/ \E s \in Subs : CloseSubscription(s) \/ CloseSubscriptionEnds(s) \/ CancelWritten(s)
                            \/ PeerEnds(s) \/ EarlyEvent(s)
         \/ \E isFatal \in BOOLEAN, reconnect \in BOOLEAN : LoseConnection(isFatal, reconnect)
         \/ HeartbeatStarts \/ LoseWhileClosing \/ SupervisorWakes \/ BeginClose \/ EndClose
         \/ UNCHANGED vars
  BY DEF Next

\* Every step keeps the types.
LEMMA TypeStep == TypeInv /\ [Next]_vars => TypeInv'
<1> SUFFICES ASSUME TypeInv, [Next]_vars PROVE TypeInv'
  OBVIOUS
<1>1. CASE UNCHANGED vars
  BY <1>1 DEF vars, tasks, work, subs, TypeInv, TypeOK, WaitsForOne
<1> QED
  BY <1>1, ConnectType, RestoreType, CallerType, SubType, LoseIs, CloseIs, ConnectionType, StepIs

\* The initial states have them.
LEMMA TypeInit == Init => TypeInv
<1> SUFFICES ASSUME Init PROVE TypeInv
  OBVIOUS
<1>1. TypeOK
  BY Names DEF Init, TypeOK, States, Steps, Waits, SubStates
<1>2. WaitsForOne
  BY DEF Init, WaitsForOne
<1> QED
  BY <1>1, <1>2 DEF TypeInv

\* Every value of the model has its type in every reachable state, and a task waits for a
\* frame exactly while it has a subscription in hand.
THEOREM TypeCorrect == Spec => []TypeInv
  BY TypeInit, TypeStep, PTL DEF Spec
------------------------------------------------------------------------------
(***************************************************************************)
(* The lock, and what aclose() leaves                                      *)
(***************************************************************************)

\* Where a task holds the connect lock.
LockSteps == {"teardown", "opening", "handshake"}

\* Whoever connects has the lock, and the connection is not READY meanwhile; so has
\* aclose(), and then nothing is routed and the supervisor is gone.
LockInv ==
  /\ \A p \in Procs : pc[p] \in LockSteps => lock = p /\ state # "ready"
  /\ lock = Closer <=> state = "closing"
  /\ state = "closed" => lock = NoOne /\ ~Alive
  /\ state \in Stopped => registered = {} /\ pc[Supervisor] = "none"

\* A step that takes no lock, and while the client is stopped routes nothing and wakes
\* nobody, keeps it.
LEMMA LockFrame ==
  ASSUME TypeInv, LockInv, UNCHANGED lock,
         \/ UNCHANGED state
         \/ state' \in {"failed", "reconnecting", "idle"} /\ state \notin Stopped,
         \A p \in Procs : pc'[p] \in LockSteps => pc[p] = pc'[p],
         state \in Stopped => registered' \subseteq registered /\ pc'[Supervisor] = pc[Supervisor],
         state = "closed" => ~Alive'
  PROVE  LockInv'
<1>1. \A p \in Procs : pc'[p] \in LockSteps => lock' = p /\ state' # "ready"
  BY DEF LockInv
<1>2. lock' = Closer <=> state' = "closing"
  BY DEF LockInv, Stopped
<1>3. state' = "closed" => lock' = NoOne /\ ~Alive'
  BY DEF LockInv, Stopped
<1>4. state' \in Stopped => registered' = {} /\ pc'[Supervisor] = "none"
  BY DEF LockInv, Stopped
<1> QED
  BY <1>1, <1>2, <1>3, <1>4 DEF LockInv

\* connect() keeps it.
LEMMA LockConnects ==
  ASSUME TypeInv, LockInv, NEW p \in Procs, ConnectStep(p)
  PROVE  LockInv'
<1>t. /\ pc \in [Procs -> Steps] /\ p # Closer /\ p # NoOne /\ Closer # NoOne
      /\ Supervisor \in Procs
  BY Names DEF TypeInv, TypeOK
<1>1. CASE ReturnReady(p) \/ RejectClosed(p)
  <2>1. /\ UNCHANGED <<state, lock, tasks, subs>>
        /\ pc' = [pc EXCEPT ![p] = pc'[p]] /\ pc'[p] \in {"none", "connected", "done"}
        /\ p = Supervisor /\ state \in Stopped => pc'[p] = "none"
    BY <1>1, <1>t DEF ReturnReady, RejectClosed, Goto, Returned, Stopped
  <2>2. /\ \A q \in Procs : pc'[q] \in LockSteps => pc[q] = pc'[q]
        /\ state \in Stopped => pc'[Supervisor] = pc[Supervisor]
    BY <1>t, <2>1 DEF LockSteps, LockInv
  <2>3. state = "closed" => ~Alive'
    BY <2>1 DEF LockInv, Alive, tasks
  <2> QED
    BY <2>1, <2>2, <2>3, LockFrame DEF subs
<1>2. CASE BeginConnect(p)
  <2>1. /\ lock = NoOne /\ lock' = p /\ state \notin Stopped \cup {"ready"} /\ UNCHANGED state
        /\ pc' = [pc EXCEPT ![p] = "teardown"]
    BY <1>2 DEF BeginConnect, Goto
  <2>2. \A q \in Procs : pc[q] \notin LockSteps
    BY <1>t, <2>1, Names DEF LockInv
  <2>3. state' # "closing" /\ state' # "closed" /\ state' # "ready" /\ state' \notin Stopped
    BY <2>1 DEF Stopped
  <2>4. \A q \in Procs : pc'[q] \in LockSteps => q = p
    BY <1>t, <2>1, <2>2
  <2> QED
    BY <1>t, <2>1, <2>3, <2>4 DEF LockInv
<1>3. CASE ~(ReturnReady(p) \/ RejectClosed(p) \/ BeginConnect(p))
  <2>1. pc[p] \in LockSteps
    BY <1>3 DEF ConnectStep, TeardownConnection, OpenSucceeds, OpenFails, HandshakeSucceeds,
       HandshakeFails, LockSteps
  <2>2. /\ lock = p /\ state \notin Stopped
        /\ \A q \in Procs : q # p => pc[q] \notin LockSteps
    BY <1>t, <2>1 DEF LockInv, Stopped
  <2>3. /\ lock' \in {p, NoOne} /\ state' \notin Stopped
        /\ pc' = [pc EXCEPT ![p] = pc'[p]]
        /\ pc'[p] \in LockSteps => lock' = p /\ state' # "ready"
    <3>1. CASE TeardownConnection(p)
      BY <1>t, <2>2, <3>1 DEF TeardownConnection, Goto, Stopped
    <3>2. CASE OpenFails(p) \/ HandshakeFails(p)
      <4>1. Raised(p) /\ lock' = NoOne
        BY <3>2 DEF OpenFails, HandshakeFails
      <4>2. /\ state' = "failed" /\ pc' = [pc EXCEPT ![p] = pc'[p]]
            /\ pc'[p] \in {"done", "sleep", "none"}
        BY <4>1, RaisedIs DEF TypeInv
      <4> QED
        BY <4>1, <4>2 DEF Stopped, LockSteps
    <3>3. CASE HandshakeSucceeds(p) \/ (OpenSucceeds(p) /\ ~setting.suspends)
      <4>1. Ready(p, generation') /\ generation' \in Nat
        BY <3>3 DEF HandshakeSucceeds, OpenSucceeds, TypeInv, TypeOK
      <4>2. /\ state' = "ready" /\ lock' = NoOne /\ pc' = [pc EXCEPT ![p] = pc'[p]]
            /\ pc'[p] \in {"none", "connected", "restore"}
        BY <4>1, ReadyIs DEF TypeInv
      <4> QED
        BY <4>2 DEF Stopped, LockSteps
    <3>4. CASE OpenSucceeds(p) /\ setting.suspends
      BY <1>t, <2>2, <3>4 DEF OpenSucceeds, Goto, Stopped
    <3> QED
      BY <1>3, <3>1, <3>2, <3>3, <3>4 DEF ConnectStep
  <2>4. \A q \in Procs : pc'[q] \in LockSteps => q = p
    BY <1>t, <2>2, <2>3
  <2> QED
    BY <1>t, <2>3, <2>4 DEF LockInv, Stopped
<1> QED
  BY <1>1, <1>2, <1>3

\* Every step keeps it.
LEMMA LockStep == TypeInv /\ LockInv /\ [Next]_vars => LockInv'
<1> SUFFICES ASSUME TypeInv, LockInv, [Next]_vars PROVE LockInv'
  OBVIOUS
<1>t. pc \in [Procs -> Steps] /\ registered \in SUBSET Subs
  BY DEF TypeInv, TypeOK
<1>a. UNCHANGED tasks => (Alive' <=> Alive)
  BY DEF Alive, tasks
<1>1. ASSUME NEW p \in Procs, RestoreStep(p) PROVE LockInv'
  <2>1. /\ UNCHANGED <<state, lock, tasks>>
        /\ UNCHANGED pc \/ (pc[p] = "restore" /\ pc' = [pc EXCEPT ![p] = pc'[p]]
                            /\ pc'[p] \in {"none", "connected"})
        /\ state \in Stopped => registered' \subseteq registered
    BY <1>1, <1>t DEF RestoreStep, RestoreNext, RestoreEnd, RestoreDone, Returned, Goto, Stopped,
       subs
  <2>2. /\ \A q \in Procs : pc'[q] \in LockSteps => pc[q] = pc'[q]
        /\ state \in Stopped => pc'[Supervisor] = pc[Supervisor]
    BY <1>t, <2>1, Names DEF LockSteps, LockInv
  <2> QED
    BY <1>a, <2>1, <2>2, LockFrame DEF LockInv
<1>2. ASSUME NEW c \in Callers, Call(c) \/ CallerStep(c) \/ CancelWaiting(c) PROVE LockInv'
  <2>1. /\ UNCHANGED <<state, lock, tasks>>
        /\ UNCHANGED pc \/ (\E x \in {"connect", "done", "subscribing"} : pc' = [pc EXCEPT ![c] = x])
        /\ state \in Stopped => registered' \subseteq registered
    BY <1>2, <1>t DEF Call, CallerStep, OperationEnds, Subscribe, SubscribeEnds, CancelWaiting,
       Goto, Stopped, subs
  <2>2. /\ \A q \in Procs : pc'[q] \in LockSteps => pc[q] = pc'[q]
        /\ pc'[Supervisor] = pc[Supervisor]
    BY <1>t, <2>1, Names DEF LockSteps
  <2> QED
    BY <1>a, <2>1, <2>2, LockFrame DEF LockInv
<1>3. ASSUME NEW c \in Callers, CancelCaller(c) PROVE LockInv'
  <2>1. /\ UNCHANGED <<state, tasks, registered>>
        /\ lock' = IF lock = c THEN NoOne ELSE lock
        /\ pc' = [pc EXCEPT ![c] = "done"] /\ pc[c] # "done"
    BY <1>3 DEF CancelCaller, Goto, subs
  <2>2. /\ \A q \in Procs : pc'[q] \in LockSteps => pc[q] = pc'[q] /\ q # c
        /\ pc'[Supervisor] = pc[Supervisor]
    BY <1>t, <2>1, Names DEF LockSteps
  <2>3. \A q \in Procs : pc'[q] \in LockSteps => lock' = q /\ state' # "ready"
    BY <2>1, <2>2 DEF LockInv
  <2>4. lock' = Closer <=> state' = "closing"
    BY <2>1, Names DEF LockInv
  <2> QED
    BY <1>a, <2>1, <2>2, <2>3, <2>4 DEF LockInv
<1>4. ASSUME NEW s \in Subs,
             \/ CloseSubscription(s) \/ CloseSubscriptionEnds(s) \/ CancelWritten(s)
             \/ PeerEnds(s) \/ EarlyEvent(s)
      PROVE  LockInv'
  <2>1. UNCHANGED <<state, lock, tasks, pc>> /\ registered' \subseteq registered
    BY <1>4 DEF CloseSubscription, CloseSubscriptionEnds, CancelWritten, PeerEnds, EarlyEvent,
       work, subs
  <2> QED
    BY <1>a, <2>1, LockFrame DEF LockInv
<1>5. ASSUME NEW isFatal \in BOOLEAN, NEW reconnect \in BOOLEAN, LoseConnection(isFatal, reconnect)
      PROVE  LockInv'
  <2>1. /\ state' \in {"failed", "reconnecting", "idle"} /\ state \notin Stopped /\ UNCHANGED lock
        /\ \A p \in Procs : pc'[p] = pc[p] \/ pc'[p] = "sleep"
    BY <1>5, LoseIs
  <2>2. \A q \in Procs : pc'[q] \in LockSteps => pc[q] = pc'[q]
    BY <2>1 DEF LockSteps
  <2>3. state # "closed"
    BY <2>1 DEF Stopped
  <2> QED
    BY <2>1, <2>2, <2>3, LockFrame
<1>6. CASE (\E p \in Procs : ItemWritten(p)) \/ HeartbeatStarts \/ LoseWhileClosing
  <2>1. UNCHANGED <<state, lock, pc, registered>>
    BY <1>6 DEF ItemWritten, HeartbeatStarts, LoseWhileClosing, work, subs
  <2>2. state = "closed" => ~Alive'
    BY <1>6 DEF ItemWritten, HeartbeatStarts, LoseWhileClosing, LockInv, Alive, tasks
  <2> QED
    BY <2>1, <2>2, LockFrame
<1>7. CASE SupervisorWakes
  <2>1. /\ UNCHANGED <<state, lock, tasks, subs>> /\ pc[Supervisor] = "sleep"
        /\ \E x \in {"none", "connect"} : pc' = [pc EXCEPT ![Supervisor] = x]
    BY <1>7 DEF SupervisorWakes, Goto
  <2>2. state \notin Stopped
    BY <2>1 DEF LockInv
  <2>3. \A q \in Procs : pc'[q] \in LockSteps => pc[q] = pc'[q]
    BY <1>t, <2>1, Names DEF LockSteps
  <2> QED
    BY <1>a, <2>1, <2>2, <2>3, LockFrame DEF LockInv, subs, Stopped
<1>8. CASE BeginClose
  <2>1. /\ lock = NoOne /\ lock' = Closer /\ state' = "closing" /\ registered' = {}
        /\ pc' = [pc EXCEPT ![Supervisor] = "none"]
    BY <1>8, CloseIs
  <2>2. \A q \in Procs : pc[q] \notin LockSteps
    BY <2>1, Names DEF LockInv
  <2>3. pc'[Supervisor] = "none" /\ \A q \in Procs : pc'[q] \notin LockSteps
    BY <1>t, <2>1, <2>2, Names DEF LockSteps
  <2> QED
    BY <2>1, <2>3 DEF LockInv
<1>9. CASE EndClose
  <2>1. /\ lock = Closer /\ lock' = NoOne /\ state' = "closed" /\ ~Alive'
        /\ UNCHANGED <<pc, registered>>
    BY <1>9 DEF EndClose, work, subs, Alive
  <2>2. state = "closing" /\ \A q \in Procs : pc[q] \notin LockSteps
    BY <2>1, Names DEF LockInv
  <2> QED
    BY <2>1, <2>2, Names DEF LockInv, Stopped
<1>10. CASE UNCHANGED vars
  BY <1>a, <1>10 DEF vars, work, subs, LockInv
<1> QED
  BY <1>1, <1>2, <1>3, <1>4, <1>5, <1>6, <1>7, <1>8, <1>9, <1>10, LockConnects, StepIs

\* The lock is held as it should be in every reachable state.
LEMMA LockHolds == Spec => [](TypeInv /\ LockInv)
<1>1. Init => TypeInv /\ LockInv
  <2>1. Init => LockInv
    BY Names DEF Init, LockInv, LockSteps, Stopped
  <2> QED
    BY <2>1, TypeInit
<1> QED
  BY <1>1, TypeStep, LockStep, PTL DEF Spec

\* Once aclose() has ended nothing of a connection is left: no task, no route, no supervisor,
\* nobody inside the connect lock, whatever was connecting, restoring or failing when it began.
THEOREM CloseReleases == Spec => []ClosedIsReleased
<1>1. TypeInv /\ LockInv => ClosedIsReleased
  <2> SUFFICES ASSUME TypeInv, LockInv, state = "closed" PROVE ClosedIsReleased
    BY DEF ClosedIsReleased
  <2>1. \A c \in Callers : pc[c] \notin LockSteps
    BY Names DEF LockInv
  <2> QED
    BY <2>1 DEF LockInv, ClosedIsReleased, Stopped, LockSteps
<1> QED
  BY <1>1, LockHolds, PTL
------------------------------------------------------------------------------
(***************************************************************************)
(* A READY connection has its tasks                                        *)
(***************************************************************************)

\* Where the handshake does not suspend there is no task in it.
NoHandshake == ~setting.suspends => \A p \in Procs : pc[p] # "handshake"

ServedInv == ReadyIsServed /\ NoHandshake

\* Every step keeps the connection served.
LEMMA ServedStep == TypeInv /\ ServedInv /\ [Next]_vars => ServedInv'
<1> SUFFICES ASSUME TypeInv, ServedInv, [Next]_vars PROVE ServedInv'
  OBVIOUS
<1>t. pc \in [Procs -> Steps] /\ Supervisor \in Procs /\ Callers \subseteq Procs
  BY Names DEF TypeInv, TypeOK
<1>k. ASSUME UNCHANGED <<setting, tasks>>, state' = "ready" => state = "ready"
      PROVE  ReadyIsServed'
  BY <1>k DEF ServedInv, ReadyIsServed, HasHeartbeat, tasks
<1>n. ASSUME UNCHANGED setting, NEW p \in Procs, pc' = [pc EXCEPT ![p] = pc'[p]],
             ~setting.suspends => pc'[p] # "handshake"
      PROVE  NoHandshake'
  BY <1>t, <1>n DEF ServedInv, NoHandshake
<1>u. ASSUME UNCHANGED <<setting, pc>> PROVE NoHandshake'
  BY <1>u DEF ServedInv, NoHandshake
<1>1. ASSUME NEW p \in Procs, ConnectStep(p) PROVE ServedInv'
  <2>1. UNCHANGED setting
    BY <1>1 DEF ConnectStep, ReturnReady, RejectClosed, BeginConnect, TeardownConnection,
       OpenSucceeds, OpenFails, HandshakeSucceeds, HandshakeFails
  <2>2. CASE ReturnReady(p) \/ RejectClosed(p) \/ BeginConnect(p)
    <3>1. UNCHANGED <<tasks, state>> /\ \E x \in Steps \ {"handshake"} : pc' = [pc EXCEPT ![p] = x]
      BY <2>2 DEF ReturnReady, RejectClosed, BeginConnect, Goto, Returned, Steps
    <3> QED
      BY <1>k, <1>n, <1>t, <2>1, <3>1 DEF ServedInv
  <2>3. CASE TeardownConnection(p)
    <3>1. state' # "ready" /\ pc' = [pc EXCEPT ![p] = "opening"]
      BY <2>3 DEF TeardownConnection, Goto
    <3> QED
      BY <1>n, <1>t, <2>1, <3>1 DEF ServedInv, ReadyIsServed
  <2>4. CASE OpenFails(p) \/ HandshakeFails(p)
    <3>1. Raised(p)
      BY <2>4 DEF OpenFails, HandshakeFails
    <3>2. /\ state' = "failed" /\ pc' = [pc EXCEPT ![p] = pc'[p]]
          /\ pc'[p] \in {"done", "sleep", "none"}
      BY <3>1, RaisedIs DEF TypeInv
    <3> QED
      BY <1>n, <2>1, <3>2 DEF ServedInv, ReadyIsServed
  <2>5. CASE OpenSucceeds(p)
    <3>1. /\ reader' = "live" /\ writer' = "live"
          /\ heartbeat' = IF HasHeartbeat THEN "starting" ELSE "none"
      BY <2>5 DEF OpenSucceeds
    <3>2. ReadyIsServed'
      BY <2>1, <3>1 DEF ReadyIsServed, HasHeartbeat
    <3>3. CASE setting.suspends
      BY <2>1, <3>2, <3>3 DEF ServedInv, NoHandshake
    <3>4. CASE ~setting.suspends
      <4>1. Ready(p, generation') /\ generation' \in Nat
        BY <2>5, <3>4 DEF OpenSucceeds, TypeInv, TypeOK
      <4>2. pc' = [pc EXCEPT ![p] = pc'[p]] /\ pc'[p] \in {"none", "connected", "restore"}
        BY <4>1, ReadyIs DEF TypeInv
      <4> QED
        BY <1>n, <2>1, <3>2, <4>2 DEF ServedInv
    <3> QED
      BY <3>3, <3>4
  <2>6. CASE HandshakeSucceeds(p)
    <3>1. setting.suspends
      BY <2>6 DEF HandshakeSucceeds, ServedInv, NoHandshake
    <3> QED
      BY <2>1, <3>1 DEF ServedInv, ReadyIsServed, NoHandshake
  <2> QED
    BY <1>1, <2>2, <2>3, <2>4, <2>5, <2>6 DEF ConnectStep
<1>2. ASSUME NEW p \in Procs, RestoreStep(p) PROVE ServedInv'
  <2>1. /\ UNCHANGED <<state, setting, tasks>>
        /\ UNCHANGED pc \/ \E x \in Steps \ {"handshake"} : pc' = [pc EXCEPT ![p] = x]
    BY <1>2 DEF RestoreStep, RestoreNext, RestoreEnd, RestoreDone, Returned, Goto, Steps
  <2> QED
    BY <1>k, <1>n, <1>t, <1>u, <2>1 DEF ServedInv
<1>3. ASSUME NEW c \in Callers, Call(c) \/ CallerStep(c) \/ CancelCaller(c) \/ CancelWaiting(c)
      PROVE  ServedInv'
  <2>1. /\ UNCHANGED <<state, setting, tasks>>
        /\ UNCHANGED pc \/ \E x \in Steps \ {"handshake"} : pc' = [pc EXCEPT ![c] = x]
    BY <1>3 DEF Call, CallerStep, OperationEnds, Subscribe, SubscribeEnds, CancelCaller,
       CancelWaiting, Goto, Steps
  <2> QED
    BY <1>k, <1>n, <1>t, <1>u, <2>1 DEF ServedInv
<1>4. ASSUME NEW s \in Subs,
             \/ CloseSubscription(s) \/ CloseSubscriptionEnds(s) \/ CancelWritten(s)
             \/ PeerEnds(s) \/ EarlyEvent(s)
      PROVE  ServedInv'
  <2>1. UNCHANGED <<state, setting, tasks, pc>>
    BY <1>4 DEF CloseSubscription, CloseSubscriptionEnds, CancelWritten, PeerEnds, EarlyEvent, work
  <2> QED
    BY <1>k, <1>u, <2>1 DEF ServedInv
<1>5. ASSUME NEW isFatal \in BOOLEAN, NEW reconnect \in BOOLEAN, LoseConnection(isFatal, reconnect)
      PROVE  ServedInv'
  <2>1. /\ state' \in {"failed", "reconnecting", "idle"} /\ UNCHANGED setting
        /\ \A p \in Procs : pc'[p] = pc[p] \/ pc'[p] = "sleep"
    BY <1>5, LoseIs
  <2> QED
    BY <2>1 DEF ServedInv, ReadyIsServed, NoHandshake
<1>6. CASE \E p \in Procs : ItemWritten(p)
  <2>1. UNCHANGED <<state, setting, tasks, pc>>
    BY <1>6 DEF ItemWritten
  <2> QED
    BY <1>k, <1>u, <2>1 DEF ServedInv
<1>7. CASE HeartbeatStarts
  <2>1. /\ UNCHANGED <<state, setting, pc, reader, writer>>
        /\ heartbeat' = IF state = "ready" THEN "live" ELSE "done"
    BY <1>7 DEF HeartbeatStarts, work
  <2> QED
    BY <1>u, <2>1 DEF ServedInv, ReadyIsServed, HasHeartbeat
<1>8. CASE LoseWhileClosing
  <2>1. UNCHANGED <<state, setting, pc>> /\ state = "closing"
    BY <1>8 DEF LoseWhileClosing, work
  <2> QED
    BY <1>u, <2>1 DEF ServedInv, ReadyIsServed
<1>9. CASE SupervisorWakes
  <2>1. /\ UNCHANGED <<state, setting, tasks>>
        /\ \E x \in Steps \ {"handshake"} : pc' = [pc EXCEPT ![Supervisor] = x]
    BY <1>9 DEF SupervisorWakes, Goto, Steps
  <2> QED
    BY <1>k, <1>n, <1>t, <2>1 DEF ServedInv
<1>10. CASE BeginClose
  <2>1. /\ state' = "closing" /\ UNCHANGED setting
        /\ pc' = [pc EXCEPT ![Supervisor] = "none"]
    BY <1>10, CloseIs
  <2> QED
    BY <1>n, <1>t, <2>1 DEF ServedInv, ReadyIsServed
<1>11. CASE EndClose
  <2>1. state' = "closed" /\ UNCHANGED <<setting, pc>>
    BY <1>11 DEF EndClose, work
  <2> QED
    BY <1>u, <2>1 DEF ServedInv, ReadyIsServed
<1>12. CASE UNCHANGED vars
  BY <1>k, <1>u, <1>12 DEF vars, work, ServedInv
<1> QED
  BY <1>1, <1>2, <1>3, <1>4, <1>5, <1>6, <1>7, <1>8, <1>9, <1>10, <1>11, <1>12, StepIs

\* A READY connection has its reader and its writer, and its heartbeat if one is configured,
\* in every generation, where the handshake does not suspend.
THEOREM ReadyHasTasks == Spec => []ReadyIsServed
<1>1. Init => ServedInv
  BY DEF Init, ServedInv, ReadyIsServed, NoHandshake
<1>2. ServedInv => ReadyIsServed
  BY DEF ServedInv
<1> QED
  BY <1>1, <1>2, ServedStep, TypeCorrect, PTL DEF Spec
------------------------------------------------------------------------------
(***************************************************************************)
(* A READY client restores what a loss disconnected                        *)
(***************************************************************************)

\* Nothing is routed before the first connection is READY; only retained subscriptions
\* are disconnected; and on a READY connection those that still are have a restoration
\* that will come to them.
NothingBeforeFirst ==
  generation = 0 \/ (generation = 1 /\ \E p \in Procs : pc[p] = "handshake") => registered = {}
LostIsRetained == \A s \in Subs : subState[s] = "disconnected" => s \in Retained
LostIsVisited ==
  state = "ready" =>
    \A s \in registered :
      subState[s] = "disconnected" => \E p \in Procs : pc[p] = "restore" /\ s \in todo[p]

VisitInv ==
  /\ state = "ready" \/ (\E p \in Procs : pc[p] = "handshake") => generation # 0
  /\ NothingBeforeFirst /\ LostIsRetained /\ LostIsVisited

\* A step that routes only on a READY connection, disconnects nothing, and leaves what is
\* disconnected to those who have it to restore, keeps it.
LEMMA VisitFrame ==
  ASSUME TypeInv, LockInv, VisitInv, TypeInv', UNCHANGED <<generation, setting>>,
         state' = "ready" => state = "ready",
         registered' \subseteq registered \/ state = "ready",
         \A p \in Procs : pc'[p] = "handshake" => pc[p] = "handshake",
         \A s \in Subs : subState'[s] = "disconnected" =>
           subState[s] = "disconnected" /\ (s \in registered' => s \in registered),
         \A p \in Procs, s \in Subs :
           state' = "ready" /\ pc[p] = "restore" /\ s \in todo[p] /\ subState'[s] = "disconnected"
             => pc'[p] = "restore" /\ s \in todo'[p]
  PROVE  VisitInv'
<1>1. (state = "ready" \/ (\E p \in Procs : pc[p] = "handshake") => generation # 0)'
  BY DEF VisitInv
<1>2. NothingBeforeFirst'
  <2> SUFFICES ASSUME generation = 0 \/ (generation = 1 /\ \E p \in Procs : pc'[p] = "handshake")
               PROVE  registered' = {}
    BY DEF NothingBeforeFirst
  <2>1. registered = {}
    BY DEF VisitInv, NothingBeforeFirst
  <2>2. state # "ready"
    BY DEF VisitInv, LockInv, LockSteps
  <2> QED
    BY <2>1, <2>2
<1>3. LostIsRetained'
  BY DEF VisitInv, LostIsRetained, Retained
<1>4. LostIsVisited'
  <2> SUFFICES ASSUME state' = "ready", NEW s \in registered', subState'[s] = "disconnected", s \in Subs
               PROVE  \E p \in Procs : pc'[p] = "restore" /\ s \in todo'[p]
    BY DEF LostIsVisited, TypeInv, TypeOK
  <2>1. s \in registered /\ subState[s] = "disconnected" /\ state = "ready"
    OBVIOUS
  <2>2. PICK p \in Procs : pc[p] = "restore" /\ s \in todo[p]
    BY <2>1 DEF VisitInv, LostIsVisited
  <2> QED
    BY <2>2
<1> QED
  BY <1>1, <1>2, <1>3, <1>4 DEF VisitInv

\* connect() keeps it.
LEMMA VisitConnects ==
  ASSUME TypeInv, LockInv, VisitInv, NEW p \in Procs, ConnectStep(p), TypeInv'
  PROVE  VisitInv'
<1>t. /\ pc \in [Procs -> Steps] /\ generation \in Nat /\ todo \in [Procs -> SUBSET Subs]
  BY DEF TypeInv, TypeOK
<1>1. CASE ReturnReady(p) \/ RejectClosed(p) \/ BeginConnect(p) \/ TeardownConnection(p)
  <2>1. /\ UNCHANGED <<generation, setting, todo, subs>>
        /\ state' = "ready" => state = "ready"
        /\ pc[p] # "restore"
        /\ \E x \in Steps \ {"handshake"} : pc' = [pc EXCEPT ![p] = x]
    BY <1>1 DEF ReturnReady, RejectClosed, BeginConnect, TeardownConnection, Goto, Returned, Steps
  <2>2. /\ \A q \in Procs : pc'[q] = "handshake" => pc[q] = "handshake"
        /\ \A q \in Procs : pc[q] = "restore" => pc'[q] = "restore"
    BY <1>t, <2>1
  <2> QED
    BY <2>1, <2>2, VisitFrame DEF subs
<1>2. CASE OpenFails(p) \/ HandshakeFails(p)
  <2>1. Raised(p) /\ UNCHANGED <<generation, setting, todo>>
    BY <1>2 DEF OpenFails, HandshakeFails
  <2>2. /\ state' = "failed" /\ pc' = [pc EXCEPT ![p] = pc'[p]]
        /\ pc'[p] \in {"done", "sleep", "none"}
        /\ UNCHANGED subs \/ (FailSubs(registered) /\ registered' = {})
    BY <2>1, RaisedIs DEF TypeInv
  <2>3. registered' \subseteq registered
    BY <2>2 DEF subs
  <2>4. \A s \in Subs : subState'[s] = "disconnected" => subState[s] = "disconnected"
    BY <2>2, FailSubsIs DEF subs, TypeInv
  <2>5. \A q \in Procs : pc'[q] = "handshake" => pc[q] = "handshake"
    BY <1>t, <2>2
  <2> QED
    BY <2>1, <2>2, <2>3, <2>4, <2>5, VisitFrame
<1>3. CASE HandshakeSucceeds(p) \/ (OpenSucceeds(p) /\ ~setting.suspends)
  <2>1. /\ Ready(p, generation') /\ UNCHANGED <<setting, subs>>
        /\ \/ generation' = generation /\ pc[p] = "handshake"
           \/ generation' = generation + 1
    BY <1>3 DEF HandshakeSucceeds, OpenSucceeds
  <2>2. /\ generation' \in Nat
        /\ generation' = 0 => generation = 0 /\ pc[p] = "handshake"
        /\ generation' = 1 => generation = 0 \/ (generation = 1 /\ pc[p] = "handshake")
    BY <1>t, <2>1
  <2>3. /\ state' = "ready" /\ pc' = [pc EXCEPT ![p] = pc'[p]]
        /\ generation' > 1 /\ registered # {} => pc'[p] = "restore" /\ todo'[p] = registered
    BY <2>1, <2>2, ReadyIs DEF TypeInv
  <2>4. generation' \in {0, 1} => registered = {}
    BY <2>2 DEF VisitInv, NothingBeforeFirst
  <2>5. registered' = registered /\ subState' = subState
    BY <2>1 DEF subs
  <2>6. generation' # 0
    BY <1>3, <1>t, <2>1 DEF VisitInv, HandshakeSucceeds, OpenSucceeds
  <2>7. LostIsVisited'
    BY <2>2, <2>3, <2>4, <2>5 DEF LostIsVisited
  <2>8. NothingBeforeFirst'
    BY <2>4, <2>5 DEF NothingBeforeFirst
  <2>9. LostIsRetained'
    BY <2>1, <2>5 DEF VisitInv, LostIsRetained, Retained
  <2> QED
    BY <2>6, <2>7, <2>8, <2>9 DEF VisitInv
<1>4. CASE OpenSucceeds(p) /\ setting.suspends
  <2>1. /\ UNCHANGED <<setting, subs>> /\ generation' = generation + 1 /\ state' = "handshaking"
    BY <1>4 DEF OpenSucceeds
  <2>2. generation' # 0 /\ (generation' = 1 => generation = 0)
    BY <1>t, <2>1
  <2> QED
    BY <2>1, <2>2 DEF VisitInv, NothingBeforeFirst, LostIsRetained, LostIsVisited, Retained, subs
<1> QED
  BY <1>1, <1>2, <1>3, <1>4 DEF ConnectStep

\* A restoration keeps it: what it has visited is not disconnected any more.
LEMMA VisitRestores ==
  ASSUME TypeInv, LockInv, VisitInv, NEW p \in Procs, RestoreStep(p), TypeInv'
  PROVE  VisitInv'
<1>t. /\ pc \in [Procs -> Steps] /\ todo \in [Procs -> SUBSET Subs]
      /\ subState \in [Subs -> SubStates] /\ registered \in SUBSET Subs
  BY DEF TypeInv, TypeOK
<1>1. ASSUME NEW s \in Subs, RestoreNext(p, s) PROVE VisitInv'
  <2>1. /\ UNCHANGED <<state, generation, setting, pc>>
        /\ todo' = [todo EXCEPT ![p] = @ \ {s}]
        /\ s \in Retained => \E x \in {"restoring", "failed"} : subState' = [subState EXCEPT ![s] = x]
        /\ s \notin Retained => UNCHANGED subState
        /\ \/ registered' \subseteq registered
           \/ state = "ready" /\ s \in Retained /\ registered' = registered \cup {s}
    BY <1>1 DEF RestoreNext, subs
  <2>2. \A r \in Subs : subState'[r] = "disconnected" => subState[r] = "disconnected" /\ r # s
    BY <1>t, <2>1 DEF VisitInv, LostIsRetained
  <2>3. \A r \in Subs : subState'[r] = "disconnected" => (r \in registered' => r \in registered)
    BY <2>1, <2>2
  <2>4. \A q \in Procs, r \in Subs : r \in todo[q] /\ subState'[r] = "disconnected" => r \in todo'[q]
    BY <1>t, <2>1, <2>2
  <2>5. registered' \subseteq registered \/ state = "ready"
    BY <2>1
  <2> QED
    BY <2>1, <2>2, <2>3, <2>4, <2>5, VisitFrame
<1>2. CASE RestoreEnd(p)
  <2>1. /\ UNCHANGED <<state, generation, setting, pc, todo>> /\ registered' \subseteq registered
        /\ \/ subState' = [subState EXCEPT ![cur[p]] = IF closed[cur[p]] THEN @ ELSE "active"]
           \/ FailSubs({cur[p]})
    BY <1>2 DEF RestoreEnd
  <2>2. \A r \in Subs : subState'[r] = "disconnected" => subState[r] = "disconnected"
    BY <1>t, <2>1, FailSubsIs DEF TypeInv
  <2> QED
    BY <2>1, <2>2, VisitFrame
<1>3. CASE RestoreDone(p)
  <2>1. /\ UNCHANGED <<state, generation, setting, todo, subs>> /\ todo[p] = {}
        /\ \E x \in {"none", "connected"} : pc' = [pc EXCEPT ![p] = x]
    BY <1>3 DEF RestoreDone, Returned, Goto
  <2>2. /\ \A q \in Procs : pc'[q] = "handshake" => pc[q] = "handshake"
        /\ \A q \in Procs : q # p => pc'[q] = pc[q]
    BY <1>t, <2>1
  <2>3. \A q \in Procs, r \in Subs : pc[q] = "restore" /\ r \in todo[q] => pc'[q] = "restore"
    BY <2>1, <2>2
  <2> QED
    BY <2>1, <2>2, <2>3, VisitFrame DEF subs
<1> QED
  BY <1>1, <1>2, <1>3 DEF RestoreStep

\* Every step keeps it.
LEMMA VisitStep == TypeInv /\ LockInv /\ VisitInv /\ [Next]_vars => VisitInv'
<1> SUFFICES ASSUME TypeInv, LockInv, VisitInv, [Next]_vars PROVE VisitInv'
  OBVIOUS
<1>t. /\ pc \in [Procs -> Steps] /\ todo \in [Procs -> SUBSET Subs]
      /\ subState \in [Subs -> SubStates] /\ registered \in SUBSET Subs
      /\ Supervisor \in Procs /\ Callers \subseteq Procs
  BY Names DEF TypeInv, TypeOK
<1>p. TypeInv'
  BY TypeStep
<1>1. ASSUME NEW c \in Callers, Call(c) \/ CallerStep(c) \/ CancelCaller(c) \/ CancelWaiting(c)
      PROVE  VisitInv'
  <2>1. /\ UNCHANGED <<state, generation, setting, todo>>
        /\ \/ UNCHANGED pc
           \/ pc[c] # "restore" /\ \E x \in {"connect", "done", "subscribing"} : pc' = [pc EXCEPT ![c] = x]
        /\ \/ UNCHANGED subState /\ registered' \subseteq registered
           \/ /\ state = "ready"
              /\ \E s \in Subs : subState' = [subState EXCEPT ![s] = "active"]
                                 /\ registered' = registered \cup {s}
    BY <1>1 DEF Call, CallerStep, OperationEnds, Subscribe, SubscribeEnds, CancelCaller,
       CancelWaiting, Goto, subs
  <2>2. /\ \A q \in Procs : pc'[q] = "handshake" => pc[q] = "handshake"
        /\ \A q \in Procs : pc[q] = "restore" => pc'[q] = "restore"
    BY <1>t, <2>1
  <2>3. \A r \in Subs : subState'[r] = "disconnected" =>
          subState[r] = "disconnected" /\ (r \in registered' => r \in registered)
    BY <1>t, <2>1
  <2>4. registered' \subseteq registered \/ state = "ready"
    BY <2>1
  <2> QED
    BY <1>p, <2>1, <2>2, <2>3, <2>4, VisitFrame
<1>2. ASSUME NEW s \in Subs,
             \/ CloseSubscription(s) \/ CloseSubscriptionEnds(s) \/ CancelWritten(s)
             \/ PeerEnds(s) \/ EarlyEvent(s)
      PROVE  VisitInv'
  <2>1. /\ UNCHANGED <<state, generation, setting, todo, pc>> /\ registered' \subseteq registered
        /\ \/ UNCHANGED subState
           \/ subState' = [subState EXCEPT ![s] = "cancelled"]
           \/ subState' = [subState EXCEPT ![s] = IF closed[s] THEN @ ELSE "completed"]
           \/ FailSubs({s})
    BY <1>2 DEF CloseSubscription, CloseSubscriptionEnds, CancelWritten, PeerEnds, EarlyEvent,
       work, subs
  <2>2. \A r \in Subs : subState'[r] = "disconnected" => subState[r] = "disconnected"
    BY <1>t, <2>1, FailSubsIs DEF TypeInv
  <2> QED
    BY <1>p, <2>1, <2>2, VisitFrame
<1>3. ASSUME NEW isFatal \in BOOLEAN, NEW reconnect \in BOOLEAN, LoseConnection(isFatal, reconnect)
      PROVE  VisitInv'
  <2>1. /\ state' # "ready" /\ UNCHANGED <<generation, setting>>
        /\ registered' \subseteq registered \cap Retained
        /\ \A s \in Subs : /\ subState'[s] \in {subState[s], "disconnected", "failed"}
                           /\ s \notin registered' => subState'[s] \in {subState[s], "failed"}
        /\ \A p \in Procs : pc'[p] = pc[p] \/ pc'[p] = "sleep"
    BY <1>3, LoseIs
  <2>2. \A p \in Procs : pc'[p] = "handshake" => pc[p] = "handshake"
    BY <2>1
  <2>3. (state = "ready" \/ (\E p \in Procs : pc[p] = "handshake") => generation # 0)'
    BY <2>1, <2>2 DEF VisitInv
  <2>4. NothingBeforeFirst'
    BY <2>1, <2>2 DEF VisitInv, NothingBeforeFirst
  <2>5. LostIsRetained'
    BY <2>1 DEF VisitInv, LostIsRetained, Retained
  <2>6. LostIsVisited'
    BY <2>1 DEF LostIsVisited
  <2> QED
    BY <2>3, <2>4, <2>5, <2>6 DEF VisitInv
<1>4. CASE (\E p \in Procs : ItemWritten(p)) \/ HeartbeatStarts \/ LoseWhileClosing \/ EndClose
  <2>1. /\ UNCHANGED <<generation, setting, todo, pc, subState, registered>>
        /\ state' = "ready" => state = "ready"
    BY <1>4 DEF ItemWritten, HeartbeatStarts, LoseWhileClosing, EndClose, work, subs
  <2> QED
    BY <1>p, <2>1, VisitFrame
<1>5. CASE SupervisorWakes
  <2>1. /\ UNCHANGED <<state, generation, setting, todo, subState, registered>>
        /\ pc[Supervisor] = "sleep"
        /\ \E x \in {"none", "connect"} : pc' = [pc EXCEPT ![Supervisor] = x]
    BY <1>5 DEF SupervisorWakes, Goto, subs
  <2>2. /\ \A q \in Procs : pc'[q] = "handshake" => pc[q] = "handshake"
        /\ \A q \in Procs : pc[q] = "restore" => pc'[q] = "restore"
    BY <1>t, <2>1
  <2> QED
    BY <1>p, <2>1, <2>2, VisitFrame
<1>6. CASE BeginClose
  <2>1. /\ state' = "closing" /\ registered' = {} /\ UNCHANGED <<generation, setting>>
        /\ pc' = [pc EXCEPT ![Supervisor] = "none"]
        /\ \A s \in Subs : subState'[s] = subState[s] \/ subState'[s] = "failed"
    BY <1>6, CloseIs
  <2>2. \A q \in Procs : pc'[q] = "handshake" => pc[q] = "handshake"
    BY <1>t, <2>1
  <2> QED
    BY <1>p, <2>1, <2>2, VisitFrame
<1>7. CASE UNCHANGED vars
  BY <1>p, <1>7, VisitFrame DEF vars, work, subs
<1> QED
  BY <1>p, <1>1, <1>2, <1>3, <1>4, <1>5, <1>6, <1>7, VisitConnects, VisitRestores, StepIs

\* A client that is READY with no restoration under way has left no routed subscription
\* disconnected, whoever connected, and however many losses came in between.
THEOREM ReadyRestores == Spec => []ReadyRestoresAll
<1>1. Init => VisitInv
  BY Names DEF Init, VisitInv, NothingBeforeFirst, LostIsRetained, LostIsVisited
<1>2. VisitInv => ReadyRestoresAll
  BY DEF VisitInv, LostIsVisited, ReadyRestoresAll
<1> QED
  BY <1>1, <1>2, VisitStep, LockHolds, PTL DEF Spec
------------------------------------------------------------------------------
(***************************************************************************)
(* A subscription that is open is routed                                   *)
(***************************************************************************)

\* A subscription that has not ended has its route, unless an early event may take it.
Routed(s) == ~setting.early /\ ~closed[s] => s \in registered

\* What ended, or is being cancelled, is closed; the subscriptions the application holds,
\* and those it is opening, are routed while they are not; and every task that opens one
\* opens one of its own, which the application does not have yet.
EndedIsClosed == \A s \in Subs : subState[s] \in Terminal \/ cancelItem[s] # "none" => closed[s]
HeldIsRouted == \A s \in held : subState[s] # "new" /\ Routed(s)
OpeningIsRouted ==
  \A c \in Callers : pc[c] = "subscribing" =>
    cur[c] \in Subs \ held /\ subState[cur[c]] # "new" /\ Routed(cur[c])
OpeningsAreApart ==
  \A c, d \in Callers :
    pc[c] = "subscribing" /\ pc[d] = "subscribing" /\ c # d => cur[c] # cur[d]

RouteInv == EndedIsClosed /\ HeldIsRouted /\ OpeningIsRouted /\ OpeningsAreApart

\* A step that opens no subscription keeps it, if it reopens none and closes what it ends
\* and what it takes from the routes.
LEMMA RouteFrame ==
  ASSUME TypeInv, RouteInv, UNCHANGED <<setting, held>>,
         \A s \in Subs : closed[s] => closed'[s],
         \A s \in Subs : subState'[s] = subState[s] \/ closed'[s]
                         \/ subState'[s] \in {"active", "disconnected", "restoring"},
         \A s \in Subs : cancelItem'[s] # "none" => cancelItem[s] # "none" \/ closed'[s],
         \A s \in Subs : s \in registered => s \in registered' \/ closed'[s] \/ setting.early,
         \A s \in Subs : subState'[s] = "new" => subState[s] = "new",
         \A c \in Callers : pc'[c] = "subscribing" => pc[c] = "subscribing" /\ cur'[c] = cur[c]
  PROVE  RouteInv'
<1>1. EndedIsClosed'
  BY DEF RouteInv, EndedIsClosed, Terminal
<1>2. \A s \in Subs : Routed(s) => Routed(s)'
  BY DEF Routed
<1>3. HeldIsRouted'
  BY <1>2 DEF RouteInv, HeldIsRouted, TypeInv, TypeOK
<1>4. OpeningIsRouted'
  <2> SUFFICES ASSUME NEW c \in Callers, pc'[c] = "subscribing"
               PROVE  cur'[c] \in Subs \ held' /\ subState'[cur'[c]] # "new" /\ Routed(cur[c])'
    BY DEF OpeningIsRouted
  <2>1. cur'[c] = cur[c] /\ pc[c] = "subscribing"
    OBVIOUS
  <2>2. cur[c] \in Subs \ held /\ subState[cur[c]] # "new" /\ Routed(cur[c])
    BY <2>1 DEF RouteInv, OpeningIsRouted
  <2>3. Routed(cur[c])'
    BY <1>2, <2>2
  <2> QED
    BY <2>1, <2>2, <2>3
<1>5. OpeningsAreApart'
  BY DEF RouteInv, OpeningsAreApart
<1> QED
  BY <1>1, <1>3, <1>4, <1>5 DEF RouteInv

\* The steps of connect() keep it.
LEMMA RouteConnects ==
  ASSUME TypeInv, RouteInv, NEW p \in Procs, ConnectStep(p)
  PROVE  RouteInv'
<1>t. pc \in [Procs -> Steps] /\ Callers \subseteq Procs
  BY Names DEF TypeInv, TypeOK
<1>a. ASSUME UNCHANGED cur, NEW x, x # "subscribing", pc' = [pc EXCEPT ![p] = x]
      PROVE  \A c \in Callers : pc'[c] = "subscribing" => pc[c] = "subscribing" /\ cur'[c] = cur[c]
  BY <1>t, <1>a
<1>1. CASE OpenFails(p) \/ HandshakeFails(p)
  <2>1. /\ Raised(p) /\ UNCHANGED <<setting, held, cur>>
        /\ UNCHANGED cancelItem
           \/ cancelItem' = [s \in Subs |-> IF cancelItem[s] = "open" THEN "failed" ELSE cancelItem[s]]
    BY <1>1 DEF OpenFails, HandshakeFails
  <2>2. /\ pc' = [pc EXCEPT ![p] = pc'[p]] /\ pc'[p] # "subscribing"
        /\ UNCHANGED subs \/ (FailSubs(registered) /\ registered' = {})
    BY <2>1, RaisedIs DEF TypeInv
  <2>3. \A s \in Subs : cancelItem'[s] # "none" => cancelItem[s] # "none"
    BY <2>1
  <2>4. CASE UNCHANGED subs
    BY <1>a, <2>1, <2>2, <2>3, <2>4, RouteFrame DEF subs
  <2>5. CASE FailSubs(registered) /\ registered' = {}
    <3>1. /\ \A s \in Subs : closed[s] => closed'[s]
          /\ \A s \in Subs : subState'[s] = subState[s] \/ closed'[s]
          /\ \A s \in Subs : s \in registered => closed'[s] \/ subState[s] \in Terminal
          /\ \A s \in Subs : subState'[s] \in {subState[s], "failed"}
      BY <2>5, FailSubsIs DEF TypeInv
    <3>2. \A s \in Subs : s \in registered => closed'[s]
      BY <3>1 DEF RouteInv, EndedIsClosed
    <3> QED
      BY <1>a, <2>1, <2>2, <2>3, <3>1, <3>2, RouteFrame
  <2> QED
    BY <2>2, <2>4, <2>5
<1>2. CASE HandshakeSucceeds(p) \/ (OpenSucceeds(p) /\ ~setting.suspends)
  <2>1. /\ Ready(p, generation') /\ generation' \in Nat
        /\ UNCHANGED <<setting, subs, cancelItem, held, cur>>
    BY <1>2 DEF HandshakeSucceeds, OpenSucceeds, TypeInv, TypeOK
  <2>2. pc' = [pc EXCEPT ![p] = pc'[p]] /\ pc'[p] # "subscribing"
    BY <2>1, ReadyIs DEF TypeInv
  <2> QED
    BY <1>a, <2>1, <2>2, RouteFrame DEF subs
<1>3. CASE ~(OpenFails(p) \/ HandshakeFails(p) \/ HandshakeSucceeds(p)
             \/ (OpenSucceeds(p) /\ ~setting.suspends))
  <2>1. /\ UNCHANGED <<setting, subs, cancelItem, held, cur>>
        /\ \E x \in Steps : x # "subscribing" /\ pc' = [pc EXCEPT ![p] = x]
    BY <1>3 DEF ConnectStep, ReturnReady, RejectClosed, BeginConnect, TeardownConnection,
       OpenSucceeds, Goto, Returned, Steps
  <2> QED
    BY <1>a, <2>1, RouteFrame DEF subs
<1> QED
  BY <1>1, <1>2, <1>3

\* Those of a restoration keep it.
LEMMA RouteRestores ==
  ASSUME TypeInv, RouteInv, NEW p \in Procs, RestoreStep(p)
  PROVE  RouteInv'
<1>t. /\ pc \in [Procs -> Steps] /\ cur \in [Procs -> Subs \cup {NoOne}] /\ Callers \subseteq Procs
      /\ subState \in [Subs -> SubStates] /\ closed \in [Subs -> BOOLEAN]
      /\ registered \in SUBSET Subs
  BY Names DEF TypeInv, TypeOK
<1>1. ASSUME NEW s \in Subs, RestoreNext(p, s) PROVE RouteInv'
  <2>1. /\ UNCHANGED <<setting, held, cancelItem, pc>> /\ pc[p] = "restore"
        /\ UNCHANGED cur \/ cur' = [cur EXCEPT ![p] = s]
        /\ \/ UNCHANGED subs
           \/ /\ subState' = [subState EXCEPT ![s] = "restoring"] /\ UNCHANGED closed
              /\ registered \subseteq registered'
           \/ /\ subState' = [subState EXCEPT ![s] = "failed"]
              /\ closed' = [closed EXCEPT ![s] = TRUE]
              /\ registered' = registered \ {s}
    BY <1>1 DEF RestoreNext
  <2>2. \A c \in Callers : pc'[c] = "subscribing" => pc[c] = "subscribing" /\ cur'[c] = cur[c]
    BY <1>t, <2>1
  <2>3. /\ \A r \in Subs : closed[r] => closed'[r]
        /\ \A r \in Subs : subState'[r] = subState[r] \/ closed'[r] \/ subState'[r] = "restoring"
        /\ \A r \in Subs : r \in registered => r \in registered' \/ closed'[r]
        /\ \A r \in Subs : subState'[r] = "new" => subState[r] = "new"
    BY <1>t, <2>1 DEF subs
  <2> QED
    BY <2>1, <2>2, <2>3, RouteFrame
<1>2. CASE RestoreEnd(p)
  <2>1. /\ UNCHANGED <<setting, held, cancelItem, pc>> /\ pc[p] = "restore"
        /\ cur' = [cur EXCEPT ![p] = NoOne]
        /\ \/ /\ subState' = [subState EXCEPT ![cur[p]] = IF closed[cur[p]] THEN @ ELSE "active"]
              /\ UNCHANGED <<closed, registered>>
           \/ FailSubs({cur[p]}) /\ registered' = registered \ {cur[p]}
    BY <1>2 DEF RestoreEnd
  <2>2. \A c \in Callers : pc'[c] = "subscribing" => pc[c] = "subscribing" /\ cur'[c] = cur[c]
    BY <1>t, <2>1
  <2>3. CASE /\ subState' = [subState EXCEPT ![cur[p]] = IF closed[cur[p]] THEN @ ELSE "active"]
             /\ UNCHANGED <<closed, registered>>
    <3>1. \A r \in Subs : subState'[r] \in {subState[r], "active"}
      BY <1>t, <2>3
    <3> QED
      BY <2>1, <2>2, <2>3, <3>1, RouteFrame
  <2>4. CASE FailSubs({cur[p]}) /\ registered' = registered \ {cur[p]}
    <3>1. /\ \A s \in Subs : closed[s] => closed'[s]
          /\ \A s \in Subs : subState'[s] = subState[s] \/ closed'[s]
          /\ \A s \in Subs : s = cur[p] => closed'[s] \/ subState[s] \in Terminal
          /\ \A s \in Subs : subState'[s] \in {subState[s], "failed"}
      BY <2>4, FailSubsIs DEF TypeInv
    <3>2. \A s \in Subs : s \in registered => s \in registered' \/ closed'[s]
      BY <2>4, <3>1 DEF RouteInv, EndedIsClosed
    <3> QED
      BY <2>1, <2>2, <3>1, <3>2, RouteFrame
  <2> QED
    BY <2>1, <2>3, <2>4
<1>3. CASE RestoreDone(p)
  <2>1. /\ UNCHANGED <<setting, held, cancelItem, cur, subs>>
        /\ \E x \in {"none", "connected"} : pc' = [pc EXCEPT ![p] = x]
    BY <1>3 DEF RestoreDone, Returned, Goto
  <2>2. \A c \in Callers : pc'[c] = "subscribing" => pc[c] = "subscribing" /\ cur'[c] = cur[c]
    BY <1>t, <2>1
  <2> QED
    BY <2>1, <2>2, RouteFrame DEF subs
<1> QED
  BY <1>1, <1>2, <1>3 DEF RestoreStep

\* Opening a subscription, and the other steps of a caller, keep it.
LEMMA RouteCallers ==
  ASSUME TypeInv, RouteInv, NEW c \in Callers,
         Call(c) \/ CallerStep(c) \/ CancelCaller(c) \/ CancelWaiting(c)
  PROVE  RouteInv'
<1>t. /\ pc \in [Procs -> Steps] /\ cur \in [Procs -> Subs \cup {NoOne}] /\ Callers \subseteq Procs
      /\ subState \in [Subs -> SubStates] /\ closed \in [Subs -> BOOLEAN]
      /\ registered \in SUBSET Subs /\ held \in SUBSET Subs
  BY Names DEF TypeInv, TypeOK
<1>1. CASE \/ Call(c) \/ OperationEnds(c) \/ CancelCaller(c) \/ CancelWaiting(c)
           \/ (state # "ready" /\ \E s \in Subs : Subscribe(c, s))
  <2>1. /\ UNCHANGED <<setting, held, cancelItem, cur, subs>>
        /\ UNCHANGED pc \/ \E x \in {"connect", "done"} : pc' = [pc EXCEPT ![c] = x]
    BY <1>1 DEF Call, OperationEnds, CancelCaller, CancelWaiting, Subscribe, Goto, subs
  <2>2. \A d \in Callers : pc'[d] = "subscribing" => pc[d] = "subscribing" /\ cur'[d] = cur[d]
    BY <1>t, <2>1
  <2> QED
    BY <2>1, <2>2, RouteFrame DEF subs
<1>2. ASSUME NEW s \in Subs, Subscribe(c, s), state = "ready" PROVE RouteInv'
  <2>1. /\ subState[s] = "new" /\ subState' = [subState EXCEPT ![s] = "active"]
        /\ registered' = registered \cup {s}
        /\ cur' = [cur EXCEPT ![c] = s] /\ pc' = [pc EXCEPT ![c] = "subscribing"]
        /\ UNCHANGED <<setting, held, cancelItem, closed>>
    BY <1>2 DEF Subscribe, Goto
  <2>2. /\ \A r \in Subs : subState'[r] \in {subState[r], "active"}
        /\ subState'[s] = "active"
    BY <1>t, <2>1
  <2>3. /\ pc'[c] = "subscribing" /\ cur'[c] = s
        /\ \A d \in Callers : d # c => pc'[d] = pc[d] /\ cur'[d] = cur[d]
    BY <1>t, <2>1
  <2>4. s \notin held
    BY <2>1 DEF RouteInv, HeldIsRouted
  <2>5. \A d \in Callers : pc[d] = "subscribing" => cur[d] # s
    BY <2>1 DEF RouteInv, OpeningIsRouted
  <2>6. \A r \in Subs : Routed(r) => Routed(r)'
    BY <2>1 DEF Routed
  <2>7. EndedIsClosed'
    BY <2>1, <2>2 DEF RouteInv, EndedIsClosed, Terminal
  <2>8. HeldIsRouted'
    BY <1>t, <2>1, <2>2, <2>6 DEF RouteInv, HeldIsRouted
  <2>9. OpeningIsRouted'
    <3> SUFFICES ASSUME NEW d \in Callers, pc'[d] = "subscribing"
                 PROVE  cur'[d] \in Subs \ held' /\ subState'[cur'[d]] # "new" /\ Routed(cur[d])'
      BY DEF OpeningIsRouted
    <3>1. CASE d = c
      BY <2>1, <2>2, <2>3, <2>4, <3>1 DEF Routed
    <3>2. CASE d # c
      <4>1. pc[d] = "subscribing" /\ cur'[d] = cur[d]
        BY <2>3, <3>2
      <4>2. cur[d] \in Subs \ held /\ subState[cur[d]] # "new" /\ Routed(cur[d])
        BY <4>1 DEF RouteInv, OpeningIsRouted
      <4>3. Routed(cur[d])'
        BY <2>6, <4>1, <4>2
      <4> QED
        BY <2>1, <2>2, <4>1, <4>2, <4>3
    <3> QED
      BY <3>1, <3>2
  <2>10. OpeningsAreApart'
    BY <2>3, <2>5 DEF RouteInv, OpeningsAreApart
  <2> QED
    BY <2>7, <2>8, <2>9, <2>10 DEF RouteInv
<1>3. CASE SubscribeEnds(c)
  <2>1. /\ pc[c] = "subscribing"
        /\ \/ held' = held \cup {cur[c]} /\ UNCHANGED registered
           \/ registered' = registered \ {cur[c]} /\ UNCHANGED held
        /\ cur' = [cur EXCEPT ![c] = NoOne] /\ pc' = [pc EXCEPT ![c] = "done"]
        /\ UNCHANGED <<setting, cancelItem, closed, subState>>
    BY <1>3 DEF SubscribeEnds, Goto
  <2>2. cur[c] \in Subs \ held /\ subState[cur[c]] # "new" /\ Routed(cur[c])
    BY <2>1 DEF RouteInv, OpeningIsRouted
  <2>3. \A d \in Callers : pc'[d] = "subscribing" =>
          d # c /\ pc[d] = "subscribing" /\ cur'[d] = cur[d] /\ cur[d] # cur[c]
    BY <1>t, <2>1 DEF RouteInv, OpeningsAreApart
  <2>4. \A r \in Subs : Routed(r) /\ (r # cur[c] \/ UNCHANGED registered) => Routed(r)'
    BY <2>1 DEF Routed
  <2>5. EndedIsClosed'
    BY <2>1 DEF RouteInv, EndedIsClosed
  <2>6. HeldIsRouted'
    BY <1>t, <2>1, <2>2, <2>4 DEF RouteInv, HeldIsRouted
  <2>7. OpeningIsRouted'
    <3> SUFFICES ASSUME NEW d \in Callers, pc'[d] = "subscribing"
                 PROVE  cur'[d] \in Subs \ held' /\ subState'[cur'[d]] # "new" /\ Routed(cur[d])'
      BY DEF OpeningIsRouted
    <3>1. pc[d] = "subscribing" /\ cur'[d] = cur[d] /\ cur[d] # cur[c]
      BY <2>3
    <3>2. cur[d] \in Subs \ held /\ subState[cur[d]] # "new" /\ Routed(cur[d])
      BY <3>1 DEF RouteInv, OpeningIsRouted
    <3>3. Routed(cur[d])'
      BY <2>4, <3>1, <3>2
    <3> QED
      BY <2>1, <3>1, <3>2, <3>3
  <2>8. OpeningsAreApart'
    BY <2>3 DEF RouteInv, OpeningsAreApart
  <2> QED
    BY <2>5, <2>6, <2>7, <2>8 DEF RouteInv
<1> QED
  BY <1>1, <1>2, <1>3 DEF CallerStep

\* Ending a subscription, from the application or from the peer, keeps it.
LEMMA RouteSubs ==
  ASSUME TypeInv, RouteInv, NEW s \in Subs,
         \/ CloseSubscription(s) \/ CloseSubscriptionEnds(s) \/ CancelWritten(s)
         \/ PeerEnds(s) \/ EarlyEvent(s)
  PROVE  RouteInv'
<1>t. /\ subState \in [Subs -> SubStates] /\ closed \in [Subs -> BOOLEAN]
      /\ registered \in SUBSET Subs /\ cancelItem \in [Subs -> Waits]
  BY DEF TypeInv, TypeOK
<1>0. UNCHANGED <<setting, held, pc, cur>>
  BY DEF CloseSubscription, CloseSubscriptionEnds, CancelWritten, PeerEnds, EarlyEvent, work
<1>1. CASE CloseSubscription(s)
  <2>1. /\ closed' = [closed EXCEPT ![s] = TRUE]
        /\ subState' = [subState EXCEPT ![s] = "cancelled"]
        /\ cancelItem' = [cancelItem EXCEPT ![s] = "open"] \/ UNCHANGED cancelItem
        /\ registered' \in {registered, registered \ {s}}
    BY <1>1 DEF CloseSubscription
  <2>2. /\ closed'[s] /\ \A r \in Subs : closed[r] => closed'[r]
        /\ \A r \in Subs : r # s => subState'[r] = subState[r] /\ cancelItem'[r] = cancelItem[r]
        /\ subState'[s] = "cancelled"
    BY <1>t, <2>1
  <2> QED
    BY <1>0, <2>1, <2>2, RouteFrame
<1>2. CASE CloseSubscriptionEnds(s)
  <2>1. /\ cancelItem[s] # "none" /\ cancelItem' = [cancelItem EXCEPT ![s] = "none"]
        /\ registered' \in {registered, registered \ {s}} /\ UNCHANGED <<subState, closed>>
    BY <1>2 DEF CloseSubscriptionEnds
  <2>2. closed[s] /\ \A r \in Subs : cancelItem'[r] # "none" => cancelItem[r] # "none"
    BY <1>t, <2>1 DEF RouteInv, EndedIsClosed
  <2> QED
    BY <1>0, <2>1, <2>2, RouteFrame
<1>3. CASE CancelWritten(s)
  <2>1. /\ cancelItem[s] = "open" /\ cancelItem' = [cancelItem EXCEPT ![s] = "ok"]
        /\ UNCHANGED <<subState, closed, registered>>
    BY <1>3 DEF CancelWritten, subs
  <2>2. \A r \in Subs : cancelItem'[r] # "none" => cancelItem[r] # "none"
    BY <1>t, <2>1
  <2> QED
    BY <1>0, <2>1, <2>2, RouteFrame
<1>4. CASE PeerEnds(s)
  <2>1. /\ registered' = registered \ {s} /\ UNCHANGED cancelItem
        /\ \/ FailSubs({s})
           \/ /\ subState' = [subState EXCEPT ![s] = IF closed[s] THEN @ ELSE "completed"]
              /\ closed' = [closed EXCEPT ![s] = TRUE]
    BY <1>4 DEF PeerEnds
  <2>2. CASE FailSubs({s})
    <3>1. /\ \A r \in Subs : closed[r] => closed'[r]
          /\ \A r \in Subs : subState'[r] = subState[r] \/ closed'[r]
          /\ closed'[s] \/ subState[s] \in Terminal
          /\ \A r \in Subs : subState'[r] \in {subState[r], "failed"}
      BY <2>2, FailSubsIs DEF TypeInv
    <3>2. closed'[s]
      BY <3>1 DEF RouteInv, EndedIsClosed
    <3> QED
      BY <1>0, <2>1, <3>1, <3>2, RouteFrame
  <2>3. CASE /\ subState' = [subState EXCEPT ![s] = IF closed[s] THEN @ ELSE "completed"]
             /\ closed' = [closed EXCEPT ![s] = TRUE]
    <3>1. /\ closed'[s] /\ \A r \in Subs : closed[r] => closed'[r]
          /\ \A r \in Subs : r # s => subState'[r] = subState[r]
          /\ subState'[s] \in {subState[s], "completed"}
      BY <1>t, <2>3
    <3> QED
      BY <1>0, <2>1, <3>1, RouteFrame
  <2> QED
    BY <2>1, <2>2, <2>3
<1>5. CASE EarlyEvent(s)
  <2>1. setting.early /\ UNCHANGED <<subState, closed, cancelItem>>
    BY <1>5 DEF EarlyEvent
  <2> QED
    BY <1>0, <2>1, RouteFrame
<1> QED
  BY <1>1, <1>2, <1>3, <1>4, <1>5

\* Every step keeps it.
LEMMA RouteStep == TypeInv /\ RouteInv /\ [Next]_vars => RouteInv'
<1> SUFFICES ASSUME TypeInv, RouteInv, [Next]_vars PROVE RouteInv'
  OBVIOUS
<1>t. pc \in [Procs -> Steps] /\ Callers \subseteq Procs /\ Supervisor \notin Callers
  BY Names DEF TypeInv, TypeOK
<1>1. ASSUME NEW isFatal \in BOOLEAN, NEW reconnect \in BOOLEAN, LoseConnection(isFatal, reconnect)
      PROVE  RouteInv'
  <2>1. /\ UNCHANGED <<setting, held, cur>>
        /\ \A s \in Subs : closed[s] \/ s \in registered \ registered' => closed'[s]
        /\ \A s \in Subs : /\ subState'[s] \in {subState[s], "disconnected", "failed"}
                           /\ subState'[s] = subState[s] \/ closed'[s]
                              \/ subState'[s] = "disconnected"
        /\ \A p \in Procs : pc'[p] = pc[p] \/ (p = Supervisor /\ pc'[p] = "sleep")
        /\ \A s \in Subs : cancelItem'[s] = "none" <=> cancelItem[s] = "none"
    BY <1>1, LoseIs
  <2>2. \A c \in Callers : pc'[c] = pc[c]
    BY <1>t, <2>1
  <2> QED
    BY <2>1, <2>2, RouteFrame
<1>2. CASE BeginClose
  <2>1. /\ pc' = [pc EXCEPT ![Supervisor] = "none"]
        /\ \A s \in Subs : closed[s] => closed'[s]
        /\ \A s \in registered : closed'[s] \/ subState[s] \in Terminal
        /\ \A s \in Subs : subState'[s] = subState[s] \/ (subState'[s] = "failed" /\ closed'[s])
        /\ \A s \in Subs : cancelItem'[s] = "none" <=> cancelItem[s] = "none"
        /\ \A p \in Procs : p # Supervisor => cur'[p] = cur[p]
        /\ UNCHANGED <<held, setting>>
    BY <1>2, CloseIs
  <2>2. \A s \in Subs : s \in registered => closed'[s]
    BY <2>1 DEF RouteInv, EndedIsClosed
  <2>3. \A c \in Callers : pc'[c] = pc[c] /\ cur'[c] = cur[c]
    BY <1>t, <2>1
  <2> QED
    BY <2>1, <2>2, <2>3, RouteFrame
<1>3. CASE SupervisorWakes
  <2>1. /\ UNCHANGED <<setting, held, cancelItem, cur, subState, closed, registered>>
        /\ \E x \in {"none", "connect"} : pc' = [pc EXCEPT ![Supervisor] = x]
    BY <1>3 DEF SupervisorWakes, Goto, subs
  <2>2. \A c \in Callers : pc'[c] = pc[c]
    BY <1>t, <2>1
  <2> QED
    BY <2>1, <2>2, RouteFrame
<1>4. CASE (\E p \in Procs : ItemWritten(p)) \/ HeartbeatStarts \/ LoseWhileClosing \/ EndClose
           \/ UNCHANGED vars
  <2>1. UNCHANGED <<setting, held, cancelItem, cur, pc, subState, closed, registered>>
    BY <1>4 DEF ItemWritten, HeartbeatStarts, LoseWhileClosing, EndClose, vars, work, subs
  <2> QED
    BY <2>1, RouteFrame
<1> QED
  BY <1>1, <1>2, <1>3, <1>4, RouteConnects, RouteRestores, RouteCallers, RouteSubs, StepIs

\* A subscription the application holds and has not seen end is routed, whoever connects,
\* restores, cancels or closes meanwhile, unless the peer sends it events too early.
THEOREM OpenSubscriptionsAreRouted == Spec => []OpenIsRouted
<1>1. Init => RouteInv
  BY DEF Init, RouteInv, EndedIsClosed, HeldIsRouted, OpeningIsRouted, OpeningsAreApart, Terminal,
     Procs, Supervisor
<1>2. RouteInv => OpenIsRouted
  BY DEF RouteInv, HeldIsRouted, Routed, OpenIsRouted
<1> QED
  BY <1>1, <1>2, RouteStep, TypeCorrect, PTL DEF Spec
==============================================================================
