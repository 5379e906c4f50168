-------------------------- MODULE WsDeliveryProofs --------------------------
(***************************************************************************)
(* Proofs about WsDelivery, for any operations, policies, queue capacity   *)
(* and number of failures.                                                 *)
(***************************************************************************)
EXTENDS WsDelivery, TLAPS

\* What the shared parts of the actions do to the types of the variables.
LEMMA ConnectedType ==
  ASSUME NEW p \in Procs, NEW gen \in Nat, TypeOK, Connected(p, gen)
  PROVE  /\ pc' \in [Procs -> Steps]
         /\ completion' \in [Ops -> Futures] /\ reply' \in [Ops -> Futures]
         /\ sendStarted' \in [Ops -> BOOLEAN] /\ pending' \in [Ops -> Nat]
<1> USE DEF TypeOK, Connected, Futures, Steps, Procs, exchange
<1>1. CASE p \in Ops
  <2>1. (IF p \in Calls THEN gen ELSE 0) \in Nat
    OBVIOUS
  <2>2. (IF p \in Calls THEN "open" ELSE "none") \in Futures
    OBVIOUS
  <2>3. pc' \in [Procs -> Steps] /\ sendStarted' \in [Ops -> BOOLEAN]
    BY <1>1
  <2>4. completion' \in [Ops -> Futures]
    BY <1>1
  <2>5. reply' \in [Ops -> Futures]
    BY <1>1, <2>2
  <2>6. pending' \in [Ops -> Nat]
    <3>1. pending \in [Ops -> Nat]
          /\ pending' = [pending EXCEPT ![p] = IF p \in Calls THEN gen ELSE 0]
      BY <1>1
    <3> HIDE DEF TypeOK, Connected, Procs
    <3> QED
      BY <2>1, <3>1
  <2> QED
    BY <2>3, <2>4, <2>5, <2>6
<1>2. CASE p \notin Ops
  BY <1>2
<1> QED
  BY <1>1, <1>2

\* Ending or replaying an attempt keeps the types.
LEMMA FailedType ==
  ASSUME NEW o \in Ops, NEW evidence \in {"notsent", "unknown", "timeout"}, TypeOK,
         Failed(o, evidence)
  PROVE  /\ pc' \in [Procs -> Steps] /\ replays' \in [Ops -> 0..MaxReplays]
         /\ verdict' \in [Ops -> {"none", "ok", "notsent", "unknown", "timeout",
                                 "overflow", "connecterror", "closed", "error",
                                 "cancelled"}]
<1> USE DeliveryAssumption DEF TypeOK, Failed, Steps, Procs
<1>1. CASE MayReplay(o, evidence)
  <2>1. replays[o] + 1 \in 0..MaxReplays
    BY <1>1 DEF MayReplay
  <2> QED
    BY <1>1, <2>1 DEF ConnectRaised
<1>2. CASE ~MayReplay(o, evidence)
  BY <1>2
<1> QED
  BY <1>1, <1>2

\* Every reachable state of the exchange is well typed; in particular the
\* writer queue never exceeds its capacity and no operation is replayed more
\* often than its policy allows.
THEOREM TypeCorrect == Spec => []TypeOK
<1>1. Init => TypeOK
  BY DeliveryAssumption DEF Init, TypeOK, States, Steps, Futures, Procs
<1>2. TypeOK /\ [Next]_vars => TypeOK'
  <2> SUFFICES ASSUME TypeOK, [Next]_vars PROVE TypeOK'
    OBVIOUS
  <2> USE DeliveryAssumption DEF TypeOK, States, Steps, Futures, Procs, link,
        exchange, history
  <2>1. ASSUME NEW p \in Procs, ReturnReady(p) PROVE TypeOK'
    BY <2>1, ConnectedType DEF ReturnReady
  <2>2. ASSUME NEW p \in Procs, RejectClosed(p) PROVE TypeOK'
    BY <2>2 DEF RejectClosed, ConnectRaised
  <2>3. ASSUME NEW p \in Procs, BeginConnect(p) PROVE TypeOK'
    BY <2>3 DEF BeginConnect
  <2>4. ASSUME NEW p \in Procs, TeardownConnection(p) PROVE TypeOK'
    BY <2>4 DEF TeardownConnection
  <2>5. ASSUME NEW p \in Procs, OpenSucceeds(p) PROVE TypeOK'
    <3>1. generation' \in Nat /\ Connected(p, generation')
      BY <2>5 DEF OpenSucceeds
    <3>2. /\ pc' \in [Procs -> Steps]
          /\ completion' \in [Ops -> Futures] /\ reply' \in [Ops -> Futures]
          /\ sendStarted' \in [Ops -> BOOLEAN] /\ pending' \in [Ops -> Nat]
      BY <3>1, ConnectedType
    <3>3. /\ queue' = <<>> /\ state' = "ready" /\ lock' = NoOne
          /\ UNCHANGED <<delays, failures, active, replays, sent, verdict>>
      BY <2>5 DEF OpenSucceeds
    <3>4. queue' \in Seq(Ops) /\ Len(queue') <= QueueCapacity
      BY <3>3
    <3> QED
      BY <3>1, <3>2, <3>3, <3>4
  <2>6. ASSUME NEW p \in Procs, OpenFails(p) PROVE TypeOK'
    <3>1. CASE p = Supervisor /\ delays > 1
      <4>1. delays - 1 \in Nat
        BY <3>1
      <4> QED
        BY <2>6, <3>1, <4>1 DEF OpenFails
    <3>2. CASE ~(p = Supervisor /\ delays > 1)
      <4>1. CASE p \in Ops
        BY <2>6, <3>2, <4>1 DEF OpenFails, ConnectRaised
      <4>2. CASE p \notin Ops
        BY <2>6, <3>2, <4>2 DEF OpenFails, ConnectRaised
      <4> QED
        BY <4>1, <4>2
    <3> QED
      BY <3>1, <3>2
  <2>7. ASSUME NEW o \in Ops, ExchangeStep(o) PROVE TypeOK'
    <3>1. CASE Enqueue(o)
      BY <3>1 DEF Enqueue
    <3>2. CASE EnqueueOverflows(o)
      BY <3>2 DEF EnqueueOverflows, Finish, PopPending
    <3>3. CASE EnqueueRefused(o)
      BY <3>3, FailedType DEF EnqueueRefused, PopPending
    <3>4. CASE PrepareFails(o)
      BY <3>4 DEF PrepareFails, Finish
    <3>5. CASE Delivered(o)
      BY <3>5 DEF Delivered, Finish
    <3>6. CASE DeliveryFailed(o)
      BY <3>6, FailedType DEF DeliveryFailed, PopPending
    <3>7. CASE Answered(o)
      <4>1. /\ PopPending(o)
            /\ UNCHANGED <<link, queue, active, sendStarted, completion, reply, sent>>
        BY <3>7 DEF Answered
      <4>2. CASE Finish(o, "ok")
        BY <4>1, <4>2 DEF Finish, PopPending
      <4>3. CASE reply[o] \in {"notsent", "unknown"} /\ Failed(o, reply[o])
        BY <4>1, <4>3, FailedType DEF PopPending
      <4> QED
        BY <3>7, <4>2, <4>3 DEF Answered
    <3>8. CASE TimesOut(o)
      BY <3>8, FailedType DEF TimesOut, PopPending
    <3> QED
      BY <2>7, <3>1, <3>2, <3>3, <3>4, <3>5, <3>6, <3>7, <3>8 DEF ExchangeStep
  <2>8. ASSUME NEW o \in Ops, CancelCaller(o) PROVE TypeOK'
    <3>1. CASE pc[o] \in {"queued", "reply"}
      <4>1. /\ PopPending(o)
            /\ completion' = [completion EXCEPT ![o] = IF @ = "open" THEN "cancelled" ELSE @]
            /\ reply' = [reply EXCEPT ![o] = IF @ = "open" THEN "cancelled" ELSE @]
        BY <2>8, <3>1 DEF CancelCaller
      <4>2. /\ pending' \in [Ops -> Nat]
            /\ completion' \in [Ops -> Futures] /\ reply' \in [Ops -> Futures]
        BY <4>1 DEF PopPending
      <4> QED
        BY <2>8, <4>2 DEF CancelCaller, Finish
    <3>2. CASE pc[o] \notin {"queued", "reply"}
      BY <2>8, <3>2 DEF CancelCaller, Finish
    <3> QED
      BY <3>1, <3>2
  <2>9. ASSUME NEW o \in Ops, RouteReply(o) PROVE TypeOK'
    BY <2>9 DEF RouteReply, PopPending
  <2>10. CASE WriterTake
    <3>1. /\ queue # <<>> /\ active' = Head(queue) /\ queue' = Tail(queue)
          /\ sent' = [sent EXCEPT ![Head(queue)] = @ + 1]
          /\ sendStarted' = [sendStarted EXCEPT ![Head(queue)] = TRUE]
          /\ UNCHANGED <<link, pending, completion, reply, pc, replays, verdict>>
      BY <2>10 DEF WriterTake
    <3>2. Head(queue) \in Ops /\ Tail(queue) \in Seq(Ops) /\ Len(Tail(queue)) <= QueueCapacity
      BY <3>1
    <3>3. sent' \in [Ops -> Nat]
      <4>1. sent \in [Ops -> Nat]
        OBVIOUS
      <4> HIDE DEF TypeOK, States, Steps, Futures, Procs, link, exchange, history
      <4>2. sent[Head(queue)] + 1 \in Nat
        BY <3>2, <4>1
      <4> QED
        BY <3>1, <3>2, <4>1, <4>2
    <3>4. sendStarted' \in [Ops -> BOOLEAN]
      BY <3>1, <3>2
    <3> QED
      BY <3>1, <3>2, <3>3, <3>4
  <2>11. CASE WriterDone \/ WriterFailsClosing
    BY <2>11 DEF WriterDone, WriterFailsClosing
  <2>12. ASSUME NEW target \in {"failed", "reconnecting", "idle"},
                LoseConnection(target)
         PROVE  TypeOK'
    BY <2>12 DEF LoseConnection, FailOutstanding, FailReplies, WriteVerdict
  <2>13. CASE BeginClose
    BY <2>13 DEF BeginClose, FailOutstanding, FailReplies, WriteVerdict
  <2>14. CASE EndClose
    BY <2>14 DEF EndClose
  <2>15. CASE UNCHANGED vars
    BY <2>15 DEF vars
  <2> QED
    BY <2>1, <2>2, <2>3, <2>4, <2>5, <2>6, <2>7, <2>8, <2>9, <2>10, <2>11,
       <2>12, <2>13, <2>14, <2>15 DEF Next, ConnectStep
<1> QED
  BY <1>1, <1>2, PTL DEF Spec

------------------------------------------------------------------------------
(***************************************************************************)
(* The writer never loses a waiter.                                        *)
(***************************************************************************)

\* Only the holder of the lock opens a connection, and never over a live one;
\* aclose() holds it while it closes.
LockInv ==
  /\ \A p \in Procs : pc[p] \in {"teardown", "opening"} =>
       lock = p /\ state \notin {"ready", "closing", "closed"}
  /\ lock = Closer => state = "closing"

\* The queue and the active write belong to a live connection.
WriterInv ==
  /\ queue # <<>> => state = "ready"
  /\ active # NoOne => state \in {"ready", "closing"}

\* An operation is queued at most once.
Distinct == \A i, j \in 1..Len(queue) : queue[i] = queue[j] => i = j

\* Where an operation's item is, given what its caller waits for.
ItemInv ==
  \A o \in Ops :
    /\ o \in Queued =>
         /\ pc[o] \in {"queued", "done"} /\ completion[o] \in {"open", "cancelled"}
         /\ active # o
    /\ completion[o] = "open" =>
         /\ pc[o] = "queued" /\ state = "ready" /\ (o \in Queued \/ active = o)
    /\ active = o /\ state = "ready" =>
         pc[o] \in {"queued", "done"} /\ completion[o] \in {"open", "cancelled"}

\* What the queue operations of the writer do to the set of queued items.
LEMMA QueuedSame ==
  Distinct /\ queue' = queue => Queued' = Queued /\ Distinct'
BY DEF Queued, Distinct

\* An empty queue holds nothing.
LEMMA QueuedEmpty ==
  queue' = <<>> => Queued' = {} /\ Distinct'
BY DEF Queued, Distinct

\* Appending an item adds it to what is queued.
LEMMA QueuedAppend ==
  ASSUME NEW o \in Ops, queue \in Seq(Ops), Distinct, o \notin Queued,
         queue' = Append(queue, o)
  PROVE  Queued' = Queued \cup {o} /\ Distinct'
<1>1. /\ Len(queue') = Len(queue) + 1 /\ Len(queue) \in Nat
      /\ DOMAIN queue = 1..Len(queue) /\ DOMAIN queue' = 1..(Len(queue) + 1)
      /\ \A i \in 1..Len(queue) : queue'[i] = queue[i]
      /\ queue'[Len(queue) + 1] = o
  OBVIOUS
<1>2. Queued' = Queued \cup {o}
  <2>1. Queued' = {queue'[i] : i \in 1..(Len(queue) + 1)}
    BY <1>1 DEF Queued
  <2>2. Queued = {queue[i] : i \in 1..Len(queue)}
    BY <1>1 DEF Queued
  <2>3. ASSUME NEW x \in Queued' PROVE x \in Queued \cup {o}
    BY <1>1, <2>1, <2>2
  <2>4. ASSUME NEW x \in Queued \cup {o} PROVE x \in Queued'
    BY <1>1, <2>1, <2>2
  <2> QED
    BY <2>3, <2>4
<1>3. Distinct'
  <2>1. \A i \in 1..Len(queue) : queue[i] # o
    BY <1>1 DEF Queued
  <2> QED
    BY <1>1, <2>1 DEF Distinct
<1> QED
  BY <1>2, <1>3

\* Taking the head removes it from what is queued, if it was there once.
LEMMA QueuedTail ==
  ASSUME queue \in Seq(Ops), Distinct, queue # <<>>, queue' = Tail(queue)
  PROVE  /\ Head(queue) \in Ops /\ Head(queue) \in Queued
         /\ Queued' = Queued \ {Head(queue)} /\ Distinct'
<1>1. /\ Len(queue) \in Nat \ {0} /\ Len(queue') = Len(queue) - 1
      /\ DOMAIN queue = 1..Len(queue) /\ DOMAIN queue' = 1..(Len(queue) - 1)
      /\ \A i \in 1..(Len(queue) - 1) : queue'[i] = queue[i + 1]
      /\ Head(queue) = queue[1] /\ queue[1] \in Ops
  OBVIOUS
<1>2. Queued' = {queue'[i] : i \in 1..(Len(queue) - 1)} /\ Queued = {queue[i] : i \in 1..Len(queue)}
  BY <1>1 DEF Queued
<1>3. ASSUME NEW x \in Queued' PROVE x \in Queued \ {Head(queue)}
  <2>1. PICK i \in 1..(Len(queue) - 1) : x = queue[i + 1]
    BY <1>1, <1>2
  <2> QED
    BY <1>1, <1>2, <2>1 DEF Distinct
<1>4. ASSUME NEW x \in Queued \ {Head(queue)} PROVE x \in Queued'
  <2>1. PICK i \in 1..Len(queue) : x = queue[i] /\ i # 1
    BY <1>1, <1>2
  <2>2. i - 1 \in 1..(Len(queue) - 1) /\ queue'[i - 1] = x
    BY <1>1, <2>1
  <2> QED
    BY <1>2, <2>2
<1>5. Distinct'
  <2>1. ASSUME NEW i \in 1..(Len(queue) - 1), NEW j \in 1..(Len(queue) - 1),
               queue'[i] = queue'[j]
        PROVE  i = j
    <3>1. i + 1 \in 1..Len(queue) /\ j + 1 \in 1..Len(queue) /\ queue[i + 1] = queue[j + 1]
      BY <1>1, <2>1
    <3>2. i + 1 = j + 1
      BY <3>1 DEF Distinct
    <3> QED
      BY <3>2
  <2> QED
    BY <1>1, <2>1 DEF Distinct
<1>6. Head(queue) \in Queued
  BY <1>1, <1>2
<1> QED
  BY <1>1, <1>3, <1>4, <1>5, <1>6

\* Only the lock holder passes through teardown and opening.
LEMMA LockStep ==
  ASSUME TypeOK, LockInv, WriterInv, Next PROVE LockInv'
<1> USE NamesAssumption DEF TypeOK, LockInv, Procs, Supervisor, Closer, NoOne, link
<1>1. ASSUME NEW p \in Procs, ConnectStep(p) PROVE LockInv'
  <2>1. CASE ReturnReady(p)
    BY <2>1 DEF ReturnReady, Connected
  <2>2. CASE RejectClosed(p)
    BY <2>2 DEF RejectClosed, ConnectRaised
  <2>3. CASE BeginConnect(p)
    BY <2>3 DEF BeginConnect
  <2>4. CASE TeardownConnection(p)
    BY <2>4 DEF TeardownConnection
  <2>5. CASE OpenSucceeds(p) \/ OpenFails(p)
    <3>1. /\ pc[p] = "opening"
          /\ \E x : x \notin {"teardown", "opening"} /\ pc' = [pc EXCEPT ![p] = x]
      BY <2>5 DEF OpenSucceeds, OpenFails, Connected, ConnectRaised
    <3>2. \A q \in Procs : pc'[q] \notin {"teardown", "opening"}
      BY <3>1
    <3> QED
      BY <2>5, <3>2 DEF OpenSucceeds, OpenFails
  <2> QED
    BY <1>1, <2>1, <2>2, <2>3, <2>4, <2>5 DEF ConnectStep
<1>2. ASSUME NEW o \in Ops, ExchangeStep(o) PROVE LockInv'
  <2>1. /\ state' = state /\ lock' = lock
        /\ \E x : x \notin {"teardown", "opening"} /\ pc' = [pc EXCEPT ![o] = x]
    BY <1>2 DEF ExchangeStep, Enqueue, EnqueueOverflows, EnqueueRefused,
       PrepareFails, Delivered, DeliveryFailed, Answered, TimesOut, Finish,
       Failed, ConnectRaised
  <2> QED
    BY <2>1
<1>3. ASSUME NEW o \in Ops, CancelCaller(o) PROVE LockInv'
  BY <1>3 DEF CancelCaller, Finish
<1>4. CASE WriterTake \/ WriterDone \/ WriterFailsClosing \/ \E o \in Ops : RouteReply(o)
  BY <1>4 DEF WriterTake, WriterDone, WriterFailsClosing, RouteReply
<1>5. ASSUME NEW target \in {"failed", "reconnecting", "idle"},
             LoseConnection(target)
      PROVE  LockInv'
  BY <1>5 DEF LoseConnection
<1>6. CASE BeginClose \/ EndClose
  BY <1>6 DEF BeginClose, EndClose
<1> QED
  BY <1>1, <1>2, <1>3, <1>4, <1>5, <1>6 DEF Next

\* Every step that leaves the ready state empties the queue.
LEMMA WriterStep ==
  ASSUME TypeOK, LockInv, WriterInv, Next PROVE WriterInv'
<1> USE NamesAssumption DEF TypeOK, LockInv, WriterInv, Procs, Supervisor, Closer, NoOne, link
<1>1. ASSUME NEW p \in Procs, ConnectStep(p) PROVE WriterInv'
  <2>1. CASE ReturnReady(p) \/ RejectClosed(p) \/ BeginConnect(p)
    BY <2>1 DEF ReturnReady, RejectClosed, BeginConnect
  <2>2. CASE TeardownConnection(p)
    BY <2>2 DEF TeardownConnection
  <2>3. CASE OpenSucceeds(p)
    BY <2>3 DEF OpenSucceeds
  <2>4. CASE OpenFails(p)
    BY <2>4 DEF OpenFails
  <2> QED
    BY <1>1, <2>1, <2>2, <2>3, <2>4 DEF ConnectStep
<1>2. ASSUME NEW o \in Ops, ExchangeStep(o) PROVE WriterInv'
  BY <1>2 DEF ExchangeStep, Enqueue, EnqueueOverflows, EnqueueRefused,
     PrepareFails, Delivered, DeliveryFailed, Answered, TimesOut
<1>3. CASE \E o \in Ops : CancelCaller(o) \/ RouteReply(o)
  BY <1>3 DEF CancelCaller, RouteReply
<1>4. CASE WriterTake
  BY <1>4 DEF WriterTake
<1>5. CASE WriterDone \/ WriterFailsClosing
  BY <1>5 DEF WriterDone, WriterFailsClosing
<1>6. ASSUME NEW target \in {"failed", "reconnecting", "idle"},
             LoseConnection(target)
      PROVE  WriterInv'
  BY <1>6 DEF LoseConnection, FailOutstanding
<1>7. CASE BeginClose \/ EndClose
  BY <1>7 DEF BeginClose, EndClose, FailOutstanding
<1> QED
  BY <1>1, <1>2, <1>3, <1>4, <1>5, <1>6, <1>7 DEF Next

\* Every step keeps each item with its waiter.
LEMMA ItemStep ==
  ASSUME TypeOK, LockInv, WriterInv, Distinct, ItemInv, Next
  PROVE  ItemInv' /\ Distinct'
<1> USE NamesAssumption DEF TypeOK, ItemInv, Procs, Supervisor, Closer, NoOne, link
<1>1. ASSUME NEW p \in Procs, ConnectStep(p) PROVE ItemInv' /\ Distinct'
  <2>1. CASE ReturnReady(p)
    <3>1. Queued' = Queued /\ Distinct'
      BY <2>1, QueuedSame DEF ReturnReady
    <3>2. CASE p \in Ops
      BY <2>1, <3>1, <3>2 DEF ReturnReady, Connected
    <3>3. CASE p \notin Ops
      BY <2>1, <3>1, <3>3 DEF ReturnReady, Connected, exchange
    <3> QED
      BY <3>2, <3>3, <3>1
  <2>2. CASE RejectClosed(p)
    <3>1. Queued' = Queued /\ Distinct'
      BY <2>2, QueuedSame DEF RejectClosed
    <3> QED
      BY <2>2, <3>1 DEF RejectClosed, ConnectRaised, exchange
  <2>3. CASE BeginConnect(p)
    <3>1. Queued' = Queued /\ Distinct'
      BY <2>3, QueuedSame DEF BeginConnect
    <3> QED
      BY <2>3, <3>1 DEF BeginConnect, exchange
  <2>4. CASE TeardownConnection(p)
    <3>1. Queued' = {} /\ Distinct' /\ state # "ready"
      BY <2>4, QueuedEmpty DEF TeardownConnection, LockInv
    <3> QED
      BY <2>4, <3>1 DEF TeardownConnection, exchange
  <2>5. CASE OpenSucceeds(p)
    <3>1. Queued' = {} /\ Distinct' /\ state \notin {"ready", "closing"} /\ active = NoOne
      BY <2>5, QueuedEmpty DEF OpenSucceeds, LockInv, WriterInv
    <3>2. CASE p \in Ops
      BY <2>5, <3>1, <3>2 DEF OpenSucceeds, Connected
    <3>3. CASE p \notin Ops
      BY <2>5, <3>1, <3>3 DEF OpenSucceeds, Connected, exchange
    <3> QED
      BY <3>1, <3>2, <3>3
  <2>6. CASE OpenFails(p)
    <3>1. Queued' = Queued /\ Distinct' /\ Queued = {} /\ state # "ready"
      BY <2>6 DEF OpenFails, Queued, Distinct, LockInv, WriterInv
    <3>2. \A o \in Ops : pc[o] = "opening" => completion[o] # "open"
      OBVIOUS
    <3> QED
      BY <2>6, <3>1, <3>2 DEF OpenFails, ConnectRaised, exchange
  <2> QED
    BY <1>1, <2>1, <2>2, <2>3, <2>4, <2>5, <2>6 DEF ConnectStep
<1>2. ASSUME NEW o \in Ops, ExchangeStep(o) PROVE ItemInv' /\ Distinct'
  <2>1. CASE Enqueue(o)
    <3>1. o \notin Queued /\ active # o
      BY <2>1 DEF Enqueue
    <3>2. Queued' = Queued \cup {o} /\ Distinct'
      BY <2>1, <3>1, QueuedAppend DEF Enqueue
    <3> QED
      BY <2>1, <3>1, <3>2 DEF Enqueue
  <2>2. CASE ~Enqueue(o)
    <3>1. queue' = queue
      BY <1>2, <2>2 DEF ExchangeStep, EnqueueOverflows, EnqueueRefused,
         PrepareFails, Delivered, DeliveryFailed, Answered, TimesOut
    <3>2. /\ state' = state /\ active' = active /\ completion' = completion
          /\ pc[o] \in {"prepare", "reply"} \/ completion[o] \in {"ok", "notsent", "unknown"}
      BY <1>2, <2>2 DEF ExchangeStep, EnqueueOverflows, EnqueueRefused,
         PrepareFails, Delivered, DeliveryFailed, Answered, TimesOut, exchange
    <3>3. \E x : pc' = [pc EXCEPT ![o] = x]
      BY <1>2, <2>2 DEF ExchangeStep, EnqueueOverflows, EnqueueRefused,
         PrepareFails, Delivered, DeliveryFailed, Answered, TimesOut, Finish,
         Failed, ConnectRaised
    <3> QED
      BY <3>1, <3>2, <3>3, QueuedSame
  <2> QED
    BY <2>1, <2>2
<1>3. ASSUME NEW o \in Ops, CancelCaller(o) PROVE ItemInv' /\ Distinct'
  <2>1. Queued' = Queued /\ Distinct'
    BY <1>3, QueuedSame DEF CancelCaller
  <2>2. CASE pc[o] \in {"queued", "reply"}
    <3>1. /\ state' = state /\ active' = active /\ pc' = [pc EXCEPT ![o] = "done"]
          /\ completion' = [completion EXCEPT ![o] = IF @ = "open" THEN "cancelled" ELSE @]
      BY <1>3, <2>2 DEF CancelCaller, Finish
    <3> QED
      BY <2>1, <3>1
  <2>3. CASE pc[o] \notin {"queued", "reply"}
    <3>1. /\ state' = state /\ active' = active /\ pc' = [pc EXCEPT ![o] = "done"]
          /\ completion' = completion
      BY <1>3, <2>3 DEF CancelCaller, Finish
    <3> QED
      BY <2>1, <2>3, <3>1
  <2> QED
    BY <2>2, <2>3
<1>4. CASE \E o \in Ops : RouteReply(o)
  <2>1. Queued' = Queued /\ Distinct'
    BY <1>4, QueuedSame DEF RouteReply
  <2> QED
    BY <1>4, <2>1 DEF RouteReply
<1>5. CASE WriterTake
  <2>1. /\ Head(queue) \in Ops /\ Head(queue) \in Queued
        /\ Queued' = Queued \ {Head(queue)} /\ Distinct'
    BY <1>5, QueuedTail DEF WriterTake
  <2> QED
    BY <1>5, <2>1 DEF WriterTake
<1>6. CASE WriterDone \/ WriterFailsClosing
  <2>1. Queued' = Queued /\ Distinct'
    BY <1>6, QueuedSame DEF WriterDone, WriterFailsClosing
  <2>2. CASE WriterDone
    <3>1. /\ active \in Ops /\ active' = NoOne /\ state' = state /\ pc' = pc
          /\ completion' = [completion EXCEPT ![active] = IF @ = "open" THEN "ok" ELSE @]
      BY <2>2 DEF WriterDone
    <3>2. active \notin Queued /\ NoOne \notin Ops
      BY <3>1
    <3> QED
      BY <2>1, <3>1, <3>2
  <2>3. CASE WriterFailsClosing
    BY <2>1, <2>3 DEF WriterFailsClosing, exchange
  <2> QED
    BY <1>6, <2>2, <2>3
<1>7. CASE (\E target \in {"failed", "reconnecting", "idle"} : LoseConnection(target)) \/ BeginClose
  <2>1. /\ queue' = <<>> /\ state' # "ready"
        /\ completion' = [o \in Ops |->
             IF completion[o] = "open" THEN WriteVerdict(o) ELSE completion[o]]
    BY <1>7 DEF LoseConnection, BeginClose, FailOutstanding
  <2>2. Queued' = {} /\ Distinct'
    BY <2>1, QueuedEmpty
  <2>3. \A o \in Ops : completion'[o] # "open"
    BY <2>1 DEF WriteVerdict
  <2> QED
    BY <2>1, <2>2, <2>3
<1>8. CASE EndClose
  <2>1. Queued' = {} /\ Distinct'
    BY <1>8, QueuedEmpty DEF EndClose
  <2>2. \A o \in Ops : completion[o] # "open"
    BY <1>8 DEF EndClose, LockInv
  <2> QED
    BY <1>8, <2>1, <2>2 DEF EndClose, exchange
<1> QED
  BY <1>1, <1>2, <1>3, <1>4, <1>5, <1>6, <1>7, <1>8 DEF Next

\* The four parts together are inductive, relative to the types.
PlaceInv == LockInv /\ WriterInv /\ Distinct /\ ItemInv

\* Items stay with their waiters in every reachable state.
LEMMA PlaceInvariant == Spec => []PlaceInv
<1>1. Init => PlaceInv
  BY NamesAssumption DEF Init, PlaceInv, LockInv, WriterInv, Distinct, ItemInv,
     Queued, Procs, Closer, NoOne
<1>2. TypeOK /\ PlaceInv /\ [Next]_vars => PlaceInv'
  <2>1. CASE TypeOK /\ PlaceInv /\ Next
    BY <2>1, LockStep, WriterStep, ItemStep DEF PlaceInv
  <2>2. CASE PlaceInv /\ UNCHANGED vars
    BY <2>2 DEF PlaceInv, LockInv, WriterInv, Distinct, ItemInv, Queued, vars
  <2> QED
    BY <2>1, <2>2
<1> QED
  BY <1>1, <1>2, TypeCorrect, PTL DEF Spec

\* Whatever fails, closes, reconnects or is cancelled, an unresolved completion
\* belongs to an item the live writer holds or will take: _fail_outstanding and
\* the teardown never drop an item without telling its waiter.
THEOREM NoWaiterStranded == Spec => []NoStrandedWaiter
<1>1. PlaceInv => NoStrandedWaiter
  BY DEF PlaceInv, ItemInv, NoStrandedWaiter
<1> QED
  BY <1>1, PlaceInvariant, PTL

------------------------------------------------------------------------------
(***************************************************************************)
(* The evidence of delivery is right when preparing a frame is atomic.     *)
(***************************************************************************)

\* What the flags of an attempt say of the socket.
EvidenceInv ==
  \A o \in Ops :
    /\ active = o /\ state = "ready" => sendStarted[o]
    /\ completion[o] = "ok" => sendStarted[o]
    /\ pc[o] = "reply" => completion[o] = "ok"
    /\ pc[o] = "prepare" => reply[o] # "notsent"
    /\ pc[o] \in {"queued", "reply"} /\ completion[o] \in {"open", "ok"} =>
         reply[o] # "notsent"
    /\ pc[o] # "done" => verdict[o] = "none"

\* Where the frame of an operation without a deduplication proof can have been.
SentInv ==
  \A o \in Ops \ Dedup :
    /\ sent[o] <= 1
    /\ pc[o] \in {"connect", "teardown", "opening", "prepare"} => sent[o] = 0
    /\ o \in Queued => sent[o] = 0 /\ verdict[o] \in {"none", "cancelled"}
    /\ pc[o] = "queued" /\ completion[o] = "notsent" => sent[o] = 0
    /\ verdict[o] = "notsent" => sent[o] = 0

\* Every step keeps the flags of the attempt in line with the socket.
LEMMA EvidenceStep ==
  ASSUME ~PrepareSuspends, TypeOK, PlaceInv, EvidenceInv, Next PROVE EvidenceInv'
<1> USE NamesAssumption DEF TypeOK, EvidenceInv, Procs, Supervisor, Closer, NoOne, link
<1>1. ASSUME NEW p \in Procs, ConnectStep(p) PROVE EvidenceInv'
  <2>1. CASE ReturnReady(p) \/ OpenSucceeds(p)
    <3>1. /\ active' = active /\ verdict' = verdict
          /\ pc[p] # "done" /\ (p \in Ops => active # p)
          /\ active # NoOne => state' = state
      BY <2>1 DEF ReturnReady, OpenSucceeds, history, PlaceInv, ItemInv, LockInv, WriterInv
    <3>2. \E gen : Connected(p, gen)
      BY <2>1 DEF ReturnReady, OpenSucceeds
    <3>3. CASE p \in Ops
      <4>1. /\ pc' = [pc EXCEPT ![p] = "prepare"]
            /\ completion' = [completion EXCEPT ![p] = "none"]
            /\ sendStarted' = [sendStarted EXCEPT ![p] = FALSE]
            /\ \E r \in {"open", "none"} : reply' = [reply EXCEPT ![p] = r]
        BY <3>2, <3>3 DEF Connected
      <4> QED
        BY <3>1, <3>3, <4>1
    <3>4. CASE p \notin Ops
      BY <3>1, <3>2, <3>4 DEF Connected, exchange
    <3> QED
      BY <3>3, <3>4
  <2>2. CASE RejectClosed(p)
    BY <2>2 DEF RejectClosed, ConnectRaised, exchange
  <2>3. CASE BeginConnect(p)
    BY <2>3 DEF BeginConnect, exchange, history
  <2>4. CASE TeardownConnection(p)
    BY <2>4 DEF TeardownConnection, exchange, history
  <2>5. CASE OpenFails(p)
    BY <2>5 DEF OpenFails, ConnectRaised, exchange
  <2> QED
    BY <1>1, <2>1, <2>2, <2>3, <2>4, <2>5 DEF ConnectStep
<1>2. ASSUME NEW o \in Ops, ExchangeStep(o) PROVE EvidenceInv'
  <2>1. CASE Enqueue(o)
    BY <2>1 DEF Enqueue, history, PlaceInv, ItemInv
  <2>2. CASE Delivered(o)
    BY <2>2 DEF Delivered, Finish, exchange
  <2>3. CASE TimesOut(o)
    <3>1. /\ state' = state /\ active' = active /\ sendStarted' = sendStarted
          /\ completion' = completion /\ reply' = [reply EXCEPT ![o] = "cancelled"]
      BY <2>3 DEF TimesOut
    <3>2. \/ \E v : pc' = [pc EXCEPT ![o] = "done"] /\ verdict' = [verdict EXCEPT ![o] = v]
          \/ pc' = [pc EXCEPT ![o] = "connect"] /\ verdict' = verdict
      BY <2>3 DEF TimesOut, Failed, ConnectRaised
    <3> QED
      BY <2>3, <3>1, <3>2 DEF TimesOut
  <2>4. CASE EnqueueOverflows(o) \/ EnqueueRefused(o) \/ PrepareFails(o) \/ DeliveryFailed(o) \/ Answered(o)
    <3>1. /\ state' = state /\ active' = active /\ sendStarted' = sendStarted
          /\ completion' = completion /\ reply' = reply /\ pc[o] # "done"
      BY <2>4 DEF EnqueueOverflows, EnqueueRefused, PrepareFails, DeliveryFailed,
         Answered, exchange
    <3>2. \/ \E v : pc' = [pc EXCEPT ![o] = "done"] /\ verdict' = [verdict EXCEPT ![o] = v]
          \/ pc' = [pc EXCEPT ![o] = "connect"] /\ verdict' = verdict
      BY <2>4 DEF EnqueueOverflows, EnqueueRefused, PrepareFails, DeliveryFailed,
         Answered, Finish, Failed, ConnectRaised
    <3> QED
      BY <3>1, <3>2
  <2> QED
    BY <1>2, <2>1, <2>2, <2>3, <2>4 DEF ExchangeStep
<1>3. ASSUME NEW o \in Ops, CancelCaller(o) PROVE EvidenceInv'
  <2>1. /\ state' = state /\ active' = active /\ sendStarted' = sendStarted
        /\ pc' = [pc EXCEPT ![o] = "done"] /\ verdict' = [verdict EXCEPT ![o] = "cancelled"]
        /\ \E x : completion' = [completion EXCEPT ![o] = x] /\ (x = "ok" => completion[o] = "ok")
        /\ \E x : reply' = [reply EXCEPT ![o] = x]
    BY <1>3 DEF CancelCaller, Finish
  <2> QED
    BY <2>1
<1>4. CASE \E o \in Ops : RouteReply(o)
  BY <1>4 DEF RouteReply, history
<1>5. CASE WriterTake
  BY <1>5 DEF WriterTake
<1>6. CASE WriterDone
  <2>1. /\ active \in Ops /\ active' = NoOne /\ state' = state /\ pc' = pc
        /\ reply' = reply /\ verdict' = verdict /\ sendStarted' = sendStarted
        /\ completion' = [completion EXCEPT ![active] = IF @ = "open" THEN "ok" ELSE @]
    BY <1>6 DEF WriterDone, history
  <2>2. completion[active] = "open" => sendStarted[active]
    BY <2>1 DEF PlaceInv, ItemInv
  <2> QED
    BY <2>1, <2>2
<1>7. CASE WriterFailsClosing
  BY <1>7 DEF WriterFailsClosing, exchange, history
<1>8. CASE (\E target \in {"failed", "reconnecting", "idle"} : LoseConnection(target)) \/ BeginClose
  <2>1. /\ state' # "ready" /\ sendStarted' = sendStarted /\ verdict' = verdict
        /\ \A o \in Ops : pc'[o] = pc[o] /\ pc[o] # "prepare"
        /\ FailOutstanding
    BY <1>8 DEF LoseConnection, BeginClose, Undisturbed, history
  <2>2. \A o \in Ops : completion'[o] # "open" /\ (completion'[o] = "ok" <=> completion[o] = "ok")
    BY <2>1 DEF FailOutstanding, WriteVerdict, PlaceInv, ItemInv
  <2>3. \A o \in Ops : sendStarted[o] /\ reply[o] # "notsent" => reply'[o] # "notsent"
    BY <2>1 DEF FailOutstanding, FailReplies
  <2> QED
    BY <2>1, <2>2, <2>3
<1>9. CASE EndClose
  BY <1>9 DEF EndClose, exchange, history
<1> QED
  BY <1>1, <1>2, <1>3, <1>4, <1>5, <1>6, <1>7, <1>8, <1>9 DEF Next

\* Every step keeps a frame that may be sent again unsent.
LEMMA SentStep ==
  ASSUME TypeOK, PlaceInv, EvidenceInv, SentInv, Next PROVE SentInv'
<1> USE NamesAssumption DEF TypeOK, SentInv, Procs, Supervisor, Closer, NoOne, link
<1>1. ASSUME NEW p \in Procs, ConnectStep(p) PROVE SentInv'
  <2>1. sent' = sent /\ (Queued' = Queued \/ Queued' = {})
    <3>1. CASE ReturnReady(p) \/ RejectClosed(p) \/ BeginConnect(p)
      <4>1. sent' = sent /\ queue' = queue
        BY <3>1 DEF ReturnReady, RejectClosed, BeginConnect, history
      <4> QED
        BY <4>1 DEF Queued
    <3>2. CASE TeardownConnection(p) \/ OpenSucceeds(p)
      <4>1. sent' = sent /\ queue' = <<>>
        BY <3>2 DEF TeardownConnection, OpenSucceeds, history
      <4> QED
        BY <4>1, QueuedEmpty
    <3>3. CASE OpenFails(p)
      <4>1. sent' = sent /\ queue' = queue
        BY <3>3 DEF OpenFails
      <4> QED
        BY <4>1 DEF Queued
    <3> QED
      BY <1>1, <3>1, <3>2, <3>3 DEF ConnectStep
  <2>2. CASE ReturnReady(p) \/ OpenSucceeds(p)
    <3>1. verdict' = verdict /\ pc[p] \in {"connect", "opening"} /\ \E gen : Connected(p, gen)
      BY <2>2 DEF ReturnReady, OpenSucceeds, history
    <3>2. CASE p \in Ops
      <4>1. /\ pc' = [pc EXCEPT ![p] = "prepare"]
            /\ completion' = [completion EXCEPT ![p] = "none"]
        BY <3>1, <3>2 DEF Connected
      <4> QED
        BY <2>1, <3>1, <4>1
    <3>3. CASE p \notin Ops
      BY <2>1, <3>1, <3>3 DEF Connected, exchange
    <3> QED
      BY <3>2, <3>3
  <2>3. CASE RejectClosed(p) \/ OpenFails(p)
    <3>1. /\ pc[p] \in {"connect", "opening"} /\ completion' = completion
          /\ \/ ConnectRaised(p, "closed") \/ ConnectRaised(p, "connecterror")
             \/ pc' = [pc EXCEPT ![p] = "connect"] /\ verdict' = verdict
      BY <2>3 DEF RejectClosed, OpenFails, exchange
    <3>2. p \in Ops => p \notin Queued
      BY <3>1 DEF PlaceInv, ItemInv
    <3> QED
      BY <2>1, <3>1, <3>2 DEF ConnectRaised
  <2>4. CASE BeginConnect(p) \/ TeardownConnection(p)
    <3>1. /\ pc[p] \in {"connect", "teardown"} /\ completion' = completion /\ verdict' = verdict
          /\ \E x \in {"teardown", "opening"} : pc' = [pc EXCEPT ![p] = x]
      BY <2>4 DEF BeginConnect, TeardownConnection, exchange, history
    <3> QED
      BY <2>1, <3>1
  <2> QED
    BY <1>1, <2>2, <2>3, <2>4 DEF ConnectStep
<1>2. ASSUME NEW o \in Ops, ExchangeStep(o) PROVE SentInv'
  <2>1. sent' = sent
    BY <1>2 DEF ExchangeStep, Enqueue, EnqueueOverflows, EnqueueRefused,
       PrepareFails, Delivered, DeliveryFailed, Answered, TimesOut, history
  <2>2. CASE Enqueue(o)
    <3>1. o \notin Queued /\ verdict[o] = "none" /\ verdict' = verdict
      BY <2>2 DEF Enqueue, PlaceInv, ItemInv, EvidenceInv, history
    <3>2. Queued' = Queued \cup {o}
      BY <2>2, <3>1, QueuedAppend DEF Enqueue, PlaceInv
    <3> QED
      BY <2>1, <2>2, <3>1, <3>2 DEF Enqueue
  <2>3. CASE ~Enqueue(o)
    <3>1. Queued' = Queued /\ completion' = completion
      BY <1>2, <2>3 DEF ExchangeStep, EnqueueOverflows, EnqueueRefused,
         PrepareFails, Delivered, DeliveryFailed, Answered, TimesOut, exchange, Queued
    <3>2. pc[o] \in {"prepare", "reply"} \/ completion[o] \in {"ok", "notsent", "unknown"}
      BY <1>2, <2>3 DEF ExchangeStep, EnqueueOverflows, EnqueueRefused,
         PrepareFails, Delivered, DeliveryFailed, Answered, TimesOut
    <3>3. o \notin Queued
      BY <3>2 DEF PlaceInv, ItemInv
    <3> DEFINE Moved ==
          /\ \E x \in {"done", "connect", "reply"} : pc' = [pc EXCEPT ![o] = x]
          /\ \A q \in Ops \ {o} : verdict'[q] = verdict[q]
          /\ o \notin Dedup /\ pc'[o] = "connect" => sent[o] = 0
          /\ o \notin Dedup /\ verdict'[o] = "notsent" => sent[o] = 0
    <3>4. Moved
      <4>1. ASSUME NEW e, Failed(o, e), o \notin Dedup /\ e = "notsent" => sent[o] = 0
            PROVE  Moved
        <5>1. CASE MayReplay(o, e)
          BY <4>1, <5>1 DEF Failed, MayReplay, ConnectRaised
        <5>2. CASE ~MayReplay(o, e)
          BY <4>1, <5>2 DEF Failed
        <5> QED
          BY <5>1, <5>2
      <4>2. CASE EnqueueOverflows(o) \/ PrepareFails(o) \/ Delivered(o)
        BY <4>2 DEF EnqueueOverflows, PrepareFails, Delivered, Finish
      <4>3. CASE EnqueueRefused(o)
        BY <4>1, <4>3 DEF EnqueueRefused
      <4>4. CASE DeliveryFailed(o)
        BY <4>1, <4>4 DEF DeliveryFailed
      <4>5. CASE Answered(o)
        <5>1. reply[o] # "notsent"
          BY <4>5 DEF Answered, EvidenceInv
        <5> QED
          BY <4>1, <4>5, <5>1 DEF Answered, Finish
      <4>6. CASE TimesOut(o)
        <5>1. sendStarted[o] /\ Failed(o, "timeout")
          BY <4>6 DEF TimesOut, EvidenceInv
        <5> QED
          BY <4>1, <5>1
      <4> QED
        BY <1>2, <2>3, <4>2, <4>3, <4>4, <4>5, <4>6 DEF ExchangeStep
    <3>5. ASSUME NEW q \in Ops \ Dedup, q # o PROVE SentInv!(q)'
      BY <2>1, <3>1, <3>4, <3>5
    <3>6. o \notin Dedup => SentInv!(o)'
      BY <2>1, <3>1, <3>3, <3>4
    <3> QED
      BY <3>5, <3>6
  <2> QED
    BY <2>2, <2>3
<1>3. ASSUME NEW o \in Ops, CancelCaller(o) PROVE SentInv'
  <2>1. /\ sent' = sent /\ Queued' = Queued
        /\ pc' = [pc EXCEPT ![o] = "done"] /\ verdict' = [verdict EXCEPT ![o] = "cancelled"]
        /\ \E x : completion' = [completion EXCEPT ![o] = x] /\ (x = "notsent" => completion[o] = "notsent")
    BY <1>3 DEF CancelCaller, Finish, Queued
  <2> QED
    BY <2>1
<1>4. CASE \E o \in Ops : RouteReply(o)
  BY <1>4 DEF RouteReply, history, Queued
<1>5. CASE WriterTake
  <2>1. /\ Head(queue) \in Ops /\ Head(queue) \in Queued
        /\ Queued' = Queued \ {Head(queue)}
    BY <1>5, QueuedTail DEF WriterTake, PlaceInv
  <2>2. /\ pc[Head(queue)] \in {"queued", "done"}
        /\ completion[Head(queue)] \in {"open", "cancelled"}
    BY <2>1 DEF PlaceInv, ItemInv
  <2> QED
    BY <1>5, <2>1, <2>2 DEF WriterTake
<1>6. CASE WriterDone \/ WriterFailsClosing
  <2>1. /\ Queued' = Queued /\ sent' = sent /\ pc' = pc /\ verdict' = verdict
        /\ \A o \in Ops : completion'[o] = "notsent" => completion[o] = "notsent"
    BY <1>6 DEF WriterDone, WriterFailsClosing, exchange, history, Queued
  <2> QED
    BY <2>1
<1>7. CASE (\E target \in {"failed", "reconnecting", "idle"} : LoseConnection(target)) \/ BeginClose
  <2>1. /\ sent' = sent /\ verdict' = verdict /\ FailOutstanding
        /\ \A o \in Ops : pc'[o] = pc[o]
    BY <1>7 DEF LoseConnection, BeginClose, history
  <2>2. Queued' = {}
    BY <2>1, QueuedEmpty DEF FailOutstanding
  <2>3. \A o \in Ops : completion'[o] = "notsent" => completion[o] = "notsent" \/ o \in Queued
    BY <2>1 DEF FailOutstanding, WriteVerdict
  <2> QED
    BY <2>1, <2>2, <2>3
<1>8. CASE EndClose
  <2>1. Queued' = {}
    BY <1>8, QueuedEmpty DEF EndClose
  <2> QED
    BY <1>8, <2>1 DEF EndClose, exchange, history
<1> QED
  BY <1>1, <1>2, <1>3, <1>4, <1>5, <1>6, <1>7, <1>8 DEF Next

\* The evidence is right in every reachable state.
LEMMA SentInvariant ==
  ASSUME ~PrepareSuspends PROVE Spec => [](EvidenceInv /\ SentInv)
<1>1. Init => EvidenceInv /\ SentInv
  BY NamesAssumption DEF Init, EvidenceInv, SentInv, Queued, Procs, NoOne
<1>2. TypeOK /\ PlaceInv /\ EvidenceInv /\ SentInv /\ [Next]_vars => (EvidenceInv /\ SentInv)'
  <2>1. CASE TypeOK /\ PlaceInv /\ EvidenceInv /\ SentInv /\ Next
    BY <2>1, EvidenceStep, SentStep
  <2>2. CASE EvidenceInv /\ SentInv /\ UNCHANGED vars
    BY <2>2 DEF EvidenceInv, SentInv, Queued, vars
  <2> QED
    BY <2>1, <2>2
<1> QED
  BY <1>1, <1>2, TypeCorrect, PlaceInvariant, PTL DEF Spec

\* When nothing in _prepare_outbound suspends, an operation without a
\* deduplication proof reaches the socket at most once, through any number of
\* connection losses, reconnects and replays.
THEOREM AtMostOnce == ASSUME ~PrepareSuspends PROVE Spec => []AtMostOnceWithoutDedup
<1>1. TypeOK /\ SentInv => AtMostOnceWithoutDedup
  BY DEF SentInv, AtMostOnceWithoutDedup
<1> QED
  BY <1>1, SentInvariant, TypeCorrect, PTL

\* Under the same condition, and when no policy replays what may have been
\* delivered, DeliveryNotSentError is only ever raised for an operation whose
\* frame was never handed to the socket.
THEOREM NotSent ==
  ASSUME ~PrepareSuspends, Dedup = {} PROVE Spec => []NotSentIsNotSent
<1>1. SentInv => NotSentIsNotSent
  BY DEF SentInv, NotSentIsNotSent
<1> QED
  BY <1>1, SentInvariant, PTL

------------------------------------------------------------------------------
(***************************************************************************)
(* The exchange keeps the promise of OneShotDelivery, when preparing a     *)
(* frame is atomic and no policy replays what may have been delivered.     *)
(***************************************************************************)

\* What an attempt believes was handed to the socket was.
HandedInv ==
  \A o \in Ops : sendStarted[o] \/ completion[o] \in {"ok", "unknown"} => sent[o] > 0

\* Every step keeps the belief true.
LEMMA HandedStep ==
  ASSUME TypeOK, PlaceInv, EvidenceInv, HandedInv, Next PROVE HandedInv'
<1> USE NamesAssumption DEF TypeOK, HandedInv, Procs, Supervisor, Closer, NoOne
<1>1. ASSUME NEW p \in Procs, ConnectStep(p) PROVE HandedInv'
  <2>1. CASE ReturnReady(p) \/ OpenSucceeds(p)
    <3>1. sent' = sent /\ \E gen : Connected(p, gen)
      BY <2>1 DEF ReturnReady, OpenSucceeds, history
    <3>2. CASE p \in Ops
      <4>1. /\ completion' = [completion EXCEPT ![p] = "none"]
            /\ sendStarted' = [sendStarted EXCEPT ![p] = FALSE]
        BY <3>1, <3>2 DEF Connected
      <4> QED
        BY <3>1, <4>1
    <3>3. CASE p \notin Ops
      BY <3>1, <3>3 DEF Connected, exchange
    <3> QED
      BY <3>2, <3>3
  <2>2. CASE RejectClosed(p) \/ BeginConnect(p) \/ TeardownConnection(p) \/ OpenFails(p)
    BY <2>2 DEF RejectClosed, BeginConnect, TeardownConnection, OpenFails, exchange, history
  <2> QED
    BY <1>1, <2>1, <2>2 DEF ConnectStep
<1>2. ASSUME NEW o \in Ops, ExchangeStep(o) PROVE HandedInv'
  <2>1. sent' = sent /\ sendStarted' = sendStarted
    BY <1>2 DEF ExchangeStep, Enqueue, EnqueueOverflows, EnqueueRefused,
       PrepareFails, Delivered, DeliveryFailed, Answered, TimesOut, exchange, history
  <2>2. completion' = completion \/ completion' = [completion EXCEPT ![o] = "open"]
    BY <1>2 DEF ExchangeStep, Enqueue, EnqueueOverflows, EnqueueRefused,
       PrepareFails, Delivered, DeliveryFailed, Answered, TimesOut, exchange
  <2> QED
    BY <2>1, <2>2
<1>3. ASSUME NEW o \in Ops, CancelCaller(o) PROVE HandedInv'
  <2>1. /\ sent' = sent /\ sendStarted' = sendStarted
        /\ \/ completion' = completion
           \/ completion' = [completion EXCEPT ![o] = IF @ = "open" THEN "cancelled" ELSE @]
    BY <1>3 DEF CancelCaller
  <2> QED
    BY <2>1
<1>4. CASE \E o \in Ops : RouteReply(o)
  BY <1>4 DEF RouteReply, history
<1>5. CASE WriterTake
  <2>1. Head(queue) \in Ops
    BY <1>5 DEF WriterTake
  <2>2. /\ sent' = [sent EXCEPT ![Head(queue)] = @ + 1] /\ completion' = completion
        /\ sendStarted' = [sendStarted EXCEPT ![Head(queue)] = TRUE]
    BY <1>5 DEF WriterTake
  <2> QED
    BY <2>1, <2>2
<1>6. CASE WriterDone
  <2>1. /\ active \in Ops /\ sent' = sent /\ sendStarted' = sendStarted
        /\ completion' = [completion EXCEPT ![active] = IF @ = "open" THEN "ok" ELSE @]
    BY <1>6 DEF WriterDone, history
  <2>2. completion[active] = "open" => sendStarted[active]
    BY <2>1 DEF PlaceInv, ItemInv, EvidenceInv
  <2> QED
    BY <2>1, <2>2
<1>7. CASE WriterFailsClosing \/ EndClose
  BY <1>7 DEF WriterFailsClosing, EndClose, exchange, history
<1>8. CASE (\E target \in {"failed", "reconnecting", "idle"} : LoseConnection(target)) \/ BeginClose
  <2>1. sent' = sent /\ sendStarted' = sendStarted /\ FailOutstanding
    BY <1>8 DEF LoseConnection, BeginClose, history
  <2>2. \A o \in Ops : completion'[o] \in {"ok", "unknown"} =>
          \/ completion[o] \in {"ok", "unknown"}
          \/ completion[o] = "open" /\ active = o
    BY <2>1 DEF FailOutstanding, WriteVerdict
  <2>3. \A o \in Ops : completion[o] = "open" /\ active = o => sendStarted[o]
    BY DEF PlaceInv, ItemInv, EvidenceInv
  <2> QED
    BY <2>1, <2>2, <2>3
<1> QED
  BY <1>1, <1>2, <1>3, <1>4, <1>5, <1>6, <1>7, <1>8 DEF Next

\* All that is known of an exchange.
PromiseInv == TypeOK /\ PlaceInv /\ EvidenceInv /\ SentInv /\ HandedInv

\* It is known in every reachable state.
LEMMA PromiseInvariant == ASSUME ~PrepareSuspends PROVE Spec => []PromiseInv
<1>1. Init => HandedInv
  BY DEF Init, HandedInv
<1>2. TypeOK /\ PlaceInv /\ EvidenceInv /\ HandedInv /\ [Next]_vars => HandedInv'
  <2>1. CASE TypeOK /\ PlaceInv /\ EvidenceInv /\ HandedInv /\ Next
    BY <2>1, HandedStep
  <2>2. CASE HandedInv /\ UNCHANGED vars
    BY <2>2 DEF HandedInv, vars
  <2> QED
    BY <2>1, <2>2
<1> QED
  BY <1>1, <1>2, TypeCorrect, PlaceInvariant, SentInvariant, PTL DEF Spec, PromiseInv

\* A verdict that an operation does not have yet and that is true concludes it.
LEMMA ConcludeIs ==
  ASSUME NEW o \in Ops, NEW v \in Abs!Verdicts \ {"none"}, sent' = sent, verdict[o] = "none",
         verdict' = [verdict EXCEPT ![o] = v],
         v = "notsent" => sent[o] = 0, v \in {"ok", "unknown", "timeout"} => sent[o] > 0
  PROVE  Abs!ANext
<1>1. Abs!Conclude(o, v)
  BY DEF Abs!Conclude, Abs!Evidence
<1> QED
  BY <1>1 DEF Abs!ANext

\* Reporting evidence that is true concludes the operation or leaves it as it is.
LEMMA FailedConcludes ==
  ASSUME TypeOK, NEW o \in Ops, NEW e \in {"notsent", "unknown", "timeout"}, Failed(o, e),
         verdict[o] = "none", sent' = sent,
         e = "notsent" => sent[o] = 0, e # "notsent" => sent[o] > 0
  PROVE  Abs!ANext \/ UNCHANGED <<sent, verdict>>
<1>1. \/ verdict' = verdict
      \/ verdict' = [verdict EXCEPT ![o] = "connecterror"]
      \/ verdict' = [verdict EXCEPT ![o] = e]
  BY DEF Failed, ConnectRaised
<1> QED
  BY <1>1, ConcludeIs DEF Abs!Verdicts

\* Every step is one of the promise, or none of its business.
LEMMA PromiseStep ==
  ASSUME Dedup = {}, PromiseInv, [Next]_vars
  PROVE  Abs!ANext \/ UNCHANGED <<sent, verdict>>
<1>t. TypeOK /\ PlaceInv /\ EvidenceInv /\ SentInv /\ HandedInv
  BY DEF PromiseInv
<1>n. \A o \in Ops : pc[o] # "done" => verdict[o] = "none"
  BY <1>t DEF EvidenceInv
<1>v. {"closed", "connecterror", "overflow", "error", "cancelled", "ok"} \subseteq Abs!Verdicts \ {"none"}
  BY DEF Abs!Verdicts
<1>1. ASSUME NEW p \in Procs, ConnectStep(p) PROVE Abs!ANext \/ UNCHANGED <<sent, verdict>>
  <2>1. /\ sent' = sent /\ pc[p] # "done"
        /\ \/ verdict' = verdict
           \/ p \in Ops /\ \E v \in {"closed", "connecterror"} : verdict' = [verdict EXCEPT ![p] = v]
    BY <1>1 DEF ConnectStep, ReturnReady, RejectClosed, BeginConnect, TeardownConnection,
       OpenSucceeds, OpenFails, ConnectRaised, history
  <2> QED
    BY <1>n, <1>v, <2>1, ConcludeIs
<1>2. ASSUME NEW o \in Ops, ExchangeStep(o) PROVE Abs!ANext \/ UNCHANGED <<sent, verdict>>
  <2>1. sent' = sent /\ verdict[o] = "none"
    BY <1>2, <1>n DEF ExchangeStep, Enqueue, EnqueueOverflows, EnqueueRefused,
       PrepareFails, Delivered, DeliveryFailed, Answered, TimesOut, history
  <2>2. /\ pc[o] = "prepare" => sent[o] = 0
        /\ pc[o] = "queued" /\ completion[o] = "notsent" => sent[o] = 0
        /\ completion[o] \in {"ok", "unknown"} => sent[o] > 0
        /\ pc[o] = "reply" => sent[o] > 0 /\ sendStarted[o] /\ reply[o] # "notsent"
    BY <1>t DEF SentInv, HandedInv, EvidenceInv
  <2>3. CASE Enqueue(o)
    BY <2>3 DEF Enqueue, history
  <2>4. CASE EnqueueOverflows(o)
    BY <1>v, <2>1, <2>4, ConcludeIs DEF EnqueueOverflows, Finish
  <2>5. CASE PrepareFails(o)
    BY <1>v, <2>1, <2>5, ConcludeIs DEF PrepareFails, Finish
  <2>6. CASE Delivered(o)
    BY <1>v, <2>1, <2>2, <2>6, ConcludeIs DEF Delivered, Finish
  <2>7. CASE EnqueueRefused(o)
    BY <1>t, <2>1, <2>2, <2>7, FailedConcludes DEF EnqueueRefused
  <2>8. CASE DeliveryFailed(o)
    BY <1>t, <2>1, <2>2, <2>8, FailedConcludes DEF DeliveryFailed
  <2>9. CASE Answered(o)
    <3>1. pc[o] = "reply" /\ (Finish(o, "ok") \/ Failed(o, "unknown"))
      BY <2>2, <2>9 DEF Answered
    <3>2. CASE Finish(o, "ok")
      BY <1>v, <2>1, <2>2, <3>1, <3>2, ConcludeIs DEF Finish
    <3>3. CASE Failed(o, "unknown")
      BY <1>t, <2>1, <2>2, <3>1, <3>3, FailedConcludes
    <3> QED
      BY <3>1, <3>2, <3>3
  <2>10. CASE TimesOut(o)
    BY <1>t, <2>1, <2>2, <2>10, FailedConcludes DEF TimesOut
  <2> QED
    BY <1>2, <2>3, <2>4, <2>5, <2>6, <2>7, <2>8, <2>9, <2>10 DEF ExchangeStep
<1>3. ASSUME NEW o \in Ops, CancelCaller(o) PROVE Abs!ANext \/ UNCHANGED <<sent, verdict>>
  <2>1. sent' = sent /\ pc[o] # "done" /\ verdict' = [verdict EXCEPT ![o] = "cancelled"]
    BY <1>3 DEF CancelCaller, Finish
  <2> QED
    BY <1>n, <1>v, <2>1, ConcludeIs
<1>4. CASE WriterTake
  <2>1. /\ Head(queue) \in Ops /\ verdict' = verdict
        /\ sent' = [sent EXCEPT ![Head(queue)] = @ + 1]
    BY <1>4, <1>t DEF WriterTake, TypeOK
  <2>2. Head(queue) \in Queued
    BY <1>4, <1>t, QueuedTail DEF WriterTake, PlaceInv, TypeOK
  <2>3. Abs!Transmit(Head(queue))
    BY <1>t, <2>1, <2>2 DEF Abs!Transmit, SentInv
  <2> QED
    BY <2>1, <2>3 DEF Abs!ANext
<1>5. ASSUME NEW o \in Ops, RouteReply(o) PROVE UNCHANGED <<sent, verdict>>
  BY <1>5 DEF RouteReply, history
<1>6. CASE WriterDone \/ WriterFailsClosing \/ BeginClose \/ EndClose
  BY <1>6 DEF WriterDone, WriterFailsClosing, BeginClose, EndClose, history
<1>7. CASE \E target \in {"failed", "reconnecting", "idle"} : LoseConnection(target)
  BY <1>7 DEF LoseConnection, history
<1>8. CASE UNCHANGED vars
  BY <1>8 DEF vars, history
<1> QED
  BY <1>1, <1>2, <1>3, <1>4, <1>5, <1>6, <1>7, <1>8 DEF Next

\* send() and call() over queues, losses, reconnects and replays implement what a one-shot
\* operation promises: a frame goes out once, a verdict is final and true of the frame.
THEOREM ExchangeKeepsPromise ==
  ASSUME ~PrepareSuspends, Dedup = {} PROVE Spec => OneShotPromise
<1>1. Init => Abs!AInit
  BY DEF Init, Abs!AInit
<1>2. PromiseInv /\ [Next]_vars => [Abs!ANext]_(Abs!avars)
  BY PromiseStep DEF Abs!avars
<1>3. Spec => []PromiseInv
  BY PromiseInvariant
<1> QED
  BY <1>1, <1>2, <1>3, PTL DEF Spec, OneShotPromise, Abs!ASpec
==============================================================================
