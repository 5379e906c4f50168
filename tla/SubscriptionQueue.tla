-------------------------- MODULE SubscriptionQueue --------------------------
(***************************************************************************)
(* One Subscription (eazy_sdk/websocket/subscriptions.py): the bounded     *)
(* queue between the reader task and the application, its overflow and     *)
(* resubscription policies, and the calls the client makes on it when the  *)
(* connection is lost, restored, completed or closed.                      *)
(*                                                                         *)
(* The peer numbers what it sends on the channel.  It resumes where it is  *)
(* asked to, repeats one event, or has forgotten some.                     *)
(***************************************************************************)
EXTENDS Naturals, Sequences, FiniteSets

CONSTANTS
  Capacity,     \* queue_capacity
  Overflows,    \* the overflow policies considered
  Resubscribes, \* the resubscription policies considered
  MaxPosition,  \* bound on what the peer numbers, for TLC
  MaxOffered,   \* bound on events accepted, for TLC
  MaxLosses     \* bound on connection losses, for TLC

ASSUME SubscriptionAssumption ==
  /\ Capacity \in Nat \ {0} /\ {MaxPosition, MaxOffered, MaxLosses} \subseteq Nat
  /\ Overflows \subseteq {"fail", "oldest", "newest"}
  /\ Resubscribes \subseteq {"never", "start", "sequence", "token"}

VARIABLES
  overflow,     \* _overflow, fixed when the subscription is made
  resubscribe,  \* _resubscribe, fixed too
  queue,        \* _queue: events and ends
  state,        \* _state
  closed,       \* _closed
  lastPosition, \* _last_position, 0 for None
  gapPending,   \* _gap_pending
  registered,   \* the record is in the client's routing tables
  link,         \* "up", "down", or "restoring" while _restore_subscriptions sends
  cursor,       \* the position the peer sends next
  closing,      \* aclose(): "no", "sending" its cancel frame, "raised" when that failed
  offered,      \* history: events accepted by _publish, numbered from 1
  taken,        \* history: their positions
  delivered,    \* history: the events the application received
  ended,        \* the application's iteration is over
  losses        \* connection losses so far (bounds the model)

fixed == <<overflow, resubscribe>>
peer == <<link, cursor, losses>>
reading == <<delivered, ended>>
vars == <<fixed, queue, state, closed, lastPosition, gapPending, registered,
          peer, closing, offered, taken, reading>>

Event(n, gap) == [number |-> n, gap |-> gap]
EndMark == Event(0, FALSE)
Terminal == {"completed", "failed", "cancelled"}
Listening == {"active", "resubscribing", "recovering"}
Retained == resubscribe # "never"
Positioned == resubscribe \in {"sequence", "token"}
IsFull(q) == Len(q) = Capacity

Init ==
  /\ overflow \in Overflows /\ resubscribe \in Resubscribes
  /\ queue = <<>> /\ state = "active" /\ closed = FALSE
  /\ lastPosition = 0 /\ gapPending = FALSE /\ registered = TRUE
  /\ link = "up" /\ cursor = 1 /\ closing = "no"
  /\ offered = 0 /\ taken = {} /\ delivered = <<>> /\ ended = FALSE
  /\ losses = 0

(***************************************************************************)
(* Ending                                                                  *)
(***************************************************************************)

\* _put_terminal: a full queue gives up its oldest item for the end.
PutEnd(q) == Append(IF IsFull(q) THEN Tail(q) ELSE q, EndMark)

\* A fault: a subscription that fails is marked and its reader is not told.
FailQuietly ==
  /\ state' = IF state \in Terminal THEN state ELSE "failed"
  /\ closed' = (closed \/ state \notin Terminal)
  /\ UNCHANGED queue

\* _fail: nothing to say to who was told the end already.
Fail ==
  IF state \in Terminal THEN UNCHANGED <<state, closed, queue>>
  ELSE state' = "failed" /\ closed' = TRUE /\ queue' = PutEnd(queue)

\* The client fails the subscription and removes its record: an event it cannot
\* decode or authenticate, a fatal loss, an exhausted budget, its own close.
Abandon ==
  /\ registered /\ Fail /\ registered' = FALSE
  /\ UNCHANGED <<fixed, lastPosition, gapPending, peer, closing, offered, taken,
                 reading>>

\* The peer completes the channel: _complete, then _remove_subscription.
Complete ==
  /\ registered /\ link # "down"
  /\ IF closed THEN UNCHANGED <<state, closed, queue>>
     ELSE state' = "completed" /\ closed' = TRUE /\ queue' = PutEnd(queue)
  /\ registered' = FALSE
  /\ UNCHANGED <<fixed, lastPosition, gapPending, peer, closing, offered, taken,
                 reading>>

\* aclose() up to its first suspension: with a READY client it sends a cancel frame.
Close ==
  /\ ~closed
  /\ closed' = TRUE /\ state' = "cancelled" /\ queue' = PutEnd(queue)
  /\ IF link = "down"
     THEN registered' = FALSE /\ UNCHANGED closing
     ELSE closing' = "sending" /\ UNCHANGED registered
  /\ UNCHANGED <<fixed, lastPosition, gapPending, peer, offered, taken, reading>>

\* The cancel frame is written; or it raises, and the record stays.
CloseEnds ==
  /\ closing = "sending"
  /\ \/ closing' = "no" /\ registered' = FALSE
     \/ closing' = "raised" /\ UNCHANGED registered
  /\ UNCHANGED <<fixed, queue, state, closed, lastPosition, gapPending, peer,
                 offered, taken, reading>>
------------------------------------------------------------------------------
(***************************************************************************)
(* Publishing                                                              *)
(***************************************************************************)

\* _extract_position: only the policies that recover read one.
PositionOf(p) == IF Positioned THEN p ELSE 0

\* A hole in a sequence that must have none.
Skips(p) == resubscribe = "sequence" /\ lastPosition > 0 /\ p > lastPosition + 1

\* A fault: the newest event is dropped and nobody says so.
DropNewestSilently == UNCHANGED <<gapPending, queue, state, closed>>

\* DROP_NEWEST: the event is dropped, and the next one queued will say so.
DropNewest == gapPending' = TRUE /\ UNCHANGED <<queue, state, closed>>

\* A fault: the event takes the place of the oldest.
DropOldestInPlace(n) ==
  /\ queue' = <<Event(n, TRUE)>> \o Tail(queue) /\ gapPending' = FALSE
  /\ UNCHANGED <<state, closed>>

\* DROP_OLDEST: the oldest item goes, whatever it is, and the event says so.
DropOldest(n) ==
  /\ queue' = Append(Tail(queue), Event(n, TRUE)) /\ gapPending' = FALSE
  /\ UNCHANGED <<state, closed>>

\* The event numbered n is queued, or the overflow policy decides.
Store(n) ==
  \/ /\ ~IsFull(queue)
     /\ queue' = Append(queue, Event(n, gapPending)) /\ gapPending' = FALSE
     /\ UNCHANGED <<state, closed>>
  \/ IsFull(queue) /\ overflow = "newest" /\ DropNewest
  \/ IsFull(queue) /\ overflow = "oldest" /\ DropOldest(n)
  \/ IsFull(queue) /\ overflow = "fail" /\ Fail /\ UNCHANGED gapPending

\* _publish_subscription and _publish: the record of a subscription that refuses
\* the event is removed, whatever the reason.
Publish ==
  /\ registered /\ link # "down"
  /\ cursor <= MaxPosition /\ offered < MaxOffered
  /\ cursor' = cursor + 1
  /\ IF state \notin Listening THEN
       /\ registered' = FALSE
       /\ UNCHANGED <<queue, state, closed, lastPosition, gapPending, offered, taken>>
     ELSE IF Skips(cursor) THEN
       /\ Fail /\ registered' = FALSE
       /\ UNCHANGED <<lastPosition, gapPending, offered, taken>>
     ELSE
       /\ lastPosition' = PositionOf(cursor)
       /\ offered' = offered + 1 /\ taken' = taken \cup {cursor}
       /\ Store(offered + 1)
       /\ registered' = ~(overflow = "fail" /\ IsFull(queue))
  /\ UNCHANGED <<fixed, link, losses, closing, reading>>

\* __anext__: the next event, or the end of the iteration.
Take ==
  /\ ~ended /\ queue # <<>>
  /\ queue' = Tail(queue)
  /\ IF Head(queue) = EndMark
     THEN ended' = TRUE /\ UNCHANGED delivered
     ELSE delivered' = Append(delivered, Head(queue)) /\ UNCHANGED ended
  /\ UNCHANGED <<fixed, state, closed, lastPosition, gapPending, registered, peer,
                 closing, offered, taken>>
------------------------------------------------------------------------------
(***************************************************************************)
(* The connection                                                          *)
(***************************************************************************)

\* _disconnect_subscriptions after a transient loss.
Lose ==
  /\ link # "down" /\ losses < MaxLosses
  /\ losses' = losses + 1 /\ link' = "down"
  /\ IF link = "restoring" /\ registered THEN   \* its frame fails with the connection
       Fail /\ registered' = FALSE
     ELSE IF ~registered THEN UNCHANGED <<state, closed, queue, registered>>
     ELSE IF Retained THEN
       /\ state' = IF closed THEN state ELSE "disconnected"
       /\ UNCHANGED <<closed, queue, registered>>
     ELSE Fail /\ registered' = FALSE
  /\ UNCHANGED <<fixed, lastPosition, gapPending, cursor, closing, offered, taken,
                 reading>>

\* A fault: every restoration forgets the position, also one that recovers.
ForgetPosition == 0

\* _mark_restoring forgets the position only when the channel starts over.
RestartPosition == IF resubscribe = "start" THEN 0 ELSE lastPosition

\* Where the peer resumes: after the token it was sent, perhaps repeating one event
\* or having forgotten one; without a token, at the start or where it is.
Resumes ==
  IF Positioned /\ lastPosition > 0
  THEN {lastPosition, lastPosition + 1, lastPosition + 2}
  ELSE {1, cursor, cursor + 1}

\* A new connection reaches this record: _mark_restoring, and its frame is sent.
Restore ==
  /\ link = "down" /\ registered /\ closing # "sending"
  /\ link' = "restoring"
  /\ state' = IF Positioned THEN "recovering" ELSE "resubscribing"
  /\ lastPosition' = RestartPosition
  /\ cursor' \in Resumes
  /\ UNCHANGED <<fixed, queue, closed, gapPending, registered, losses, closing,
                 offered, taken, reading>>

\* The frame was written: _mark_active.
Restored ==
  /\ link = "restoring" /\ link' = "up"
  /\ state' = IF closed THEN state ELSE "active"
  /\ UNCHANGED <<fixed, queue, closed, lastPosition, gapPending, registered, cursor,
                 losses, closing, offered, taken, reading>>
------------------------------------------------------------------------------
Next ==
  \/ Publish \/ Take \/ Abandon \/ Complete \/ Close \/ CloseEnds
  \/ Lose \/ Restore \/ Restored

\* The application keeps iterating.
Spec == Init /\ [][Next]_vars /\ WF_vars(Take)
------------------------------------------------------------------------------
(***************************************************************************)
(* Properties                                                              *)
(***************************************************************************)

\* What the application has received and will receive if nothing more happens.  (An
\* end, which has the number 0, is in the queue of a closed subscription only.)
Kept == delivered \o queue

KeptNumbers == {Kept[i].number : i \in 1..Len(Kept)}

Lost == (1..offered) \ KeptNumbers

\* While a subscription is open, every event dropped by an overflow policy is
\* announced by a later event with gap set, delivered or about to be, or will be by
\* the next one; and an event with gap set follows a real loss.
LossesAnnounced ==
  ~closed =>
    /\ \A n \in Lost :
         gapPending \/ \E i \in 1..Len(Kept) : Kept[i].number > n /\ Kept[i].gap
    /\ \A i \in 1..Len(Kept) : Kept[i].gap => \E n \in Lost : n < Kept[i].number

\* RecoverBySequence takes an unbroken run of positions, over any losses and
\* restorations: a hole ends the subscription instead of going unnoticed.
SequenceUnbroken ==
  resubscribe = "sequence" =>
    \A p \in taken, q \in taken : \A r \in p..q : r \in taken

\* An iteration over a subscription that was completed, failed or closed ends, unless
\* aclose() itself raised: its record stays, may be restored with the others, and
\* the next event can push the end out of a full queue.
EndIsReached == closed ~> (ended \/ closing = "raised")

Abs == INSTANCE EventStream
       WITH offered <- offered,
            seen <- [i \in 1..Len(delivered) |-> delivered[i].number],
            ended <- ended

\* What is iterated is what was published: in order, nothing twice.
StreamPromise == Abs!Spec
==============================================================================
