----------------------- MODULE SubscriptionQueueProofs -----------------------
(***************************************************************************)
(* Proofs about SubscriptionQueue, for any capacity, policies, losses of   *)
(* the connection and answers of the peer.                                 *)
(***************************************************************************)
EXTENDS SubscriptionQueue, SequenceTheorems, TLAPS

USE SubscriptionAssumption

\* What a queue holds: events numbered from 1, and ends.
Items == {e \in [number : Nat, gap : BOOLEAN] : e.number = 0 => ~ e.gap}

TypeOK ==
  /\ overflow \in {"fail", "oldest", "newest"}
  /\ resubscribe \in {"never", "start", "sequence", "token"}
  /\ queue \in Seq(Items) /\ delivered \in Seq(Items)
  /\ state \in Terminal \cup Listening \cup {"disconnected"}
  /\ closed \in BOOLEAN /\ gapPending \in BOOLEAN /\ registered \in BOOLEAN /\ ended \in BOOLEAN
  /\ lastPosition \in Nat /\ cursor \in Nat \ {0} /\ offered \in Nat /\ losses \in Nat
  /\ link \in {"up", "down", "restoring"} /\ closing \in {"no", "sending", "raised"}
  /\ taken \subseteq Nat


\* An end is an item, and so is an event with a number.
LEMMA ItemsAre ==
  /\ EndMark \in Items /\ EndMark.number = 0
  /\ \A n \in Nat \ {0}, gap \in BOOLEAN :
       Event(n, gap) \in Items /\ Event(n, gap).number = n /\ Event(n, gap).gap = gap
  /\ \A e \in Items : e.number = 0 => e = EndMark
  BY DEF Items, EndMark, Event

\* Putting an end keeps a queue of items.
LEMMA PutEndType == ASSUME NEW q \in Seq(Items) PROVE PutEnd(q) \in Seq(Items)
<1>1. IsFull(q) => Tail(q) \in Seq(Items)
  <2>1. IsFull(q) => q # <<>>
    BY EmptySeq DEF IsFull
  <2> QED
    BY <2>1, HeadTailProperties
<1> QED
  BY <1>1, ItemsAre, AppendProperties DEF PutEnd

\* Failing keeps the types of what it changes.
LEMMA FailType ==
  ASSUME TypeOK, Fail
  PROVE  /\ queue' \in Seq(Items) /\ closed' \in BOOLEAN
         /\ state' \in Terminal \cup Listening \cup {"disconnected"}
  BY PutEndType DEF Fail, TypeOK, Terminal

\* So does storing an event.
LEMMA StoreType ==
  ASSUME TypeOK, NEW n \in Nat \ {0}, Store(n)
  PROVE  /\ queue' \in Seq(Items) /\ closed' \in BOOLEAN /\ gapPending' \in BOOLEAN
         /\ state' \in Terminal \cup Listening \cup {"disconnected"}
<1>1. CASE ~ IsFull(queue) /\ queue' = Append(queue, Event(n, gapPending)) /\ gapPending' = FALSE
           /\ UNCHANGED <<state, closed>>
  <2>1. Event(n, gapPending) \in Items
    BY ItemsAre DEF TypeOK
  <2> QED
    BY <1>1, <2>1, AppendProperties DEF TypeOK
<1>2. CASE DropNewest
  BY <1>2 DEF DropNewest, TypeOK
<1>3. CASE IsFull(queue) /\ DropOldest(n)
  <2>1. queue # <<>>
    BY <1>3, EmptySeq DEF IsFull, TypeOK
  <2>2. Tail(queue) \in Seq(Items) /\ Event(n, TRUE) \in Items
    BY <2>1, HeadTailProperties, ItemsAre DEF TypeOK
  <2> QED
    BY <1>3, <2>2, AppendProperties DEF DropOldest, TypeOK
<1>4. CASE Fail /\ UNCHANGED gapPending
  BY <1>4, FailType DEF TypeOK
<1> QED
  BY <1>1, <1>2, <1>3, <1>4 DEF Store

\* Every step keeps the types.
LEMMA TypeStep == TypeOK /\ [Next]_vars => TypeOK'
<1> SUFFICES ASSUME TypeOK, [Next]_vars PROVE TypeOK'
  OBVIOUS
<1> USE DEF fixed, peer, reading
<1>1. CASE Publish
  <2>1. CASE state \notin Listening
    <3>1. /\ cursor' = cursor + 1 /\ registered' = FALSE
          /\ UNCHANGED <<queue, state, closed, lastPosition, gapPending, offered, taken>>
          /\ UNCHANGED <<fixed, link, losses, closing, reading>>
      BY <1>1, <2>1 DEF Publish
    <3>2. cursor' \in Nat \ {0} /\ registered' \in BOOLEAN
      <4>1. cursor \in Nat /\ cursor' = cursor + 1
        BY <3>1 DEF TypeOK
      <4>2. registered' \in BOOLEAN
        BY <3>1, Zenon
      <4>3. cursor' \in Nat \ {0}
        BY <4>1
      <4> QED
        BY <4>2, <4>3
    <3>3. UNCHANGED <<queue, state, closed, lastPosition, gapPending, offered, taken, link, losses,
                      closing, overflow, resubscribe, delivered, ended>>
      BY <3>1
    <3> QED
      BY <3>2, <3>3 DEF TypeOK
  <2>2. CASE state \in Listening /\ Skips(cursor)
    <3>1. /\ cursor' = cursor + 1 /\ registered' = FALSE /\ Fail
          /\ UNCHANGED <<lastPosition, gapPending, offered, taken>>
          /\ UNCHANGED <<fixed, link, losses, closing, reading>>
      BY <1>1, <2>2 DEF Publish
    <3>2. cursor' \in Nat \ {0} /\ registered' \in BOOLEAN
      <4>1. cursor \in Nat /\ cursor' = cursor + 1
        BY <3>1 DEF TypeOK
      <4>2. registered' \in BOOLEAN
        BY <3>1, Zenon
      <4>3. cursor' \in Nat \ {0}
        BY <4>1
      <4> QED
        BY <4>2, <4>3
    <3>3. /\ queue' \in Seq(Items) /\ closed' \in BOOLEAN
          /\ state' \in Terminal \cup Listening \cup {"disconnected"}
      BY <3>1, FailType
    <3>4. UNCHANGED <<lastPosition, gapPending, offered, taken, link, losses, closing, overflow,
                      resubscribe, delivered, ended>>
      BY <3>1
    <3> QED
      BY <3>2, <3>3, <3>4 DEF TypeOK
  <2>3. CASE state \in Listening /\ ~ Skips(cursor)
    <3>1. /\ lastPosition' \in Nat /\ offered' = offered + 1 /\ taken' \subseteq Nat
          /\ Store(offered + 1) /\ registered' \in BOOLEAN
      <4>1. /\ lastPosition' = PositionOf(cursor) /\ offered' = offered + 1
            /\ taken' = taken \cup {cursor} /\ Store(offered + 1)
            /\ registered' = ~(overflow = "fail" /\ IsFull(queue))
        BY <1>1, <2>3 DEF Publish
      <4>2. registered' \in BOOLEAN
        BY <4>1
      <4> QED
        BY <4>1, <4>2 DEF TypeOK, PositionOf
    <3>2. offered + 1 \in Nat \ {0} /\ cursor' \in Nat \ {0}
      BY <1>1 DEF Publish, TypeOK
    <3>3. UNCHANGED <<fixed, link, losses, closing, reading>>
      BY <1>1 DEF Publish
    <3> QED
      BY <3>1, <3>2, <3>3, StoreType DEF TypeOK
  <2> QED
    BY <2>1, <2>2, <2>3
<1>2. CASE Take
  <2>1. /\ queue' \in Seq(Items) /\ Head(queue) \in Items
    BY <1>2, HeadTailProperties DEF Take, TypeOK
  <2>2. delivered' \in Seq(Items) /\ ended' \in BOOLEAN
    <3>1. \/ ended' = TRUE /\ UNCHANGED delivered
          \/ delivered' = Append(delivered, Head(queue)) /\ UNCHANGED ended
      BY <1>2 DEF Take
    <3>2. Append(delivered, Head(queue)) \in Seq(Items)
      BY <2>1, AppendProperties DEF TypeOK
    <3> QED
      BY <3>1, <3>2 DEF TypeOK
  <2> QED
    BY <1>2, <2>1, <2>2 DEF Take, TypeOK
<1>3. CASE Abandon
  BY <1>3, FailType DEF Abandon, TypeOK
<1>4. CASE Complete
  BY <1>4, PutEndType DEF Complete, TypeOK, Terminal
<1>5. CASE Close
  BY <1>5, PutEndType DEF Close, TypeOK, Terminal
<1>6. CASE CloseEnds
  <2>1. /\ closing' \in {"no", "raised"} /\ registered' \in {FALSE, registered}
        /\ UNCHANGED <<fixed, queue, state, closed, lastPosition, gapPending, peer,
                       offered, taken, reading>>
    BY <1>6 DEF CloseEnds
  <2>2. registered' \in BOOLEAN
    BY <2>1 DEF TypeOK
  <2> QED
    BY <2>1, <2>2 DEF TypeOK
<1>7. CASE Lose
  <2>1. /\ queue' \in Seq(Items) /\ closed' \in BOOLEAN /\ registered' \in BOOLEAN
        /\ state' \in Terminal \cup Listening \cup {"disconnected"}
    BY <1>7, FailType DEF Lose, TypeOK
  <2> QED
    BY <1>7, <2>1 DEF Lose, TypeOK
<1>8. CASE Restore
  <2>1. cursor' \in Nat \ {0} /\ lastPosition' \in Nat
    BY <1>8 DEF Restore, Resumes, RestartPosition, TypeOK
  <2> QED
    BY <1>8, <2>1 DEF Restore, TypeOK, Listening
<1>9. CASE Restored
  BY <1>9 DEF Restored, TypeOK, Listening
<1>10. CASE UNCHANGED vars
  BY <1>10 DEF vars, TypeOK
<1> QED
  BY <1>1, <1>2, <1>3, <1>4, <1>5, <1>6, <1>7, <1>8, <1>9, <1>10 DEF Next

\* The initial states have the types.
LEMMA TypeInit == Init => TypeOK
<1> SUFFICES ASSUME Init PROVE TypeOK
  OBVIOUS
<1>1. <<>> \in Seq(Items)
  BY EmptySeq
<1>2. /\ overflow \in {"fail", "oldest", "newest"}
      /\ resubscribe \in {"never", "start", "sequence", "token"}
  BY DEF Init
<1>3. queue \in Seq(Items) /\ delivered \in Seq(Items)
  BY <1>1 DEF Init
<1>4. state \in Listening
  BY DEF Init, Listening
<1>5. /\ closed \in BOOLEAN /\ gapPending \in BOOLEAN /\ registered \in BOOLEAN
      /\ ended \in BOOLEAN
  BY Zenon DEF Init
<1>6. /\ lastPosition \in Nat /\ cursor \in Nat \ {0} /\ offered \in Nat /\ losses \in Nat
      /\ link = "up" /\ closing = "no" /\ taken = {}
  BY DEF Init
<1> QED
  BY <1>2, <1>3, <1>4, <1>5, <1>6 DEF TypeOK

\* Every value of the model has its type in every reachable state.
THEOREM TypeCorrect == Spec => []TypeOK
  BY TypeInit, TypeStep, PTL DEF Spec
------------------------------------------------------------------------------
(***************************************************************************)
(* The sequence is unbroken                                                *)
(***************************************************************************)

\* The positions taken are a run that ends at the last one.
RunInv ==
  resubscribe = "sequence" =>
    /\ cursor >= lastPosition
    /\ lastPosition = 0 => taken = {}
    /\ lastPosition # 0 => lastPosition \in taken
    /\ \A p \in taken : 1 <= p /\ p <= lastPosition
    /\ SequenceUnbroken

\* Every step keeps the run.
LEMMA RunStep == TypeOK /\ RunInv /\ [Next]_vars => RunInv'
<1> SUFFICES ASSUME TypeOK, RunInv, [Next]_vars, resubscribe = "sequence" PROVE RunInv'
  BY DEF RunInv, Next, vars, fixed, Publish, Take, Abandon, Complete, Close, CloseEnds, Lose,
     Restore, Restored
<1>f. resubscribe' = resubscribe
  BY DEF Next, vars, fixed, Publish, Take, Abandon, Complete, Close, CloseEnds, Lose,
     Restore, Restored
<1>q. ASSUME cursor' >= lastPosition', UNCHANGED <<lastPosition, taken>> PROVE RunInv'
  BY <1>q, <1>f DEF RunInv, SequenceUnbroken
<1>t. cursor \in Nat /\ lastPosition \in Nat /\ cursor # 0 /\ cursor >= lastPosition
  BY DEF TypeOK, RunInv
<1>1. CASE Publish
  <2>0. cursor' = cursor + 1
    BY <1>1 DEF Publish
  <2>1. CASE state \notin Listening \/ Skips(cursor)
    <3>1. UNCHANGED <<lastPosition, taken>>
      BY <1>1, <2>1 DEF Publish
    <3> QED
      BY <1>t, <1>q, <2>0, <3>1
  <2>2. CASE state \in Listening /\ ~ Skips(cursor)
    <3>1. lastPosition' = cursor /\ taken' = taken \cup {cursor}
      BY <1>1, <2>2 DEF Publish, PositionOf, Positioned
    <3>2. lastPosition = 0 \/ cursor <= lastPosition + 1
      BY <1>t, <2>2 DEF Skips
    <3>3. \A p \in taken : p \in Nat /\ 1 <= p /\ p <= lastPosition
      BY DEF RunInv, TypeOK
    <3>4. taken # {} => lastPosition \in taken /\ lastPosition # 0
      BY DEF RunInv
    <3>5. \A p \in taken, q \in taken : \A r \in p..q : r \in taken
      BY DEF RunInv, SequenceUnbroken
    <3>6. ASSUME NEW p \in taken', NEW q \in taken', NEW r \in p..q PROVE r \in taken'
      <4>1. r = cursor \/ (p \in taken /\ r <= lastPosition /\ lastPosition \in taken)
        BY <1>t, <3>1, <3>2, <3>3, <3>4, <3>6
      <4> QED
        BY <1>t, <3>1, <3>3, <3>5, <4>1, <3>6
    <3> QED
      BY <1>t, <1>f, <2>0, <3>1, <3>3, <3>6 DEF RunInv, SequenceUnbroken
  <2> QED
    BY <2>1, <2>2
<1>2. CASE Restore
  <2>1. lastPosition' = lastPosition /\ UNCHANGED taken
    BY <1>2 DEF Restore, RestartPosition
  <2>2. cursor' >= lastPosition
    BY <1>2, <1>t DEF Restore, Resumes, Positioned
  <2> QED
    BY <1>q, <2>1, <2>2
<1>3. CASE Take \/ Abandon \/ Complete \/ Close \/ CloseEnds \/ Lose \/ Restored \/ UNCHANGED vars
  <2>1. UNCHANGED <<cursor, lastPosition, taken>>
    BY <1>3 DEF Take, Abandon, Complete, Close, CloseEnds, Lose, Restored, vars, peer
  <2> QED
    BY <1>t, <1>q, <2>1
<1> QED
  BY <1>1, <1>2, <1>3 DEF Next

\* SubscriptionQueue.SequenceUnbroken for every instance: what RecoverBySequence has
\* taken is an unbroken run of positions.
THEOREM SequenceIsUnbroken == Spec => []SequenceUnbroken
<1>1. Init => RunInv
  BY DEF Init, RunInv, SequenceUnbroken
<1>2. RunInv => SequenceUnbroken
  BY DEF RunInv, SequenceUnbroken
<1> QED
  BY <1>1, <1>2, TypeInit, TypeStep, RunStep, PTL DEF Spec
------------------------------------------------------------------------------
(***************************************************************************)
(* What is kept                                                            *)
(***************************************************************************)

\* The numbers in a sequence of items rise, ends apart, and none is above top.
Rises(k, top) ==
  /\ \A i, j \in 1..Len(k) : i < j =>
       k[i].number = 0 \/ k[j].number = 0 \/ k[i].number < k[j].number
  /\ \A i \in 1..Len(k) : k[i].number <= top

\* No end is in it.
HasNoEnd(k) == \A i \in 1..Len(k) : k[i].number # 0

\* What is kept is in order, and ends are in the queue of a closed subscription only.
KeptInOrder ==
  Rises(Kept, offered) /\ HasNoEnd(delivered) /\ (~ closed => HasNoEnd(queue))

OrderInv == TypeOK /\ KeptInOrder

\* A pending gap follows a loss.
GapIsReal == ~ closed /\ gapPending => Lost # {}

LossInv == OrderInv /\ GapIsReal /\ LossesAnnounced

\* The items of two sequences one after the other.
LEMMA ConcatIs ==
  ASSUME NEW d \in Seq(Items), NEW q \in Seq(Items)
  PROVE  /\ d \o q \in Seq(Items) /\ Len(d \o q) = Len(d) + Len(q)
         /\ Len(d) \in Nat /\ Len(q) \in Nat
         /\ \A i \in 1..Len(d) : i \in 1..Len(d \o q) /\ (d \o q)[i] = d[i]
         /\ \A i \in 1..Len(q) :
              Len(d) + i \in 1..Len(d \o q) /\ (d \o q)[Len(d) + i] = q[i]
         /\ \A i \in 1..Len(d \o q) :
              \/ i \in 1..Len(d)
              \/ \E j \in 1..Len(q) : i = Len(d) + j
<1>1. Len(d) \in Nat /\ Len(q) \in Nat
  BY LenProperties
<1>2. /\ d \o q \in Seq(Items) /\ Len(d \o q) = Len(d) + Len(q)
      /\ \A i \in 1..Len(d) + Len(q) :
           (d \o q)[i] = IF i <= Len(d) THEN d[i] ELSE q[i - Len(d)]
  BY ConcatProperties
<1>3. ASSUME NEW i \in 1..Len(q)
      PROVE  Len(d) + i \in 1..Len(d \o q) /\ (d \o q)[Len(d) + i] = q[i]
  <2>1. Len(d) + i \in 1..Len(d) + Len(q) /\ ~(Len(d) + i <= Len(d)) /\ (Len(d) + i) - Len(d) = i
    BY <1>1
  <2> QED
    BY <1>2, <2>1
<1>4. ASSUME NEW i \in 1..Len(d \o q), i \notin 1..Len(d)
      PROVE  \E j \in 1..Len(q) : i = Len(d) + j
  <2>1. i - Len(d) \in 1..Len(q) /\ i = Len(d) + (i - Len(d))
    BY <1>1, <1>2, <1>4
  <2> QED
    BY <2>1
<1>5. \A i \in 1..Len(d) : i \in 1..Len(d \o q) /\ (d \o q)[i] = d[i]
  BY <1>1, <1>2
<1> QED
  BY <1>1, <1>2, <1>3, <1>4, <1>5

\* Appending to the second is appending to both.
LEMMA ConcatAppend ==
  ASSUME NEW d \in Seq(Items), NEW q \in Seq(Items), NEW e \in Items
  PROVE  d \o Append(q, e) = Append(d \o q, e)
<1>1. <<e>> \in Seq(Items)
  OBVIOUS
<1>2. Append(q, e) = q \o <<e>> /\ d \o q \in Seq(Items)
  BY AppendIsConcat, ConcatProperties
<1>3. Append(d \o q, e) = (d \o q) \o <<e>>
  BY <1>2, AppendIsConcat
<1> QED
  BY <1>1, <1>2, <1>3, ConcatAssociative

\* Moving the head of the second to the first changes nothing.
LEMMA ConcatMove ==
  ASSUME NEW d \in Seq(Items), NEW q \in Seq(Items), q # <<>>
  PROVE  Append(d, Head(q)) \o Tail(q) = d \o q
<1>1. Head(q) \in Items /\ Tail(q) \in Seq(Items) /\ <<Head(q)>> \in Seq(Items)
  BY HeadTailProperties
<1>2. <<Head(q)>> \o Tail(q) = q
  BY <1>1, ConcatProperties, LenProperties, SeqEqual, HeadTailProperties
<1>3. Append(d, Head(q)) = d \o <<Head(q)>>
  BY <1>1, AppendIsConcat
<1> QED
  BY <1>1, <1>2, <1>3, ConcatAssociative
\* Appending an end, or an event with a higher number, keeps the order.
LEMMA AppendRises ==
  ASSUME NEW k \in Seq(Items), NEW top \in Nat, NEW more \in Nat, NEW e \in Items,
         Rises(k, top), top <= more, e.number <= more, e.number = 0 \/ top < e.number
  PROVE  Rises(Append(k, e), more)
<1> DEFINE k2 == Append(k, e)
<1>1. /\ Len(k) \in Nat /\ Len(k2) = Len(k) + 1 /\ k2[Len(k) + 1] = e
      /\ \A i \in 1..Len(k) : k2[i] = k[i]
  BY AppendProperties, LenProperties
<1>2. \A i \in 1..Len(k) : k[i].number \in Nat /\ k[i].number <= top
  BY ElementOfSeq DEF Rises, Items
<1>e. e.number \in Nat
  BY DEF Items
<1> HIDE DEF k2
<1>3. ASSUME NEW i \in 1..Len(k2) PROVE k2[i].number <= more
  <2>1. CASE i \in 1..Len(k)
    BY <1>1, <1>2, <2>1
  <2>2. CASE i = Len(k) + 1
    BY <1>1, <2>2
  <2> QED
    BY <1>1, <2>1, <2>2
<1>4. ASSUME NEW i \in 1..Len(k2), NEW j \in 1..Len(k2), i < j
      PROVE  k2[i].number = 0 \/ k2[j].number = 0 \/ k2[i].number < k2[j].number
  <2>1. i \in 1..Len(k)
    BY <1>1, <1>4
  <2>2. CASE j \in 1..Len(k)
    BY <1>1, <1>4, <2>1, <2>2 DEF Rises
  <2>3. CASE j = Len(k) + 1
    BY <1>1, <1>2, <1>e, <2>1, <2>3
  <2> QED
    BY <1>1, <2>2, <2>3
<1> QED
  BY <1>3, <1>4 DEF Rises, k2

\* What is kept after dropping the oldest of the queue was kept before.
LEMMA DropKeeps ==
  ASSUME NEW d \in Seq(Items), NEW q \in Seq(Items), q # <<>>,
         NEW i \in 1..Len(d \o Tail(q))
  PROVE  \E j \in 1..Len(d \o q) :
           /\ (d \o Tail(q))[i] = (d \o q)[j] /\ j # Len(d) + 1
           /\ j = IF i <= Len(d) THEN i ELSE i + 1
<1> DEFINE k == d \o q
           k2 == d \o Tail(q)
<1>1. /\ Tail(q) \in Seq(Items) /\ Len(Tail(q)) = Len(q) - 1
      /\ \A j \in 1..Len(Tail(q)) : Tail(q)[j] = q[j + 1]
  BY HeadTailProperties
<1>2. Len(d) \in Nat /\ Len(q) \in Nat
  BY <1>1, ConcatIs
<1>3. CASE i \in 1..Len(d)
  <2>1. k2[i] = d[i] /\ k[i] = d[i] /\ i \in 1..Len(k)
    BY <1>1, <1>3, ConcatIs
  <2> QED
    BY <1>2, <1>3, <2>1
<1>4. CASE \E j \in 1..Len(Tail(q)) : i = Len(d) + j
  <2>1. PICK j \in 1..Len(Tail(q)) : i = Len(d) + j
    BY <1>4
  <2>2. k2[i] = Tail(q)[j] /\ Tail(q)[j] = q[j + 1]
    BY <1>1, <2>1, ConcatIs
  <2>3. j + 1 \in 1..Len(q) /\ Len(d) + (j + 1) = i + 1 /\ ~(i <= Len(d)) /\ i + 1 # Len(d) + 1
    BY <1>1, <1>2, <2>1
  <2>4. k[Len(d) + (j + 1)] = q[j + 1] /\ Len(d) + (j + 1) \in 1..Len(k)
    BY <2>3, ConcatIs
  <2> QED
    BY <2>2, <2>3, <2>4
<1>5. i \in 1..Len(d) \/ \E j \in 1..Len(Tail(q)) : i = Len(d) + j
  BY <1>1, ConcatIs
<1> QED
  BY <1>3, <1>4, <1>5

\* So does dropping the oldest of the queue.
LEMMA DropRises ==
  ASSUME NEW d \in Seq(Items), NEW q \in Seq(Items), q # <<>>, NEW top \in Nat,
         Rises(d \o q, top)
  PROVE  Rises(d \o Tail(q), top)
<1> DEFINE k == d \o q
           k2 == d \o Tail(q)
           up(i) == IF i <= Len(d) THEN i ELSE i + 1
<1>2. Len(d) \in Nat /\ Tail(q) \in Seq(Items) /\ Len(k2) \in Nat
  BY HeadTailProperties, ConcatIs, LenProperties
<1>3. ASSUME NEW i \in 1..Len(k2) PROVE up(i) \in 1..Len(k) /\ k2[i] = k[up(i)]
  BY DropKeeps
<1>4. \A i, j \in 1..Len(k2) : i < j => up(i) < up(j)
  BY <1>2
<1> HIDE DEF k, k2, up
<1>5. Rises(k2, top)
  BY <1>3, <1>4, Zenon DEF Rises, k
<1> QED
  BY <1>5 DEF k2
------------------------------------------------------------------------------
(***************************************************************************)
(* What a step does to what is kept                                        *)
(***************************************************************************)

\* A step that leaves the queue and the application alone.
Rests == UNCHANGED <<queue, delivered, ended, gapPending, offered>> /\ (closed => closed')

\* A step that ends the subscription, perhaps at the event that it accepts.
Ends ==
  /\ queue' = PutEnd(queue) /\ closed' /\ UNCHANGED <<delivered, ended>>
  /\ offered' \in {offered, offered + 1}

\* A step that accepts an event without ending the subscription.
Accepts ==
  /\ offered' = offered + 1 /\ UNCHANGED <<delivered, ended, closed>>
  /\ \/ queue' = Append(queue, Event(offered + 1, gapPending)) /\ gapPending' = FALSE
     \/ DropNewest
     \/ queue # <<>> /\ DropOldest(offered + 1)

\* Failing ends the subscription, or is nothing to one that has ended.
LEMMA FailEnds ==
  ASSUME Fail, UNCHANGED <<delivered, ended, gapPending, offered>>
  PROVE  Rests \/ Ends
<1>1. CASE state \in Terminal
  BY <1>1 DEF Fail, Rests
<1>2. CASE state \notin Terminal
  BY <1>2 DEF Fail, Ends
<1> QED
  BY <1>1, <1>2

\* Storing an event in an open subscription accepts it or ends the subscription.
LEMMA StoreIs ==
  ASSUME TypeOK, state \in Listening, Store(offered + 1), offered' = offered + 1,
         UNCHANGED <<delivered, ended>>
  PROVE  Accepts \/ Ends
<1>1. CASE IsFull(queue) /\ overflow = "fail" /\ Fail /\ UNCHANGED gapPending
  <2>1. state \notin Terminal
    BY DEF Listening, Terminal
  <2> QED
    BY <1>1, <2>1 DEF Fail, Ends
<1>2. CASE /\ ~IsFull(queue)
           /\ queue' = Append(queue, Event(offered + 1, gapPending)) /\ gapPending' = FALSE
           /\ UNCHANGED <<state, closed>>
  BY <1>2 DEF Accepts
<1>3. CASE IsFull(queue) /\ DropNewest
  BY <1>3 DEF Accepts, DropNewest
<1>4. CASE IsFull(queue) /\ DropOldest(offered + 1)
  <2>1. queue # <<>>
    BY <1>4, EmptySeq DEF IsFull, TypeOK
  <2> QED
    BY <1>4, <2>1 DEF Accepts, DropOldest
<1> QED
  BY <1>1, <1>2, <1>3, <1>4 DEF Store

\* Every step is of one of these kinds, or the application takes an item.
LEMMA StepIs == TypeOK /\ [Next]_vars => Rests \/ Ends \/ Accepts \/ Take
<1> SUFFICES ASSUME TypeOK, [Next]_vars PROVE Rests \/ Ends \/ Accepts \/ Take
  OBVIOUS
<1> USE DEF reading
<1>1. CASE Publish
  <2>1. CASE state \notin Listening
    BY <1>1, <2>1 DEF Publish, Rests
  <2>2. CASE state \in Listening /\ Skips(cursor)
    BY <1>1, <2>2, FailEnds DEF Publish
  <2>3. CASE state \in Listening /\ ~ Skips(cursor)
    BY <1>1, <2>3, StoreIs DEF Publish
  <2> QED
    BY <2>1, <2>2, <2>3
<1>2. CASE Abandon
  BY <1>2, FailEnds DEF Abandon
<1>3. CASE Complete
  <2>1. CASE closed
    BY <1>3, <2>1 DEF Complete, Rests
  <2>2. CASE ~ closed
    BY <1>3, <2>2 DEF Complete, Ends
  <2> QED
    BY <2>1, <2>2
<1>4. CASE Close
  BY <1>4 DEF Close, Ends
<1>5. CASE Lose
  <2>1. UNCHANGED <<delivered, ended, gapPending, offered>>
    BY <1>5 DEF Lose
  <2>2. Fail \/ UNCHANGED <<closed, queue>>
    BY <1>5 DEF Lose
  <2> QED
    BY <2>1, <2>2, FailEnds DEF Rests
<1>6. CASE CloseEnds \/ Restore \/ Restored \/ UNCHANGED vars
  BY <1>6 DEF CloseEnds, Restore, Restored, vars, Rests
<1> QED
  BY <1>1, <1>2, <1>3, <1>4, <1>5, <1>6 DEF Next
\* What is kept after a step of each kind.
LEMMA KeptAfter ==
  ASSUME TypeOK
  PROVE  /\ Kept \in Seq(Items)
         /\ Rests => Kept' = Kept
         /\ Ends => \/ Kept' = Append(Kept, EndMark)
                    \/ queue # <<>> /\ Kept' = Append(delivered \o Tail(queue), EndMark)
         /\ Take => \/ Head(queue) # EndMark /\ Kept' = Kept
                    \/ queue # <<>> /\ Head(queue) = EndMark /\ Kept' = delivered \o Tail(queue)
<1> USE DEF Kept
<1>t. delivered \in Seq(Items) /\ queue \in Seq(Items) /\ EndMark \in Items
  BY ItemsAre DEF TypeOK
<1>e. IsFull(queue) => queue # <<>>
  BY <1>t, EmptySeq DEF IsFull
<1>1. Kept \in Seq(Items)
  BY <1>t, ConcatIs
<1>2. Rests => Kept' = Kept
  BY DEF Rests
<1>3. ASSUME Ends
      PROVE  \/ Kept' = Append(Kept, EndMark)
             \/ queue # <<>> /\ Kept' = Append(delivered \o Tail(queue), EndMark)
  <2>1. delivered' = delivered /\ queue' = PutEnd(queue)
    BY <1>3 DEF Ends
  <2>2. CASE IsFull(queue)
    <3>1. Tail(queue) \in Seq(Items) /\ queue' = Append(Tail(queue), EndMark)
      BY <1>t, <1>e, <2>1, <2>2, HeadTailProperties DEF PutEnd
    <3> QED
      BY <1>t, <1>e, <2>1, <2>2, <3>1, ConcatAppend
  <2>3. CASE ~ IsFull(queue)
    <3>1. queue' = Append(queue, EndMark)
      BY <2>1, <2>3 DEF PutEnd
    <3>2. delivered \o Append(queue, EndMark) = Append(delivered \o queue, EndMark)
      BY <1>t, ConcatAppend
    <3> QED
      BY <2>1, <3>1, <3>2
  <2> QED
    BY <2>2, <2>3
<1>4. ASSUME Take
      PROVE  \/ Head(queue) # EndMark /\ Kept' = Kept
             \/ queue # <<>> /\ Head(queue) = EndMark /\ Kept' = delivered \o Tail(queue)
  <2>1. queue # <<>> /\ queue' = Tail(queue)
    BY <1>4 DEF Take
  <2>2. CASE Head(queue) = EndMark
    BY <1>4, <2>1, <2>2 DEF Take
  <2>3. CASE Head(queue) # EndMark
    <3>1. delivered' = Append(delivered, Head(queue))
      BY <1>4, <2>3 DEF Take
    <3> QED
      BY <1>t, <2>1, <2>3, <3>1, ConcatMove
  <2> QED
    BY <2>2, <2>3
<1> QED
  BY <1>1, <1>2, <1>3, <1>4

\* What is kept after an event is accepted: with it, without it, or in place of the
\* oldest item of the queue.
LEMMA KeptAccepted ==
  ASSUME TypeOK, Accepts
  PROVE  \/ Kept' = Append(Kept, Event(offered + 1, gapPending)) /\ gapPending' = FALSE
         \/ Kept' = Kept /\ gapPending' = TRUE
         \/ /\ queue # <<>> /\ gapPending' = FALSE
            /\ Kept' = Append(delivered \o Tail(queue), Event(offered + 1, TRUE))
<1> USE DEF Kept
<1>1. delivered \in Seq(Items) /\ queue \in Seq(Items)
  BY DEF TypeOK
<1>2. /\ Event(offered + 1, gapPending) \in Items /\ Event(offered + 1, TRUE) \in Items
      /\ delivered' = delivered
  <2>1. offered + 1 \in Nat \ {0}
    BY DEF TypeOK
  <2>2. gapPending \in BOOLEAN
    BY DEF TypeOK
  <2>3. Event(offered + 1, gapPending) \in Items
    BY <2>1, <2>2, ItemsAre
  <2>4. Event(offered + 1, TRUE) \in Items
    BY <2>1, ItemsAre
  <2> QED
    BY <2>3, <2>4 DEF Accepts
<1>3. CASE queue' = Append(queue, Event(offered + 1, gapPending)) /\ gapPending' = FALSE
  BY <1>1, <1>2, <1>3, ConcatAppend
<1>4. CASE DropNewest
  BY <1>2, <1>4 DEF DropNewest
<1>5. CASE queue # <<>> /\ DropOldest(offered + 1)
  <2>1. /\ Tail(queue) \in Seq(Items) /\ queue' = Append(Tail(queue), Event(offered + 1, TRUE))
        /\ gapPending' = FALSE
    BY <1>1, <1>5, HeadTailProperties DEF DropOldest
  <2> QED
    BY <1>1, <1>2, <1>5, <2>1, ConcatAppend
<1> QED
  BY <1>3, <1>4, <1>5 DEF Accepts

\* What is kept stays in order.
LEMMA RisesStep ==
  ASSUME TypeOK, KeptInOrder, Rests \/ Ends \/ Accepts \/ Take
  PROVE  Rises(Kept', offered')
<1>t. /\ delivered \in Seq(Items) /\ queue \in Seq(Items) /\ offered \in Nat
      /\ Kept \in Seq(Items) /\ Rises(Kept, offered)
  BY KeptAfter DEF TypeOK, KeptInOrder
<1>d. ASSUME queue # <<>>
      PROVE  delivered \o Tail(queue) \in Seq(Items) /\ Rises(delivered \o Tail(queue), offered)
  <2>1. Tail(queue) \in Seq(Items)
    BY <1>t, <1>d, HeadTailProperties
  <2> QED
    BY <1>t, <1>d, <2>1, DropRises, ConcatIs DEF Kept
<1>n. \A gap \in BOOLEAN : /\ Event(offered + 1, gap) \in Items
                           /\ Event(offered + 1, gap).number = offered + 1
  BY <1>t, ItemsAre
<1>1. CASE Rests
  BY <1>1, <1>t, KeptAfter DEF Rests
<1>2. CASE Ends
  <2>1. offered' \in Nat /\ offered <= offered'
    BY <1>2, <1>t DEF Ends
  <2>2. CASE Kept' = Append(Kept, EndMark)
    BY <1>t, <2>1, <2>2, AppendRises, ItemsAre
  <2>3. CASE queue # <<>> /\ Kept' = Append(delivered \o Tail(queue), EndMark)
    <3> DEFINE k == delivered \o Tail(queue)
    <3>1. k \in Seq(Items) /\ Rises(k, offered)
      BY <1>d, <2>3
    <3>2. EndMark \in Items /\ EndMark.number = 0
      BY ItemsAre
    <3> HIDE DEF k
    <3>3. Rises(Append(k, EndMark), offered')
      BY <1>t, <2>1, <3>1, <3>2, AppendRises
    <3> QED
      BY <2>3, <3>3 DEF k
  <2> QED
    BY <1>2, <2>2, <2>3, KeptAfter
<1>3. CASE Accepts
  <2>1. offered' = offered + 1 /\ gapPending \in BOOLEAN
    BY <1>3 DEF Accepts, TypeOK
  <2>2. CASE Kept' = Append(Kept, Event(offered + 1, gapPending))
    BY <1>t, <1>n, <2>1, <2>2, AppendRises
  <2>3. CASE Kept' = Kept
    <3>1. \A i \in 1..Len(Kept) : Kept[i].number \in Nat
      BY <1>t, ElementOfSeq DEF Items
    <3> QED
      BY <1>t, <2>1, <2>3, <3>1 DEF Rises
  <2>4. CASE queue # <<>> /\ Kept' = Append(delivered \o Tail(queue), Event(offered + 1, TRUE))
    <3> DEFINE k == delivered \o Tail(queue)
               e == Event(offered + 1, TRUE)
    <3>1. k \in Seq(Items) /\ Rises(k, offered)
      BY <1>d, <2>4
    <3>2. e \in Items /\ e.number = offered + 1
      BY <1>n
    <3>3. Kept' = Append(k, e)
      BY <2>4
    <3> HIDE DEF k, e
    <3>4. Rises(Append(k, e), offered + 1)
      BY <1>t, <3>1, <3>2, AppendRises
    <3> QED
      BY <2>1, <3>3, <3>4
  <2> QED
    BY <1>3, <2>2, <2>3, <2>4, KeptAccepted
<1>4. CASE Take
  <2>1. offered' = offered
    BY <1>4 DEF Take
  <2> QED
    BY <1>4, <1>t, <1>d, <2>1, KeptAfter
<1> QED
  BY <1>1, <1>2, <1>3, <1>4
\* Ends are where they may be.
LEMMA NoEndStep ==
  ASSUME TypeOK, KeptInOrder, Rests \/ Ends \/ Accepts \/ Take
  PROVE  HasNoEnd(delivered') /\ (~ closed' => HasNoEnd(queue'))
<1>t. /\ delivered \in Seq(Items) /\ queue \in Seq(Items) /\ offered \in Nat
      /\ HasNoEnd(delivered) /\ (~ closed => HasNoEnd(queue))
  BY DEF TypeOK, KeptInOrder
<1>d. ASSUME queue # <<>>
      PROVE  /\ Tail(queue) \in Seq(Items) /\ Head(queue) \in Items
             /\ (HasNoEnd(queue) => HasNoEnd(Tail(queue)))
  <2>1. /\ Tail(queue) \in Seq(Items) /\ Head(queue) \in Items /\ Len(Tail(queue)) = Len(queue) - 1
        /\ \A i \in 1..Len(Tail(queue)) : Tail(queue)[i] = queue[i + 1]
    BY <1>t, <1>d, HeadTailProperties
  <2>2. Len(queue) \in Nat
    BY <1>t, LenProperties
  <2> QED
    BY <2>1, <2>2 DEF HasNoEnd
<1>a. ASSUME NEW q \in Seq(Items), NEW e \in Items, HasNoEnd(q), e.number # 0
      PROVE  HasNoEnd(Append(q, e))
  <2>1. /\ Len(Append(q, e)) = Len(q) + 1 /\ Len(q) \in Nat
        /\ \A i \in 1..Len(q) : Append(q, e)[i] = q[i]
        /\ Append(q, e)[Len(q) + 1] = e
    BY AppendProperties, LenProperties
  <2>2. \A i \in 1..Len(q) + 1 : i \in 1..Len(q) \/ i = Len(q) + 1
    BY <2>1
  <2> QED
    BY <1>a, <2>1, <2>2 DEF HasNoEnd
<1>n. \A gap \in BOOLEAN : /\ Event(offered + 1, gap) \in Items
                           /\ Event(offered + 1, gap).number # 0
  BY <1>t, ItemsAre
<1>1. CASE Rests
  BY <1>1, <1>t DEF Rests
<1>2. CASE Ends
  BY <1>2, <1>t DEF Ends
<1>3. CASE Accepts
  <2>1. delivered' = delivered /\ closed' = closed /\ gapPending \in BOOLEAN
    BY <1>3 DEF Accepts, TypeOK
  <2>2. CASE queue' = Append(queue, Event(offered + 1, gapPending))
    BY <1>t, <1>a, <1>n, <2>1, <2>2
  <2>3. CASE DropNewest
    BY <1>t, <2>1, <2>3 DEF DropNewest
  <2>4. CASE queue # <<>> /\ DropOldest(offered + 1)
    <3>1. queue' = Append(Tail(queue), Event(offered + 1, TRUE))
      BY <2>4 DEF DropOldest
    <3>2. Tail(queue) \in Seq(Items) /\ (HasNoEnd(queue) => HasNoEnd(Tail(queue)))
      BY <1>d, <2>4
    <3>3. HasNoEnd(Tail(queue)) => HasNoEnd(Append(Tail(queue), Event(offered + 1, TRUE)))
      BY <1>a, <1>n, <3>2
    <3> QED
      BY <1>t, <2>1, <3>1, <3>2, <3>3
  <2> QED
    BY <1>3, <2>2, <2>3, <2>4 DEF Accepts
<1>4. CASE Take
  <2>1. queue # <<>> /\ queue' = Tail(queue) /\ closed' = closed
    BY <1>4 DEF Take
  <2>2. CASE Head(queue) = EndMark
    BY <1>4, <1>t, <1>d, <2>1, <2>2 DEF Take
  <2>3. CASE Head(queue) # EndMark
    <3>1. delivered' = Append(delivered, Head(queue))
      BY <1>4, <2>3 DEF Take
    <3>2. Head(queue) \in Items /\ Head(queue).number # 0
      BY <1>d, <2>1, <2>3, ItemsAre
    <3> QED
      BY <1>t, <1>a, <1>d, <2>1, <3>1, <3>2
  <2> QED
    BY <2>2, <2>3
<1> QED
  BY <1>1, <1>2, <1>3, <1>4

\* The order of what is kept is inductive.
LEMMA OrderStep == OrderInv /\ [Next]_vars => OrderInv'
  BY TypeStep, StepIs, RisesStep, NoEndStep DEF OrderInv, KeptInOrder

\* It holds initially.
LEMMA OrderInit == Init => OrderInv
<1> SUFFICES ASSUME Init PROVE KeptInOrder
  BY TypeInit DEF OrderInv
<1>1. delivered = <<>> /\ queue = <<>> /\ Kept = <<>>
  BY ConcatEmptySeq, EmptySeq DEF Init, Kept
<1>2. Len(<<>>) = 0
  BY EmptySeq
<1> QED
  BY <1>1, <1>2 DEF KeptInOrder, Rises, HasNoEnd
------------------------------------------------------------------------------
(***************************************************************************)
(* Losses are announced                                                    *)
(***************************************************************************)

\* The numbers in a sequence of items.
Numbers(k) == {k[i].number : i \in 1..Len(k)}

\* An appended item adds its number.
LEMMA NumbersAppend ==
  ASSUME NEW k \in Seq(Items), NEW e \in Items
  PROVE  Numbers(Append(k, e)) = Numbers(k) \cup {e.number}
<1>1. /\ Len(Append(k, e)) = Len(k) + 1 /\ Len(k) \in Nat
      /\ \A i \in 1..Len(k) : Append(k, e)[i] = k[i]
      /\ Append(k, e)[Len(k) + 1] = e
  BY AppendProperties, LenProperties
<1>2. 1..Len(k) + 1 = (1..Len(k)) \cup {Len(k) + 1}
  BY <1>1
<1> QED
  BY <1>1, <1>2 DEF Numbers

\* Dropping the oldest of the queue takes its number away, and no other.
LEMMA NumbersDrop ==
  ASSUME NEW d \in Seq(Items), NEW q \in Seq(Items), q # <<>>, NEW top \in Nat,
         Rises(d \o q, top), HasNoEnd(d), HasNoEnd(q)
  PROVE  /\ Head(q).number \in (1..top) \ Numbers(d \o Tail(q))
         /\ Numbers(d \o Tail(q)) \subseteq Numbers(d \o q)
<1> DEFINE k == d \o q
           k2 == d \o Tail(q)
<1>1. /\ Tail(q) \in Seq(Items) /\ Len(Tail(q)) = Len(q) - 1 /\ Head(q) = q[1]
      /\ \A j \in 1..Len(Tail(q)) : Tail(q)[j] = q[j + 1]
  BY HeadTailProperties
<1>2. /\ Len(d) \in Nat /\ Len(q) \in Nat /\ Len(q) # 0 /\ k \in Seq(Items)
  BY ConcatIs, EmptySeq
<1>3. Len(d) + 1 \in 1..Len(k) /\ k[Len(d) + 1] = q[1] /\ 1 \in 1..Len(q)
  BY <1>2, ConcatIs
<1>4. ASSUME NEW i \in 1..Len(k2)
      PROVE  \E j \in 1..Len(k) : k2[i] = k[j] /\ k[j].number # 0 /\ j # Len(d) + 1
  <2>1. PICK j \in 1..Len(k) : k2[i] = k[j] /\ j # Len(d) + 1
    BY DropKeeps
  <2>2. k[j].number # 0
    <3>1. CASE j \in 1..Len(d)
      BY <3>1, ConcatIs DEF HasNoEnd
    <3>2. CASE \E m \in 1..Len(q) : j = Len(d) + m
      BY <3>2, ConcatIs DEF HasNoEnd
    <3> QED
      BY <3>1, <3>2, ConcatIs
  <2> QED
    BY <2>1, <2>2
<1> HIDE DEF k, k2
<1>5. Numbers(k2) \subseteq Numbers(k)
  BY <1>4 DEF Numbers
<1>6. q[1].number \in 1..top
  <2>1. q[1] \in Items /\ q[1].number # 0 /\ k[Len(d) + 1].number <= top
    BY <1>3, ElementOfSeq DEF HasNoEnd, Rises, k
  <2> QED
    BY <1>3, <2>1 DEF Items
<1>7. q[1].number \notin Numbers(k2)
  <2> SUFFICES ASSUME NEW i \in 1..Len(k2), k2[i].number = q[1].number PROVE FALSE
    BY DEF Numbers
  <2>1. PICK j \in 1..Len(k) : k2[i] = k[j] /\ k[j].number # 0 /\ j # Len(d) + 1
    BY <1>4
  <2>2. k[j].number < k[Len(d) + 1].number \/ k[Len(d) + 1].number < k[j].number
    <3>1. j < Len(d) + 1 \/ Len(d) + 1 < j
      BY <1>2, <2>1
    <3>2. k[Len(d) + 1].number # 0
      BY <1>3, <1>6
    <3> QED
      BY <1>3, <2>1, <3>1, <3>2 DEF Rises, k
  <2>3. k[j].number = k[Len(d) + 1].number
    BY <1>3, <2>1
  <2>4. k[j] \in Items
    BY <1>2, <2>1, ElementOfSeq
  <2>5. k[j].number \in Nat
    BY <2>4 DEF Items
  <2> QED
    BY <2>2, <2>3, <2>5
<1> QED
  BY <1>1, <1>5, <1>6, <1>7 DEF k, k2
\* An event appended with gap set announces whatever was lost before it, and with gap
\* unset nothing is pending; in both cases the earlier announcements stand.
LEMMA AnnouncedAfter ==
  ASSUME NEW k \in Seq(Items), NEW n \in Nat \ {0}, NEW gap \in BOOLEAN,
         NEW lost, NEW now, lost \subseteq now, now \subseteq Nat,
         \A i \in 1..Len(k) : k[i].gap => \E m \in lost : m < k[i].number,
         \A m \in now : m < n,
         gap => now # {},
         ~ gap => \A m \in now : \E i \in 1..Len(k) : k[i].number > m /\ k[i].gap
  PROVE  LET k2 == Append(k, Event(n, gap))
         IN  /\ \A m \in now : \E i \in 1..Len(k2) : k2[i].number > m /\ k2[i].gap
             /\ \A i \in 1..Len(k2) : k2[i].gap => \E m \in now : m < k2[i].number
<1> DEFINE k2 == Append(k, Event(n, gap))
<1>1. Event(n, gap) \in Items /\ Event(n, gap).number = n /\ Event(n, gap).gap = gap
  BY ItemsAre
<1>2. /\ Len(k2) = Len(k) + 1 /\ Len(k) \in Nat
      /\ \A i \in 1..Len(k) : k2[i] = k[i]
      /\ k2[Len(k) + 1] = Event(n, gap)
  BY <1>1, AppendProperties, LenProperties
<1> HIDE DEF k2
<1>3. ASSUME NEW m \in now PROVE \E i \in 1..Len(k2) : k2[i].number > m /\ k2[i].gap
  <2>1. CASE gap
    <3>1. m < n /\ m \in Nat
      OBVIOUS
    <3>2. Len(k) + 1 \in 1..Len(k2)
      BY <1>2
    <3>3. k2[Len(k) + 1].number > m
      BY <1>1, <1>2, <3>1
    <3>4. k2[Len(k) + 1].gap
      BY <1>1, <1>2, <2>1
    <3> QED
      BY <3>2, <3>3, <3>4
  <2>2. CASE ~ gap
    <3>1. PICK i \in 1..Len(k) : k[i].number > m /\ k[i].gap
      BY <2>2
    <3>2. i \in 1..Len(k2) /\ k2[i] = k[i]
      BY <1>2, <3>1
    <3> QED
      BY <3>1, <3>2
  <2> QED
    BY <2>1, <2>2
<1>4. ASSUME NEW i \in 1..Len(k2), k2[i].gap PROVE \E m \in now : m < k2[i].number
  <2>1. CASE i \in 1..Len(k)
    BY <1>2, <1>4, <2>1
  <2>2. CASE i = Len(k) + 1
    BY <1>1, <1>2, <1>4, <2>2
  <2> QED
    BY <1>2, <2>1, <2>2
<1> QED
  BY <1>3, <1>4 DEF k2

\* Losses stay announced, and a pending gap stays real.
LEMMA LossStep == LossInv /\ [Next]_vars => LossInv'
<1> SUFFICES ASSUME LossInv, [Next]_vars, ~ closed'
             PROVE  GapIsReal' /\ LossesAnnounced'
  BY OrderStep DEF LossInv, GapIsReal, LossesAnnounced
<1>k. TypeOK /\ KeptInOrder /\ OrderInv' /\ (Rests \/ Ends \/ Accepts \/ Take)
  BY StepIs, OrderStep DEF LossInv, OrderInv
<1>o. ~ closed
  BY <1>k DEF Rests, Ends, Accepts, Take
<1>t. /\ delivered \in Seq(Items) /\ queue \in Seq(Items) /\ Kept \in Seq(Items)
      /\ offered \in Nat /\ Rises(Kept, offered) /\ HasNoEnd(delivered) /\ HasNoEnd(queue)
  BY <1>k, <1>o, KeptAfter DEF TypeOK, KeptInOrder
<1>l. /\ Lost = (1..offered) \ Numbers(Kept)
      /\ Lost' = (1..offered') \ Numbers(Kept')
  BY DEF Lost, KeptNumbers, Numbers
<1>i. /\ \A n \in Lost :
           gapPending \/ \E i \in 1..Len(Kept) : Kept[i].number > n /\ Kept[i].gap
      /\ \A i \in 1..Len(Kept) : Kept[i].gap => \E n \in Lost : n < Kept[i].number
      /\ gapPending => Lost # {}
  BY <1>o DEF LossInv, LossesAnnounced, GapIsReal
<1>s. ASSUME Kept' = Kept, offered' = offered, gapPending' = gapPending
      PROVE  GapIsReal' /\ LossesAnnounced'
  <2>1. Lost' = Lost
    BY <1>s DEF Lost, KeptNumbers
  <2> QED
    BY <1>i, <1>s, <2>1 DEF GapIsReal, LossesAnnounced
<1>1. CASE Rests
  BY <1>1, <1>k, <1>s, KeptAfter DEF Rests
<1>2. CASE Ends
  BY <1>2 DEF Ends
<1>3. CASE Take
  <2>1. queue # <<>> /\ UNCHANGED <<offered, gapPending>>
    BY <1>3 DEF Take
  <2>2. Head(queue) # EndMark
    <3>1. queue[1].number # 0 /\ Head(queue) = queue[1]
      BY <1>t, <2>1, EmptySeq DEF HasNoEnd
    <3> QED
      BY <3>1, ItemsAre
  <2> QED
    BY <1>3, <1>k, <1>s, <2>1, <2>2, KeptAfter
<1>4. CASE Accepts
  <2>1. offered' = offered + 1 /\ gapPending \in BOOLEAN /\ offered + 1 \in Nat \ {0}
    BY <1>4, <1>k DEF Accepts, TypeOK
  <2>e. \A gap \in BOOLEAN : /\ Event(offered + 1, gap) \in Items
                             /\ Event(offered + 1, gap).number = offered + 1
    BY <2>1, ItemsAre
  <2>2. CASE Kept' = Append(Kept, Event(offered + 1, gapPending)) /\ gapPending' = FALSE
    <3>1. Numbers(Kept') = Numbers(Kept) \cup {offered + 1}
      BY <1>t, <2>1, <2>2, <2>e, NumbersAppend
    <3>2. Lost' = Lost
      BY <1>t, <1>l, <2>1, <3>1
    <3>3. \A m \in Lost : m < offered + 1
      BY <1>t, <1>l
    <3>4. Lost \subseteq Nat
      BY <1>l
    <3>5. /\ \A i \in 1..Len(Kept) : Kept[i].gap => \E m \in Lost : m < Kept[i].number
          /\ ~ gapPending => \A m \in Lost : \E i \in 1..Len(Kept) : Kept[i].number > m /\ Kept[i].gap
          /\ gapPending => Lost # {}
      BY <1>i DEF LossesAnnounced
    <3>6. LET k2 == Append(Kept, Event(offered + 1, gapPending))
          IN  /\ \A m \in Lost : \E i \in 1..Len(k2) : k2[i].number > m /\ k2[i].gap
              /\ \A i \in 1..Len(k2) : k2[i].gap => \E m \in Lost : m < k2[i].number
      BY <1>t, <2>1, <3>3, <3>4, <3>5, AnnouncedAfter
    <3>7. LossesAnnounced'
      BY <2>2, <3>2, <3>6 DEF LossesAnnounced
    <3> QED
      BY <2>2, <3>7 DEF GapIsReal
  <2>3. CASE Kept' = Kept /\ gapPending' = TRUE
    <3>1. offered + 1 \notin Numbers(Kept)
      <4>1. \A i \in 1..Len(Kept) : Kept[i].number \in Nat /\ Kept[i].number <= offered
        BY <1>t, ElementOfSeq DEF Rises, Items
      <4> QED
        BY <1>t, <4>1 DEF Numbers
    <3>2. Lost' = Lost \cup {offered + 1}
      BY <1>t, <1>l, <2>1, <2>3, <3>1
    <3> QED
      BY <1>i, <2>3, <3>2 DEF GapIsReal, LossesAnnounced
  <2>4. CASE /\ queue # <<>> /\ gapPending' = FALSE
             /\ Kept' = Append(delivered \o Tail(queue), Event(offered + 1, TRUE))
    <3> DEFINE k == delivered \o Tail(queue)
    <3>1. Tail(queue) \in Seq(Items) /\ k \in Seq(Items)
      BY <1>t, <2>4, HeadTailProperties, ConcatIs
    <3>2. /\ Head(queue).number \in (1..offered) \ Numbers(k)
          /\ Numbers(k) \subseteq Numbers(Kept)
      BY <1>t, <2>4, NumbersDrop DEF Kept
    <3>3. Numbers(Kept') = Numbers(k) \cup {offered + 1}
      BY <2>4, <2>e, <3>1, NumbersAppend
    <3>4. Lost' = (1..offered) \ Numbers(k)
      BY <1>t, <1>l, <2>1, <3>3
    <3>5. Lost \subseteq Lost' /\ Lost' # {} /\ Lost' \subseteq Nat /\ \A m \in Lost' : m < offered + 1
      <4>1. Lost \subseteq Lost'
        BY <1>l, <3>2, <3>4
      <4>2. Lost' # {}
        BY <3>2, <3>4
      <4>3. Lost' \subseteq 1..offered
        BY <3>4
      <4>4. \A m \in 1..offered : m \in Nat /\ m < offered + 1
        BY <1>t
      <4> QED
        BY <4>1, <4>2, <4>3, <4>4
    <3>6. \A i \in 1..Len(k) : k[i].gap => \E n \in Lost : n < k[i].number
      <4>1. \A i \in 1..Len(k) : \E j \in 1..Len(Kept) : k[i] = Kept[j]
        BY <1>t, <2>4, DropKeeps DEF Kept
      <4> QED
        BY <1>i, <4>1
    <3> HIDE DEF k
    <3>7. LossesAnnounced'
      <4>1. /\ \A n \in Lost' : \E i \in 1..Len(Kept') : Kept'[i].number > n /\ Kept'[i].gap
            /\ \A i \in 1..Len(Kept') : Kept'[i].gap => \E n \in Lost' : n < Kept'[i].number
        BY <2>1, <2>4, <3>1, <3>5, <3>6, AnnouncedAfter DEF k
      <4> QED
        BY <4>1 DEF LossesAnnounced
    <3> QED
      BY <2>4, <3>7 DEF GapIsReal
  <2> QED
    BY <1>4, <1>k, <2>2, <2>3, <2>4, KeptAccepted
<1> QED
  BY <1>1, <1>2, <1>3, <1>4, <1>k

\* SubscriptionQueue.LossesAnnounced for every instance: while a subscription is open,
\* what an overflow policy drops is announced, and what is announced was dropped.
THEOREM LossesAreAnnounced == Spec => []LossesAnnounced
<1>1. Init => LossInv
  <2> SUFFICES ASSUME Init PROVE GapIsReal /\ LossesAnnounced
    BY OrderInit DEF LossInv
  <2>1. Kept = <<>> /\ Lost = {} /\ Len(Kept) = 0
    <3>1. Kept = <<>>
      BY ConcatEmptySeq, EmptySeq DEF Init, Kept
    <3> QED
      BY <3>1, EmptySeq DEF Init, Lost
  <2> QED
    BY <2>1 DEF Init, GapIsReal, LossesAnnounced
<1>2. LossInv => LossesAnnounced
  BY DEF LossInv
<1> QED
  BY <1>1, <1>2, LossStep, PTL DEF Spec
------------------------------------------------------------------------------
(***************************************************************************)
(* The promise of the iteration                                            *)
(***************************************************************************)

\* What the application has seen, as EventStream counts it.
Seen == [i \in 1..Len(delivered) |-> delivered[i].number]

\* It is a sequence of numbers as long as what was delivered.
LEMMA SeenIs ==
  ASSUME NEW d \in Seq(Items)
  PROVE  LET s == [i \in 1..Len(d) |-> d[i].number]
         IN  s \in Seq(Nat) /\ Len(s) = Len(d) /\ \A i \in 1..Len(d) : s[i] = d[i].number
<1> DEFINE s == [i \in 1..Len(d) |-> d[i].number]
<1>1. Len(d) \in Nat /\ \A i \in 1..Len(d) : d[i].number \in Nat
  BY LenProperties, ElementOfSeq DEF Items
<1>2. s \in [1..Len(d) -> Nat]
  BY <1>1
<1>3. s \in Seq(Nat)
  BY <1>1, <1>2, SeqDef
<1>4. Len(s) = Len(d)
  <2>1. Len(s) \in Nat /\ 1..Len(s) = 1..Len(d)
    BY <1>2, <1>3, LenProperties
  <2> QED
    BY <1>1, <2>1
<1> QED
  BY <1>3, <1>4

\* The application takes an event that is newer than all it has seen.
LEMMA TakeDelivers ==
  ASSUME TypeOK, KeptInOrder, Take, Head(queue) # EndMark
  PROVE  Abs!Deliver
<1>t. /\ delivered \in Seq(Items) /\ queue \in Seq(Items) /\ offered \in Nat
      /\ Rises(Kept, offered) /\ HasNoEnd(delivered)
  BY DEF TypeOK, KeptInOrder
<1>1. /\ ~ ended /\ ended' = ended /\ offered' = offered /\ queue # <<>>
      /\ delivered' = Append(delivered, Head(queue))
  BY DEF Take
<1> DEFINE n == Head(queue).number
<1>2. Head(queue) = queue[1] /\ Head(queue) \in Items /\ n # 0 /\ n \in Nat
  BY <1>t, <1>1, HeadTailProperties, ItemsAre DEF Items
<1>3. Len(delivered) \in Nat /\ Len(queue) \in Nat /\ 1 \in 1..Len(queue)
  BY <1>t, <1>1, EmptySeq, LenProperties
<1>4. Len(delivered) + 1 \in 1..Len(Kept) /\ Kept[Len(delivered) + 1] = queue[1]
  BY <1>t, <1>3, ConcatIs DEF Kept
<1>5. n <= offered
  BY <1>2, <1>4, <1>t DEF Rises
<1>6. Seen \in Seq(Nat) /\ Len(Seen) = Len(delivered)
      /\ \A i \in 1..Len(delivered) : Seen[i] = delivered[i].number
  BY <1>t, SeenIs DEF Seen
<1>7. Len(delivered) # 0 =>
        Seen[Len(Seen)] \in Nat /\ Seen[Len(Seen)] < n
  <2> SUFFICES ASSUME Len(delivered) # 0 PROVE Seen[Len(Seen)] \in Nat /\ Seen[Len(Seen)] < n
    OBVIOUS
  <2> DEFINE l == Len(delivered)
  <2>1. l \in 1..Len(delivered) /\ l < l + 1
    BY <1>3
  <2>2. Kept[l] = delivered[l] /\ l \in 1..Len(Kept) /\ delivered[l].number # 0
    BY <1>t, <2>1, ConcatIs DEF Kept, HasNoEnd
  <2>3. Kept[l].number < Kept[l + 1].number
    BY <1>t, <1>2, <1>4, <2>1, <2>2 DEF Rises
  <2> QED
    BY <1>2, <1>4, <1>6, <2>1, <2>2, <2>3, ElementOfSeq
<1>8. Seen' = Append(Seen, n)
  <2>1. delivered' \in Seq(Items) /\ Len(delivered') = Len(delivered) + 1
        /\ (\A i \in 1..Len(delivered) : delivered'[i] = delivered[i])
        /\ delivered'[Len(delivered) + 1] = Head(queue)
    BY <1>t, <1>1, <1>2, AppendProperties
  <2>2. Seen' \in Seq(Nat) /\ Len(Seen') = Len(delivered')
        /\ \A i \in 1..Len(delivered') : Seen'[i] = delivered'[i].number
    BY <2>1, SeenIs DEF Seen
  <2>3. Append(Seen, n) \in Seq(Nat) /\ Len(Append(Seen, n)) = Len(Seen) + 1
        /\ (\A i \in 1..Len(Seen) : Append(Seen, n)[i] = Seen[i])
        /\ Append(Seen, n)[Len(Seen) + 1] = n
    BY <1>2, <1>6, AppendProperties
  <2>4. ASSUME NEW i \in 1..Len(Seen') PROVE Seen'[i] = Append(Seen, n)[i]
    <3>1. CASE i \in 1..Len(delivered)
      <4>1. Seen'[i] = delivered'[i].number /\ delivered'[i] = delivered[i]
        BY <2>1, <2>2, <3>1
      <4>2. Seen[i] = delivered[i].number /\ Append(Seen, n)[i] = Seen[i]
        BY <1>6, <2>3, <3>1
      <4> QED
        BY <4>1, <4>2
    <3>2. CASE i = Len(delivered) + 1
      <4>1. Seen'[i] = delivered'[i].number /\ delivered'[i] = Head(queue)
        BY <2>1, <2>2, <3>2
      <4>2. Append(Seen, n)[i] = n
        BY <1>6, <2>3, <3>2
      <4> QED
        BY <4>1, <4>2
    <3>3. i \in 1..(Len(delivered) + 1)
      BY <2>1, <2>2
    <3>4. i \in 1..Len(delivered) \/ i = Len(delivered) + 1
      BY <1>3, <3>3
    <3> QED
      BY <3>1, <3>2, <3>4
  <2>5. Len(Seen') = Len(Append(Seen, n))
    BY <1>6, <2>1, <2>2, <2>3
  <2> QED
    BY <2>2, <2>3, <2>4, <2>5, SeqEqual
<1>9. Abs!LastSeen \in Nat /\ Abs!LastSeen < n
  <2>1. Abs!LastSeen = IF Seen = <<>> THEN 0 ELSE Seen[Len(Seen)]
    BY DEF Abs!LastSeen, Seen
  <2>2. Seen # <<>> => Len(delivered) # 0
    BY <1>6, EmptySeq
  <2> QED
    BY <1>2, <1>7, <2>1, <2>2
<1>10. n \in (Abs!LastSeen + 1)..offered
  BY <1>t, <1>2, <1>5, <1>9
<1> HIDE DEF n
<1> QED
  BY <1>1, <1>8, <1>10 DEF Abs!Deliver, Seen

\* Every step is one of the promise's, or a stutter.
LEMMA PromiseStep ==
  OrderInv /\ [Next]_vars =>
    [Abs!Next]_<<offered, [i \in 1..Len(delivered) |-> delivered[i].number], ended>>
<1> SUFFICES ASSUME OrderInv, [Next]_vars
             PROVE  Abs!Next \/ (UNCHANGED <<offered, Seen, ended>>)
  BY DEF Seen
<1>s. ASSUME delivered' = delivered PROVE Seen' = Seen
  BY <1>s DEF Seen
<1>1. CASE Rests
  BY <1>1, <1>s DEF Rests
<1>2. CASE Ends \/ Accepts
  <2>1. /\ delivered' = delivered /\ ended' = ended
        /\ offered' = offered \/ offered' = offered + 1
    BY <1>2 DEF Ends, Accepts
  <2> QED
    BY <1>s, <2>1 DEF Abs!Next, Abs!Offer, Seen
<1>3. CASE Take /\ Head(queue) = EndMark
  <2>1. ~ ended /\ ended' = TRUE /\ delivered' = delivered /\ offered' = offered
    BY <1>3 DEF Take
  <2> QED
    BY <1>s, <2>1 DEF Abs!Next, Abs!End, Seen
<1>4. CASE Take /\ Head(queue) # EndMark
  BY <1>4, TakeDelivers DEF Abs!Next, OrderInv
<1> QED
  BY <1>1, <1>2, <1>3, <1>4, StepIs DEF OrderInv

\* SubscriptionQueue.StreamPromise for every instance: the queue, with its overflow
\* policies, losses and restorations, implements EventStream: what is iterated is what
\* was published, in order, nothing twice, and nothing after the end.
THEOREM IterationIsAStream == Spec => StreamPromise
<1>1. Init => Abs!Init
  <2> SUFFICES ASSUME Init PROVE Abs!Init
    OBVIOUS
  <2>1. delivered = <<>> /\ offered = 0 /\ ended = FALSE
    BY DEF Init
  <2>2. Seen \in Seq(Nat) /\ Len(Seen) = 0
    BY <2>1, SeenIs, EmptySeq DEF Seen
  <2>3. Seen = <<>>
    BY <2>2, EmptySeq
  <2> QED
    BY <2>1, <2>3 DEF Abs!Init, Seen
<1> QED
  BY <1>1, OrderInit, OrderStep, PromiseStep, PTL DEF Spec, StreamPromise, Abs!Spec
==============================================================================
