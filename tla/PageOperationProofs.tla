------------------------- MODULE PageOperationProofs -------------------------
(***************************************************************************)
(* Proofs about PageOperation, for any replies, budget of the buffer and   *)
(* changes of the page; and, in the last section, about BrowserSession,    *)
(* the session of the context the page is in.                              *)
(***************************************************************************)
EXTENDS PageOperation, BrowserSession, SequenceTheorems, WellFoundedInduction, TLAPS

USE PageAssumption

\* A reply in the buffer, with the place it was given there and the time it was received.
Views == [kind : {"answer", "other"}, size : Nat, at : Nat, got : {"before", "after", "late"}]

PCs == {"start", "explain", "navigate", "landed", "ready", "intercept", "act", "settle",
        "disturbed", "rules", "cases", "value", "second", "clock"} \cup Ended

TypeOK ==
  /\ pc \in PCs /\ verb \in {"act", "goto"}
  /\ handled \in BOOLEAN /\ over \in BOOLEAN
  /\ since \in Nat /\ first \in Nat /\ navs \in Nat /\ changes \in Nat /\ seen \in Nat
  /\ page \subseteq Signs /\ steady \subseteq Signs \cup {"navigated"}
  /\ coming \subseteq Replies
  /\ reading \subseteq [reply : Replies, got : {"before", "after"}]
  /\ buffer \in Seq(Views)
  /\ answer \in {"none", "before", "after", "late"}
------------------------------------------------------------------------------
(***************************************************************************)
(* The buffer                                                              *)
(***************************************************************************)

\* A set of numbers has a least member.
LEMMA MinIsThere ==
  ASSUME NEW S \in SUBSET Nat, S # {}
  PROVE  Min(S) \in S /\ \A y \in S : Min(S) =< y
<1>1. PICK x \in S : \A y \in S : ~(<<y, x>> \in OpToRel(<, Nat))
  BY NatLessThanWellFounded, WFMin
<1>2. \A y \in S : ~(y < x)
  BY <1>1 DEF OpToRel
<1>3. \A y \in S : x =< y
  BY <1>2
<1> QED
  BY <1>3 DEF Min

\* A set of numbers with a bound has a greatest one.
LEMMA MaxIsThere ==
  ASSUME NEW n \in Nat, NEW S \in SUBSET (1..n), S # {}
  PROVE  Max(S) \in S
<1> DEFINE T == {n - x : x \in S}
<1>1. \A x \in S : n - x \in Nat
  OBVIOUS
<1>2. T \in SUBSET Nat /\ T # {}
  BY <1>1
<1>3. Min(T) \in T /\ \A y \in T : Min(T) =< y
  BY <1>2, MinIsThere
<1>4. PICK x \in S : Min(T) = n - x
  BY <1>3
<1>5. \A y \in S : n - x =< n - y
  BY <1>3, <1>4
<1>6. \A y \in S : x >= y
  BY <1>5
<1> QED
  BY <1>6 DEF Max

\* What is left of a buffer over its budget was in it, in the same order.
LEMMA EvictedIs ==
  ASSUME NEW b \in Seq(Views), b # <<>>
  PROVE  /\ Evicted(b) \in Seq(Views)
         /\ \A i \in 1..Len(Evicted(b)) : \E j \in 1..Len(b) : Evicted(b)[i] = b[j]
<1> DEFINE S == {i \in 1..Len(b) : BytesOf(SubSeq(b, i, Len(b))) <= Budget} \cup {Len(b)}
           m == Min(S)
<1>1. Len(b) \in Nat /\ Len(b) # 0 /\ \A i \in 1..Len(b) : b[i] \in Views
  BY EmptySeq, ElementOfSeq
<1>2. S \in SUBSET Nat /\ S # {} /\ S \subseteq 1..Len(b)
  BY <1>1
<1> HIDE DEF S
<1>3. m \in 1..Len(b)
  BY <1>2, MinIsThere
<1>4. Evicted(b) = SubSeq(b, m, Len(b))
  BY DEF Evicted, S
<1> HIDE DEF m
<1>5. \A i \in m..Len(b) : b[i] \in Views
  BY <1>1, <1>3
<1>6. /\ Evicted(b) \in Seq(Views) /\ Len(Evicted(b)) = Len(b) - m + 1
      /\ \A i \in 1..Len(b) - m + 1 : Evicted(b)[i] = b[m + i - 1]
  BY <1>1, <1>3, <1>4, <1>5, SubSeqProperties
<1>7. \A i \in 1..Len(b) - m + 1 : m + i - 1 \in 1..Len(b)
  BY <1>1, <1>3
<1> QED
  BY <1>6, <1>7

\* A reply that is added is a view, and every kept one was kept before or is the new one.
LEMMA AddIs ==
  ASSUME TypeOK, NEW view \in Views, Add(view)
  PROVE  /\ buffer' \in Seq(Views) /\ seen' = seen + 1
         /\ \A i \in 1..Len(buffer') :
              buffer'[i] = view \/ \E j \in 1..Len(buffer) : buffer'[i] = buffer[j]
<1> DEFINE b == Append(buffer, view)
<1>1. buffer \in Seq(Views) /\ Len(buffer) \in Nat
  BY LenProperties DEF TypeOK
<1>2. /\ b \in Seq(Views) /\ b # <<>> /\ Len(b) = Len(buffer) + 1
      /\ \A j \in 1..Len(buffer) : b[j] = buffer[j]
      /\ b[Len(buffer) + 1] = view
  BY <1>1, AppendProperties
<1>3. buffer' = Evicted(b) /\ seen' = seen + 1
  BY DEF Add
<1> HIDE DEF b
<1>4. \A j \in 1..Len(b) : j \in 1..Len(buffer) \/ j = Len(buffer) + 1
  BY <1>1, <1>2
<1>5. /\ Evicted(b) \in Seq(Views)
      /\ \A i \in 1..Len(Evicted(b)) : \E j \in 1..Len(b) : Evicted(b)[i] = b[j]
  BY <1>2, EvictedIs
<1>6. \A j \in 1..Len(b) : b[j] = view \/ \E k \in 1..Len(buffer) : b[j] = buffer[k]
  BY <1>2, <1>4
<1> QED
  BY <1>3, <1>5, <1>6

\* A reply whose body was read is stored with the next position, as one received before
\* the watershed only if the watershed has not passed; or it is lost.
LEMMA StoreIs ==
  ASSUME TypeOK, NEW x \in reading, Store(x)
  PROVE  /\ buffer' \in Seq(Views) /\ seen' \in Nat /\ seen <= seen'
         /\ \A i \in 1..Len(buffer') :
              \/ \E j \in 1..Len(buffer) : buffer'[i] = buffer[j]
              \/ /\ buffer'[i].at = seen /\ seen < seen'
                 /\ buffer'[i].got = "before" => pc = "start"
<1> DEFINE view == [kind |-> x.reply.kind, size |-> x.reply.size, at |-> seen,
                    got |-> IF pc # "start" /\ x.got = "before" THEN "late" ELSE x.got]
<1>t. seen \in Nat /\ buffer \in Seq(Views)
  BY DEF TypeOK
<1>1. x.reply \in Replies /\ x.got \in {"before", "after"}
  BY DEF TypeOK
<1>2. x.reply.kind \in {"answer", "other"} /\ x.reply.size \in Nat
  BY <1>1
<1>3. view \in Views
  BY <1>1, <1>2, <1>t DEF Views
<1>4. view.at = seen /\ (view.got = "before" => pc = "start")
  OBVIOUS
<1>5. Add(view) \/ UNCHANGED <<buffer, seen>>
  BY DEF Store
<1> HIDE DEF view
<1>6. CASE Add(view)
  <2>1. /\ buffer' \in Seq(Views) /\ seen' = seen + 1
        /\ \A i \in 1..Len(buffer') :
             buffer'[i] = view \/ \E j \in 1..Len(buffer) : buffer'[i] = buffer[j]
    BY <1>3, <1>6, AddIs
  <2>2. seen' \in Nat /\ seen < seen'
    BY <1>t, <2>1
  <2>3. \A i \in 1..Len(buffer') :
          buffer'[i] = view => /\ buffer'[i].at = seen
                               /\ buffer'[i].got = "before" => pc = "start"
    BY <1>4
  <2>4. seen <= seen'
    BY <1>t, <2>2
  <2> QED
    BY <2>1, <2>2, <2>3, <2>4
<1>7. CASE UNCHANGED <<buffer, seen>>
  BY <1>t, <1>7
<1> QED
  BY <1>5, <1>6, <1>7

\* The reply that is found is one to the address, at or after the watershed.
LEMMA FoundIs ==
  ASSUME TypeOK, Found # 0
  PROVE  Found \in 1..Len(buffer) /\ buffer[Found].at >= since
<1> DEFINE I == {i \in 1..Len(buffer) : buffer[i].kind = "answer" /\ buffer[i].at >= since}
<1>1. Found = IF I # {} THEN Max(I) ELSE 0
  BY DEF Found, SelectLastInSeq
<1>2. I \in SUBSET (1..Len(buffer)) /\ Len(buffer) \in Nat
  BY LenProperties DEF TypeOK
<1>3. I # {} => Max(I) \in I
  <2> HIDE DEF I
  <2> QED
    BY <1>2, MaxIsThere
<1> QED
  BY <1>1, <1>3
------------------------------------------------------------------------------
(***************************************************************************)
(* The invariants                                                          *)
(***************************************************************************)

\* The steps of a round after the disturbance, those after the refusal rules, and the
\* whole round.
AfterBanner == {"rules", "cases", "value", "second", "clock", "outcome", "default"}
AfterRules == AfterBanner \ {"rules"}
InRound == (AfterBanner \ {"outcome", "default"}) \cup {"disturbed"}

\* A sign that stood during the whole round is on the page now.
SteadyIsOnPage == steady \subseteq page \cup {"navigated"}

\* In a round, a navigation that stood is one since the watershed.
NavigatedIsTrue == pc \in InRound /\ "navigated" \in steady => navs > first

\* What the round has looked at so far was not there all the time.
BannerWasMet == pc \in AfterBanner => "banner" \notin steady \/ handled
RefusalWasSeen == pc \in AfterRules => "denied" \notin steady
SecondWasSeen == pc \in {"clock", "default"} => ~({"navigated", "dialog"} \subseteq steady)
DefaultIsLate == pc = "default" => over

RoundInv ==
  /\ SteadyIsOnPage /\ NavigatedIsTrue
  /\ BannerWasMet /\ RefusalWasSeen /\ SecondWasSeen /\ DefaultIsLate

\* Before the watershed nothing reads the buffer; after it, a reply received before it
\* lies below the watershed.
BeforeIsBelow ==
  \A i \in 1..Len(buffer) :
    buffer[i].got = "before" => pc \in {"start", "explain"} \cup Ended \/ buffer[i].at < since

\* Positions in the buffer were given out.
PositionsAreGiven == \A i \in 1..Len(buffer) : buffer[i].at < seen

BufferInv == PositionsAreGiven /\ BeforeIsBelow /\ OldRepliesAreNotRead
------------------------------------------------------------------------------
(***************************************************************************)
(* Types                                                                   *)
(***************************************************************************)

\* Meeting the interceptor, the page stays a set of signs, and keeps what stood on it.
LEMMA InterceptIs ==
  ASSUME TypeOK, NEW next \in PCs, NEW otherwise \in PCs, Intercept(next, otherwise)
  PROVE  /\ page' \subseteq Signs /\ steady' \subseteq Signs \cup {"navigated"}
         /\ handled' \in BOOLEAN /\ pc' \in PCs
<1>1. CASE /\ page' \in {page, page \ {"banner"}} /\ handled' = TRUE
           /\ steady' = steady \cap Kept /\ Goto(next)
  <2>1. handled' \in BOOLEAN
    BY <1>1, Zenon
  <2> QED
    BY <1>1, <2>1 DEF TypeOK, Goto
<1>2. CASE Goto("broken") /\ UNCHANGED <<page, handled, steady>>
  BY <1>2 DEF TypeOK, Goto, PCs, Ended
<1>3. CASE Goto(otherwise) /\ UNCHANGED <<page, handled, steady>>
  BY <1>3 DEF TypeOK, Goto
<1> QED
  BY <1>1, <1>2, <1>3 DEF Intercept

\* Every step keeps the types.
LEMMA TypeStep == TypeOK /\ [Next]_vars => TypeOK'
<1> SUFFICES ASSUME TypeOK, [Next]_vars PROVE TypeOK'
  OBVIOUS
<1>n. ASSUME UNCHANGED network PROVE
        /\ seen' \in Nat /\ coming' \subseteq Replies /\ buffer' \in Seq(Views)
        /\ reading' \subseteq [reply : Replies, got : {"before", "after"}]
  BY <1>n DEF network, TypeOK
<1>1. CASE Start
  <2>1. /\ pc' \in PCs /\ since' \in Nat /\ first' \in Nat
        /\ steady' \subseteq Signs \cup {"navigated"}
    BY <1>1 DEF Start, Goto, Watershed, Round, PCs, TypeOK
  <2>2. UNCHANGED <<verb, handled, over, page, navs, changes, network, answer>>
    BY <1>1 DEF Start
  <2> QED
    BY <1>n, <2>1, <2>2 DEF TypeOK
<1>2. CASE Explain
  BY <1>2, <1>n DEF Explain, Goto, PCs, Ended, history, TypeOK
<1>3. CASE Navigate
  <2>1. /\ pc' \in PCs /\ page' \subseteq Signs /\ navs' \in Nat /\ steady' = {}
    BY <1>3 DEF Navigate, Goto, PCs, Ended, TypeOK
  <2>2. UNCHANGED <<verb, handled, since, first, over, changes, network, answer>>
    BY <1>3 DEF Navigate
  <2> QED
    BY <1>n, <2>1, <2>2 DEF TypeOK
<1>4. CASE Landed
  BY <1>4, <1>n DEF Landed, Goto, PCs, Ended, history, TypeOK
<1>5. CASE Ready
  <2>1. /\ pc' \in PCs /\ steady' \subseteq Signs \cup {"navigated"}
    BY <1>5 DEF Ready, Goto, Round, PCs, TypeOK
  <2>2. UNCHANGED <<verb, handled, since, first, over, page, navs, changes, network, answer>>
    BY <1>5 DEF Ready
  <2> QED
    BY <1>n, <2>1, <2>2 DEF TypeOK
<1>6. CASE Clear
  <2>1. PICK then \in {"act", "settle"} : Intercept(then, then)
    BY <1>6 DEF Clear
  <2>2. /\ page' \subseteq Signs /\ steady' \subseteq Signs \cup {"navigated"}
        /\ handled' \in BOOLEAN /\ pc' \in PCs
    BY <2>1, InterceptIs DEF PCs
  <2>3. UNCHANGED <<verb, since, first, over, navs, changes, network, answer>>
    BY <1>6 DEF Clear
  <2> QED
    BY <1>n, <2>2, <2>3 DEF TypeOK
<1>7. CASE Act
  <2>1. /\ pc' \in PCs /\ page' \subseteq Signs /\ navs' \in Nat
        /\ steady' \subseteq steady
    BY <1>7 DEF Act, Goto, PCs, Ended, TypeOK
  <2>2. UNCHANGED <<verb, handled, since, first, over, changes, network, answer>>
    BY <1>7 DEF Act
  <2> QED
    BY <1>n, <2>1, <2>2 DEF TypeOK
<1>8. CASE NextRound
  <2>1. /\ pc' \in PCs /\ steady' \subseteq Signs \cup {"navigated"}
    BY <1>8 DEF NextRound, Goto, Round, PCs, TypeOK
  <2>2. UNCHANGED <<verb, handled, since, first, over, page, navs, changes, network, answer>>
    BY <1>8 DEF NextRound
  <2> QED
    BY <1>n, <2>1, <2>2 DEF TypeOK
<1>9. CASE Disturbed
  <2>1. /\ page' \subseteq Signs /\ steady' \subseteq Signs \cup {"navigated"}
        /\ handled' \in BOOLEAN /\ pc' \in PCs
    BY <1>9, InterceptIs DEF Disturbed, PCs
  <2>2. UNCHANGED <<verb, since, first, over, navs, changes, network, answer>>
    BY <1>9 DEF Disturbed
  <2> QED
    BY <1>n, <2>1, <2>2 DEF TypeOK
<1>10. CASE Enforce \/ Arrived \/ Second \/ Clock
  <2>1. /\ pc' \in PCs
        /\ UNCHANGED <<verb, handled, since, first, over, page, navs, changes, network, history>>
    BY <1>10 DEF Enforce, Arrived, Second, Clock, Goto, PCs, Ended
  <2> QED
    BY <1>n, <2>1 DEF TypeOK, history
<1>11. CASE Value
  <2>1. pc' \in PCs /\ answer' \in {"none", "before", "after", "late"}
    <3>1. CASE Found # 0 /\ Goto("outcome") /\ answer' = buffer[Found].got
      <4>1. buffer[Found] \in Views
        BY <3>1, FoundIs, ElementOfSeq DEF TypeOK
      <4> QED
        BY <3>1, <4>1 DEF Views, Goto, PCs, Ended
    <3>2. CASE Goto("missing") /\ UNCHANGED answer
      BY <3>2 DEF Goto, PCs, Ended, TypeOK
    <3> QED
      BY <1>11, <3>1, <3>2 DEF Value
  <2>2. UNCHANGED <<verb, handled, since, first, over, page, navs, changes, network, steady>>
    BY <1>11 DEF Value
  <2> QED
    BY <1>n, <2>1, <2>2 DEF TypeOK
<1>12. CASE Deadline
  <2>1. over' \in BOOLEAN
    BY <1>12, Zenon DEF Deadline
  <2>2. UNCHANGED <<pc, verb, handled, since, first, page, navs, changes, network, steady, answer>>
    BY <1>12 DEF Deadline
  <2> QED
    BY <1>n, <2>1, <2>2 DEF TypeOK
<1>13. CASE Change
  <2>1. page' \subseteq Signs /\ navs' \in Nat /\ changes' \in Nat /\ steady' \subseteq steady
    BY <1>13 DEF Change, TypeOK
  <2>2. UNCHANGED <<operation, network, answer>>
    BY <1>13 DEF Change
  <2> QED
    BY <1>n, <2>1, <2>2 DEF operation, TypeOK
<1>14. ASSUME NEW r \in Replies, Receive(r) PROVE TypeOK'
  <2>1. /\ coming' \subseteq Replies
        /\ reading' \subseteq [reply : Replies, got : {"before", "after"}]
    BY <1>14 DEF Receive, TypeOK
  <2>2. UNCHANGED <<operation, page, navs, changes, buffer, seen, history>>
    BY <1>14 DEF Receive
  <2> QED
    BY <2>1, <2>2 DEF operation, history, TypeOK
<1>15. ASSUME NEW x \in reading, Store(x) PROVE TypeOK'
  <2>1. /\ x \in [reply : Replies, got : {"before", "after"}]
        /\ reading' \subseteq [reply : Replies, got : {"before", "after"}]
    BY <1>15 DEF Store, TypeOK
  <2>2. UNCHANGED <<operation, page, navs, changes, coming, history>>
    BY <1>15 DEF Store
  <2>3. buffer' \in Seq(Views) /\ seen' \in Nat
    BY <1>15, StoreIs
  <2> QED
    BY <2>1, <2>2, <2>3 DEF operation, history, TypeOK
<1>16. CASE UNCHANGED vars
  BY <1>16 DEF vars, TypeOK
<1> QED
  BY <1>1, <1>2, <1>3, <1>4, <1>5, <1>6, <1>7, <1>8, <1>9, <1>10, <1>11, <1>12, <1>13, <1>14,
     <1>15, <1>16 DEF Next, Step

\* The initial states have the types.
LEMMA TypeInit == Init => TypeOK
<1> SUFFICES ASSUME Init PROVE TypeOK
  OBVIOUS
<1>1. handled \in BOOLEAN /\ over \in BOOLEAN
  BY Zenon DEF Init
<1>2. buffer \in Seq(Views)
  BY EmptySeq DEF Init
<1>3. /\ pc = "start" /\ verb \in {"act", "goto"}
      /\ since = 0 /\ first = 0 /\ page \subseteq Signs /\ navs = 0 /\ changes = 0
      /\ reading = {} /\ seen = 0 /\ coming = Replies /\ steady = {} /\ answer = "none"
  BY DEF Init
<1> QED
  BY <1>1, <1>2, <1>3 DEF TypeOK, PCs

\* Every value of the model has its type in every reachable state.
THEOREM TypeCorrect == Spec => []TypeOK
  BY TypeInit, TypeStep, PTL DEF Spec
------------------------------------------------------------------------------
(***************************************************************************)
(* What a round has seen                                                   *)
(***************************************************************************)

\* A step that begins the round afresh, in a place from which the round is still to come.
LEMMA RoundBegins ==
  ASSUME TypeOK, Round, pc' \in {"intercept", "explain", "navigate", "disturbed"},
         UNCHANGED <<page, navs>>, pc' = "disturbed" => first' = first
  PROVE  RoundInv'
<1>1. SteadyIsOnPage'
  BY DEF Round, SteadyIsOnPage
<1>2. NavigatedIsTrue'
  BY DEF Round, NavigatedIsTrue, InRound, AfterBanner, TypeOK, Signs
<1>3. BannerWasMet' /\ RefusalWasSeen' /\ SecondWasSeen' /\ DefaultIsLate'
  BY DEF BannerWasMet, RefusalWasSeen, SecondWasSeen, DefaultIsLate, AfterBanner, AfterRules
<1> QED
  BY <1>1, <1>2, <1>3 DEF RoundInv

\* A step to where nothing of the round counts.
LEMMA RoundIsOver ==
  ASSUME TypeOK, RoundInv, steady' \subseteq page' \cup {"navigated"},
         pc' \notin AfterBanner, pc' \notin InRound
  PROVE  RoundInv'
  BY DEF RoundInv, SteadyIsOnPage, NavigatedIsTrue, BannerWasMet, RefusalWasSeen, SecondWasSeen,
     DefaultIsLate, AfterBanner, AfterRules, InRound

\* A step that leaves the operation where it is: a sign may only leave the history, and
\* navigations are never taken back.
LEMMA RoundGoesOn ==
  ASSUME TypeOK, RoundInv, steady' \subseteq steady, steady' \subseteq page' \cup {"navigated"},
         navs' \in Nat, navs <= navs', first' = first, pc' = pc, handled => handled', over => over'
  PROVE  RoundInv'
<1>1. SteadyIsOnPage'
  BY DEF SteadyIsOnPage
<1>2. NavigatedIsTrue'
  BY DEF NavigatedIsTrue, RoundInv, TypeOK
<1>3. BannerWasMet' /\ RefusalWasSeen' /\ SecondWasSeen' /\ DefaultIsLate'
  BY DEF BannerWasMet, RefusalWasSeen, SecondWasSeen, DefaultIsLate, RoundInv
<1> QED
  BY <1>1, <1>2, <1>3 DEF RoundInv

\* A look at the page within the round, which changes nothing but the place.
LEMMA RoundLooks ==
  ASSUME TypeOK, RoundInv, pc \in InRound, UNCHANGED <<page, steady, navs, first, handled, over>>,
         pc' \in AfterBanner => pc \in AfterBanner \/ "banner" \notin page \/ handled,
         pc' \in AfterRules => pc \in AfterRules \/ "denied" \notin page,
         pc' \in {"clock", "default"} => pc = "clock" \/ ~(navs > first /\ "dialog" \in page),
         pc' = "default" => over
  PROVE  RoundInv'
<1>1. SteadyIsOnPage' /\ steady \subseteq page \cup {"navigated"}
  BY DEF SteadyIsOnPage, RoundInv
<1>2. "navigated" \in steady => navs > first
  BY DEF NavigatedIsTrue, RoundInv
<1>3. NavigatedIsTrue'
  BY <1>2 DEF NavigatedIsTrue
<1>4. BannerWasMet'
  BY <1>1 DEF BannerWasMet, RoundInv
<1>5. RefusalWasSeen'
  BY <1>1 DEF RefusalWasSeen, RoundInv
<1>6. SecondWasSeen'
  BY <1>1, <1>2 DEF SecondWasSeen, RoundInv
<1>7. DefaultIsLate'
  BY DEF DefaultIsLate
<1> QED
  BY <1>1, <1>3, <1>4, <1>5, <1>6, <1>7 DEF RoundInv

\* Every step keeps what the rounds have seen.
LEMMA RoundStep == TypeOK /\ RoundInv /\ [Next]_vars => RoundInv'
<1> SUFFICES ASSUME TypeOK, RoundInv, [Next]_vars PROVE RoundInv'
  OBVIOUS
<1>s. steady \subseteq page \cup {"navigated"}
  BY DEF RoundInv, SteadyIsOnPage
<1>n. navs \in Nat
  BY DEF TypeOK
<1> USE DEF Goto
<1>1. CASE Start
  <2>1. /\ pc' \in {"intercept", "explain", "navigate"} /\ Round /\ UNCHANGED <<page, navs>>
    BY <1>1 DEF Start
  <2> QED
    BY <2>1, RoundBegins
<1>2. CASE Ready
  BY <1>2, RoundBegins DEF Ready
<1>3. CASE NextRound
  BY <1>3, RoundBegins DEF NextRound
<1>4. CASE Explain \/ Landed
  <2>1. /\ pc' \in {"refused", "not_ready", "ready"} /\ UNCHANGED <<page, steady>>
    BY <1>4 DEF Explain, Landed, history
  <2> QED
    BY <1>s, <2>1, RoundIsOver DEF AfterBanner, InRound
<1>5. CASE Navigate
  <2>1. pc' \in {"landed", "broken"} /\ steady' = {}
    BY <1>5 DEF Navigate
  <2> QED
    BY <2>1, RoundIsOver DEF AfterBanner, InRound
<1>6. CASE Clear
  <2>1. /\ pc' \in {"act", "settle", "broken"}
        /\ steady' = steady \cap Kept \/ UNCHANGED <<page, steady>>
    BY <1>6 DEF Clear, Intercept
  <2>2. steady' \subseteq page' \cup {"navigated"}
    BY <1>s, <2>1 DEF Kept
  <2> QED
    BY <2>1, <2>2, RoundIsOver DEF AfterBanner, InRound
<1>7. CASE Act
  <2>1. pc' \in {"settle", "broken"} /\ steady' = steady \cap Kept
    BY <1>7 DEF Act
  <2>2. steady' \subseteq page' \cup {"navigated"}
    BY <2>1 DEF Kept
  <2> QED
    BY <2>1, <2>2, RoundIsOver DEF AfterBanner, InRound
<1>8. CASE Disturbed
  <2>1. CASE /\ pc' \in {"settle", "broken"}
             /\ steady' = steady \cap Kept \/ UNCHANGED <<page, steady>>
    <3>1. steady' \subseteq page' \cup {"navigated"}
      BY <1>s, <2>1 DEF Kept
    <3> QED
      BY <2>1, <3>1, RoundIsOver DEF AfterBanner, InRound
  <2>2. CASE ~ Meets /\ pc' = "rules" /\ UNCHANGED <<page, handled, steady>>
    <3>1. pc = "disturbed" /\ UNCHANGED <<first, over, navs>>
      BY <1>8 DEF Disturbed
    <3>2. "banner" \notin page \/ handled
      BY <2>2 DEF Meets
    <3> QED
      BY <2>2, <3>1, <3>2, RoundLooks DEF AfterRules, AfterBanner, InRound
  <2> QED
    BY <1>8, <2>1, <2>2 DEF Disturbed, Intercept
<1>9. CASE Enforce
  <2>1. /\ pc = "rules" /\ UNCHANGED <<page, steady, navs, first, handled, over>>
        /\ \/ pc' = "refused"
           \/ pc' = "cases" /\ "denied" \notin page
    BY <1>9 DEF Enforce, history
  <2> QED
    BY <2>1, RoundLooks DEF AfterRules, AfterBanner, InRound
<1>10. CASE Arrived
  <2>1. /\ pc = "cases" /\ UNCHANGED <<page, steady, navs, first, handled, over>>
        /\ pc' \in {"value", "second"}
    BY <1>10 DEF Arrived, history
  <2> QED
    BY <2>1, RoundLooks DEF AfterRules, AfterBanner, InRound
<1>11. CASE Value
  <2>1. /\ pc = "value" /\ UNCHANGED <<page, steady, navs, first, handled, over>>
        /\ pc' \in {"outcome", "missing"}
    BY <1>11 DEF Value
  <2> QED
    BY <2>1, RoundLooks DEF AfterRules, AfterBanner, InRound
<1>12. CASE Second
  <2>1. /\ pc = "second" /\ UNCHANGED <<page, steady, navs, first, handled, over>>
        /\ \/ pc' = "outcome"
           \/ pc' = "clock" /\ ~(navs > first /\ "dialog" \in page)
    BY <1>12 DEF Second, history
  <2> QED
    BY <2>1, RoundLooks DEF AfterRules, AfterBanner, InRound
<1>13. CASE Clock
  <2>1. /\ pc = "clock" /\ UNCHANGED <<page, steady, navs, first, handled, over>>
        /\ \/ pc' = "settle"
           \/ pc' = "default" /\ over
    BY <1>13 DEF Clock, history
  <2> QED
    BY <2>1, RoundLooks DEF AfterRules, AfterBanner, InRound
<1>14. CASE Deadline
  <2>1. /\ over' = TRUE /\ UNCHANGED <<pc, handled, first, page, navs, steady>>
    BY <1>14 DEF Deadline
  <2> QED
    BY <1>s, <1>n, <2>1, RoundGoesOn
<1>15. CASE Change
  <2>1. /\ steady' = steady \cap Kept /\ navs' \in {navs, navs + 1}
        /\ UNCHANGED <<pc, handled, first, over>>
    BY <1>15 DEF Change, operation
  <2>2. steady' \subseteq page' \cup {"navigated"} /\ steady' \subseteq steady
    BY <2>1 DEF Kept
  <2>3. navs' \in Nat /\ navs <= navs'
    BY <1>n, <2>1
  <2> QED
    BY <2>1, <2>2, <2>3, RoundGoesOn
<1>16. CASE (\E r \in Replies : Receive(r)) \/ (\E x \in reading : Store(x)) \/ UNCHANGED vars
  <2>1. UNCHANGED <<pc, handled, first, over, page, navs, steady>>
    BY <1>16 DEF Receive, Store, operation, history, vars
  <2> QED
    BY <1>s, <1>n, <2>1, RoundGoesOn
<1> QED
  BY <1>1, <1>2, <1>3, <1>4, <1>5, <1>6, <1>7, <1>8, <1>9, <1>10, <1>11, <1>12, <1>13, <1>14,
     <1>15, <1>16 DEF Next, Step

\* Nothing has been seen before the first round.
LEMMA RoundInit == Init => RoundInv
  BY DEF Init, RoundInv, SteadyIsOnPage, NavigatedIsTrue, BannerWasMet, RefusalWasSeen,
     SecondWasSeen, DefaultIsLate, AfterBanner, AfterRules, InRound

\* PageOperation.RefusalComesFirst for every instance: no outcome is announced over a
\* refusal, or a disturbance nobody met, that stood during the round that found it.
THEOREM OutcomesAreNotRefusals == Spec => []RefusalComesFirst
<1>1. RoundInv => RefusalComesFirst
  BY DEF RoundInv, RefusalComesFirst, BannerWasMet, RefusalWasSeen, AfterBanner, AfterRules
<1> QED
  BY <1>1, TypeInit, TypeStep, RoundInit, RoundStep, PTL DEF Spec

\* PageOperation.DefaultIsRight for every instance: "not found in time" is late, and
\* overlooks no refusal and no outcome that stood during the last round.
THEOREM DefaultIsEarned == Spec => []DefaultIsRight
<1>1. RoundInv => DefaultIsRight
  BY DEF RoundInv, DefaultIsRight, RefusalWasSeen, SecondWasSeen, DefaultIsLate, AfterBanner,
     AfterRules
<1> QED
  BY <1>1, TypeInit, TypeStep, RoundInit, RoundStep, PTL DEF Spec
------------------------------------------------------------------------------
(***************************************************************************)
(* Old replies                                                             *)
(***************************************************************************)

\* While the buffer rests, the invariant stays if the watershed does, or nothing is read.
LEMMA BufferRests ==
  ASSUME TypeOK, BufferInv, UNCHANGED <<buffer, seen, answer>>,
         \/ since' = seen
         \/ pc' \in {"explain"} \cup Ended
         \/ since' = since /\ (pc' \in {"start", "explain"} \cup Ended \/ pc = pc')
         \/ since' = since /\ pc \notin {"start", "explain"} \cup Ended
  PROVE  BufferInv'
<1>1. PositionsAreGiven' /\ OldRepliesAreNotRead'
  BY DEF BufferInv, PositionsAreGiven, OldRepliesAreNotRead
<1>2. BeforeIsBelow'
  BY DEF BufferInv, BeforeIsBelow, PositionsAreGiven
<1> QED
  BY <1>1, <1>2 DEF BufferInv

\* Every step keeps the replies received before the watershed below it.
LEMMA BufferStep == TypeOK /\ BufferInv /\ [Next]_vars => BufferInv'
<1> SUFFICES ASSUME TypeOK, BufferInv, [Next]_vars PROVE BufferInv'
  OBVIOUS
<1> USE DEF Goto, network, operation, history
<1>1. CASE Start
  <2>1. /\ UNCHANGED <<buffer, seen, answer>>
        /\ \/ pc' = "explain"
           \/ since' = seen
    BY <1>1 DEF Start, Watershed
  <2> QED
    BY <2>1, BufferRests
<1>2. CASE Explain
  BY <1>2, BufferRests DEF Explain, Ended
<1>3. CASE Navigate \/ Landed \/ Ready \/ Clear \/ Act \/ NextRound \/ Disturbed \/ Enforce
           \/ Arrived \/ Second \/ Clock \/ Deadline
  <2>1. /\ UNCHANGED <<buffer, seen, answer, since>>
        /\ pc \notin {"start", "explain"} \cup Ended
    BY <1>3 DEF Navigate, Landed, Ready, Clear, Act, NextRound, Disturbed, Enforce, Arrived,
       Second, Clock, Deadline, Ended
  <2> QED
    BY <2>1, BufferRests
<1>4. CASE Value
  <2>1. UNCHANGED <<buffer, seen, since>> /\ pc = "value" /\ pc' \in Ended
    BY <1>4 DEF Value, Ended
  <2>2. PositionsAreGiven' /\ BeforeIsBelow'
    BY <2>1 DEF BufferInv, PositionsAreGiven, BeforeIsBelow
  <2>3. OldRepliesAreNotRead'
    <3>1. CASE Found # 0 /\ answer' = buffer[Found].got
      <4>1. Found \in 1..Len(buffer) /\ buffer[Found].at >= since
        BY <3>1, FoundIs
      <4>2. buffer[Found] \in Views
        BY <4>1, ElementOfSeq DEF TypeOK
      <4>3. ~(buffer[Found].at < since)
        BY <4>1, <4>2 DEF TypeOK, Views
      <4> HIDE DEF Found
      <4>4. buffer[Found].got # "before"
        BY <2>1, <4>1, <4>3 DEF BufferInv, BeforeIsBelow, Ended
      <4> QED
        BY <3>1, <4>4 DEF OldRepliesAreNotRead
    <3>2. CASE UNCHANGED answer
      BY <3>2 DEF BufferInv, OldRepliesAreNotRead
    <3> QED
      BY <1>4, <3>1, <3>2 DEF Value
  <2> QED
    BY <2>2, <2>3 DEF BufferInv
<1>5. CASE Change \/ (\E r \in Replies : Receive(r)) \/ UNCHANGED vars
  <2>1. UNCHANGED <<buffer, seen, answer, since, pc>>
    BY <1>5 DEF Change, Receive, vars
  <2> QED
    BY <2>1, BufferRests
<1>6. ASSUME NEW x \in reading, Store(x) PROVE BufferInv'
  <2>1. UNCHANGED <<pc, since, answer>>
    BY <1>6 DEF Store
  <2>2. /\ buffer' \in Seq(Views) /\ seen' \in Nat /\ seen <= seen'
        /\ \A i \in 1..Len(buffer') :
             \/ \E j \in 1..Len(buffer) : buffer'[i] = buffer[j]
             \/ /\ buffer'[i].at = seen /\ seen < seen'
                /\ buffer'[i].got = "before" => pc = "start"
    BY <1>6, StoreIs
  <2>3. ASSUME NEW j \in 1..Len(buffer) PROVE buffer[j].at \in Nat
    <3>1. buffer[j] \in Views
      BY ElementOfSeq DEF TypeOK
    <3> QED
      BY <3>1 DEF Views
  <2>4. PositionsAreGiven'
    <3> SUFFICES ASSUME NEW i \in 1..Len(buffer') PROVE buffer'[i].at < seen'
      BY DEF PositionsAreGiven
    <3>1. ASSUME NEW j \in 1..Len(buffer), buffer'[i] = buffer[j] PROVE buffer'[i].at < seen'
      <4>1. buffer[j].at < seen /\ buffer[j].at \in Nat /\ seen \in Nat
        BY <2>3 DEF BufferInv, PositionsAreGiven, TypeOK
      <4> QED
        BY <2>2, <3>1, <4>1
    <3> QED
      BY <2>2, <3>1
  <2>5. BeforeIsBelow'
    BY <2>1, <2>2 DEF BufferInv, BeforeIsBelow
  <2>6. OldRepliesAreNotRead'
    BY <2>1 DEF BufferInv, OldRepliesAreNotRead
  <2> QED
    BY <2>4, <2>5, <2>6 DEF BufferInv
<1> QED
  BY <1>1, <1>2, <1>3, <1>4, <1>5, <1>6 DEF Next, Step

\* PageOperation.OldRepliesAreNotRead for every instance: what is read after the action
\* is not a reply that lay in the buffer before it.
THEOREM RepliesAreFresh == Spec => []OldRepliesAreNotRead
<1>1. Init => BufferInv
  <2> SUFFICES ASSUME Init PROVE BufferInv
    OBVIOUS
  <2>1. Len(buffer) = 0
    BY EmptySeq DEF Init
  <2> QED
    BY <2>1 DEF Init, BufferInv, PositionsAreGiven, BeforeIsBelow, OldRepliesAreNotRead
<1>2. BufferInv => OldRepliesAreNotRead
  BY DEF BufferInv
<1> QED
  BY <1>1, <1>2, TypeInit, TypeStep, BufferStep, PTL DEF Spec
------------------------------------------------------------------------------
(***************************************************************************)
(* The session of a browser context (BrowserSession), which is built on a  *)
(* lifecycle: for any contexts, tabs, retries and revisions in the store.  *)
(***************************************************************************)
HIDE PageAssumption
USE BrowserAssumption

\* The steps of a call that are taken under the lock of its context, and those after it
\* was given a session.
TabLocked == {"export", "adopt", "resolve", "refresh", "put", "login", "save"}
TabGiven == {"run", "running", "renew"}
TabSteps == TabLocked \cup TabGiven \cup {"ensure", "done", "failed"}

\* Only the site makes sessions: whatever is stored, held or read is one that it made.
TabTypeOK ==
  /\ row \in [rev : Nat, sid : 0..minted]
  /\ cookie \in [Contexts -> 0..minted] /\ applied \in [Contexts -> Nat]
  /\ known \in [Contexts -> Nat]
  /\ busy \in [Contexts -> BOOLEAN] /\ unsure \in [Contexts -> BOOLEAN]
  /\ dropped \in BOOLEAN
  /\ alive \subseteq 1..minted /\ expired \subseteq 1..minted /\ minted \in Nat
  /\ at \in [Calls -> TabSteps]
  /\ rev \in [Calls -> Nat] /\ got \in [Calls -> 0..minted]
  /\ budget \in [Calls -> Nat] /\ carried \in [Calls -> 0..minted]

\* The lock of a context is held by one of its calls at most.
LockInv ==
  \A c \in Calls : at[c] \in TabLocked =>
    /\ busy[Home[c]]
    /\ \A d \in Calls \ {c} : Home[d] = Home[c] => at[d] \notin TabLocked

\* A session is applied to a context that has one, gets one, or is in doubt.
ThereInv ==
  /\ row.rev # 0 => row.sid # 0
  /\ \A k \in Contexts :
       applied[k] # 0 /\ ~unsure[k] =>
         cookie[k] # 0 \/ \E c \in Calls : Home[c] = k /\ at[c] = "put"
  /\ \A c \in Calls :
       /\ at[c] \in {"put", "save"} => got[c] # 0
       /\ at[c] \in {"adopt", "save"} => cookie[Home[c]] # 0

\* A call looks for a session in a context that was given none, and asks the store for
\* one when what it found is no session.
LooksInv ==
  \A c \in Calls :
    /\ at[c] \in {"export", "adopt", "resolve"} => applied[Home[c]] = 0
    /\ at[c] = "resolve" => ~Valid(cookie[Home[c]])

\* While the store drops nothing the revisions of a context go up: a call runs under one
\* that was applied, and what is put or saved is newer than what the others run under.
TabRevisionInv ==
  /\ \A k \in Contexts : applied[k] <= row.rev
  /\ \A c \in Calls :
       /\ at[c] \in TabGiven => 1 <= rev[c] /\ rev[c] <= applied[Home[c]]
       /\ at[c] = "refresh" => 1 <= rev[c] /\ rev[c] = applied[Home[c]]
       /\ at[c] \in {"login", "save"} => rev[c] > applied[Home[c]]
       /\ at[c] = "put" => 1 <= rev[c] /\ rev[c] <= applied[Home[c]]
       /\ at[c] = "put" => \A d \in Calls \ {c} :
            Home[d] = Home[c] /\ at[d] \in TabGiven => rev[d] < applied[Home[c]]

\* A call that runs under the newest revision carries the session of its context, and
\* once that was refused the site accepts it no more.
CarriedInv ==
  \A c \in Calls : ~unsure[Home[c]] /\ rev[c] = applied[Home[c]] =>
    /\ at[c] = "running" => carried[c] = cookie[Home[c]]
    /\ at[c] \in {"renew", "refresh"} => cookie[Home[c]] \notin alive

RenewInv == dropped \/ (TabRevisionInv /\ CarriedInv)

\* Every step keeps the types, one action of TabsNext at a time.
LEMMA TabTypes == TabTypeOK /\ [TabsNext]_tabVars => TabTypeOK'
<1> SUFFICES ASSUME TabTypeOK, [TabsNext]_tabVars PROVE TabTypeOK'
  OBVIOUS
<1> USE DEF BrowserAssumption, TabTypeOK, TabSteps, TabLocked, TabGiven, stored,
        context, site, call,
        Reach, Take, Release, Apply
<1>l. \A m, n \in Nat : Larger(m, n) \in Nat
  BY DEF Larger
<1>1. ASSUME NEW c \in Calls, AlreadyApplied(c) PROVE TabTypeOK'
  BY <1>1 DEF AlreadyApplied
<1>2. ASSUME NEW c \in Calls, Look(c) PROVE TabTypeOK'
  BY <1>2 DEF Look
<1>3. ASSUME NEW c \in Calls, Export(c) PROVE TabTypeOK'
  <2>1. got' \in [Calls -> 0..minted] /\ at' \in [Calls -> TabSteps]
    BY <1>3 DEF Export
  <2> QED
    BY <1>3, <2>1 DEF Export
<1>4. ASSUME NEW c \in Calls, AdoptStored(c) PROVE TabTypeOK'
  BY <1>4 DEF AdoptStored
<1>5. ASSUME NEW c \in Calls, AdoptOwn(c) PROVE TabTypeOK'
  <2>1. CASE Valid(got[c])
    <3>1. /\ known' = [known EXCEPT ![Home[c]] = Larger(@, row.rev) + 1]
          /\ rev' = [rev EXCEPT ![c] = known'[Home[c]]]
          /\ at' = [at EXCEPT ![c] = "save"]
          /\ UNCHANGED <<busy, context, row, dropped, site, got, budget, carried>>
      BY <1>5, <2>1 DEF AdoptOwn
    <3>2. Larger(known[Home[c]], row.rev) + 1 \in Nat
      <4>1. known[Home[c]] \in Nat /\ row.rev \in Nat
        OBVIOUS
      <4>2. Larger(known[Home[c]], row.rev) \in Nat
        BY <4>1, <1>l
      <4> QED
        BY <4>2
    <3>3. known' \in [Contexts -> Nat]
      BY <3>1, <3>2
    <3> QED
      BY <3>1, <3>3
  <2>2. CASE ~Valid(got[c])
    BY <1>5, <2>2 DEF AdoptOwn
  <2> QED
    BY <2>1, <2>2
<1>6. ASSUME NEW c \in Calls, Reuse(c) PROVE TabTypeOK'
  <2>1. known' \in [Contexts -> Nat]
    BY <1>6, <1>l DEF Reuse
  <2> QED
    BY <1>6, <2>1 DEF Reuse
<1>7. ASSUME NEW c \in Calls, Put(c) PROVE TabTypeOK'
  BY <1>7 DEF Put
<1>8. ASSUME NEW c \in Calls, PutFails(c) PROVE TabTypeOK'
  BY <1>8 DEF PutFails
<1>9. ASSUME NEW c \in Calls, SignIn(c) PROVE TabTypeOK'
  <2>1. known' \in [Contexts -> Nat]
    BY <1>9, <1>l DEF SignIn
  <2>2. rev' \in [Calls -> Nat]
    <3>1. (IF row.rev # 0 THEN row.rev ELSE known'[Home[c]]) + 1 \in Nat
      BY <2>1
    <3> QED
      BY <1>9, <3>1 DEF SignIn
  <2> QED
    BY <1>9, <2>1, <2>2 DEF SignIn
<1>10. ASSUME NEW c \in Calls, Backwards(c) PROVE TabTypeOK'
  <2>1. known' \in [Contexts -> Nat]
    BY <1>10, <1>l DEF Backwards
  <2> QED
    BY <1>10, <2>1 DEF Backwards
<1>11. ASSUME NEW c \in Calls, SignedIn(c) PROVE TabTypeOK'
  <2>1. /\ minted' = minted + 1 /\ alive' \in {alive \cup {minted'}, {minted'}}
        /\ cookie' = [cookie EXCEPT ![Home[c]] = minted']
        /\ got' = [got EXCEPT ![c] = minted']
        /\ unsure' = [unsure EXCEPT ![Home[c]] = TRUE] /\ at' = [at EXCEPT ![c] = "save"]
        /\ UNCHANGED <<stored, applied, busy, expired, rev, budget, carried>>
    BY <1>11 DEF SignedIn
  <2>2. /\ minted' \in Nat
        /\ 0..minted \subseteq 0..minted'
        /\ 1..minted \subseteq 1..minted'
        /\ minted' \in 1..minted' /\ minted' \in 0..minted'
    BY <2>1
  <2>3. cookie' \in [Contexts -> 0..minted'] /\ got' \in [Calls -> 0..minted']
    BY <2>1, <2>2
  <2>4. carried' \in [Calls -> 0..minted'] /\ row' \in [rev : Nat, sid : 0..minted']
    BY <2>1, <2>2
  <2>5. alive' \subseteq 1..minted' /\ expired' \subseteq 1..minted'
    BY <2>1, <2>2
  <2>6. at' \in [Calls -> TabSteps] /\ unsure' \in [Contexts -> BOOLEAN]
    BY <2>1
  <2> QED
    BY <2>1, <2>2, <2>3, <2>4, <2>5, <2>6
<1>12. ASSUME NEW c \in Calls, SignInFails(c) PROVE TabTypeOK'
  BY <1>12 DEF SignInFails
<1>13. ASSUME NEW c \in Calls, Save(c) PROVE TabTypeOK'
  <2>1. known' \in [Contexts -> Nat] /\ busy' \in [Contexts -> BOOLEAN]
    BY <1>13, <1>l DEF Save
  <2>2. \/ /\ row' = [rev |-> rev[c], sid |-> got[c]]
           /\ applied' = [applied EXCEPT ![Home[c]] = rev[c]]
           /\ unsure' = [unsure EXCEPT ![Home[c]] = FALSE]
           /\ at' = [at EXCEPT ![c] = "run"]
        \/ UNCHANGED <<row, applied, unsure>> /\ at' = [at EXCEPT ![c] = "failed"]
    BY <1>13 DEF Save
  <2>3. UNCHANGED <<dropped, cookie, site, call>>
    BY <1>13 DEF Save
  <2>4. row' \in [rev : Nat, sid : 0..minted]
    BY <2>2
  <2>5. applied' \in [Contexts -> Nat]
    BY <2>2
  <2>6. unsure' \in [Contexts -> BOOLEAN]
    BY <2>2
  <2>7. at' \in [Calls -> TabSteps]
    BY <2>2
  <2> QED
    BY <2>1, <2>3, <2>4, <2>5, <2>6, <2>7
<1>14. ASSUME NEW c \in Calls, Run(c) PROVE TabTypeOK'
  BY <1>14 DEF Run
<1>15. ASSUME NEW c \in Calls, Done(c) PROVE TabTypeOK'
  BY <1>15 DEF Done
<1>16. ASSUME NEW c \in Calls, Refused(c) PROVE TabTypeOK'
  <2>1. CASE budget[c] = 0
    BY <1>16, <2>1 DEF Refused
  <2>2. CASE budget[c] # 0
    <3>1. budget[c] - 1 \in Nat
      BY <2>2
    <3> QED
      BY <1>16, <2>2, <3>1 DEF Refused
  <2> QED
    BY <2>1, <2>2
<1>17. ASSUME NEW c \in Calls, Renewed(c) PROVE TabTypeOK'
  BY <1>17 DEF Renewed
<1>18. ASSUME NEW c \in Calls, Renew(c) PROVE TabTypeOK'
  BY <1>18 DEF Renew
<1>19. CASE Forget
  BY <1>19 DEF Forget
<1>20. CASE Expire
  BY <1>20 DEF Expire
<1>21. CASE Invalidate
  BY <1>21 DEF Invalidate
<1>22. CASE UNCHANGED tabVars
  BY <1>22 DEF tabVars
<1> QED
  BY <1>1, <1>2, <1>3, <1>4, <1>5, <1>6, <1>7, <1>8, <1>9, <1>10, <1>11, <1>12, <1>13,
     <1>14, <1>15, <1>16, <1>17, <1>18, <1>19, <1>20, <1>21, <1>22 DEF TabsNext, TabStep

\* The first state has the types.
LEMMA TabTypeInit == TabsInit => TabTypeOK
<1> SUFFICES ASSUME TabsInit PROVE TabTypeOK
  OBVIOUS
<1>1. minted = 1 /\ {0, 1} = 0..minted /\ {1} = 1..minted
  BY DEF TabsInit
<1>2. /\ row \in [rev : Nat, sid : 0..minted]
      /\ alive \subseteq 1..minted
      /\ expired \subseteq 1..minted
  BY <1>1 DEF TabsInit
<1>3. /\ cookie \in [Contexts -> 0..minted] /\ applied \in [Contexts -> Nat]
      /\ known \in [Contexts -> Nat]
      /\ busy \in [Contexts -> BOOLEAN] /\ unsure \in [Contexts -> BOOLEAN]
  BY <1>1 DEF TabsInit
<1>4. /\ rev \in [Calls -> Nat] /\ got \in [Calls -> 0..minted]
      /\ budget \in [Calls -> Nat] /\ carried \in [Calls -> 0..minted]
  BY <1>1 DEF TabsInit, BrowserAssumption
<1>5. at \in [Calls -> TabSteps] /\ dropped \in BOOLEAN /\ minted \in Nat
  BY DEF TabsInit, TabSteps
<1> QED
  BY <1>2, <1>3, <1>4, <1>5 DEF TabTypeOK

\* What a step changes in no context, or only in its own and under its lock.
Still(k) == applied'[k] = applied[k] /\ cookie'[k] = cookie[k] /\ unsure'[k] = unsure[k]
Keeps(c) ==
  at'[c] = at[c] /\ rev'[c] = rev[c] /\ got'[c] = got[c] /\ carried'[c] = carried[c]

\* A step of a call is that call's alone.
LEMMA TabAlone ==
  ASSUME TabTypeOK, NEW d \in Calls, TabStep(d)
  PROVE  \A c \in Calls \ {d} : Keeps(c)
<1> USE DEF TabTypeOK, Keeps, Reach, call, Apply
<1>1. CASE AlreadyApplied(d) \/ Look(d) \/ Export(d) \/ AdoptStored(d)
  BY <1>1 DEF AlreadyApplied, Look, Export, AdoptStored
<1>2. CASE AdoptOwn(d)
  BY <1>2 DEF AdoptOwn
<1>3. CASE Reuse(d) \/ Put(d) \/ PutFails(d)
  BY <1>3 DEF Reuse, Put, PutFails
<1>4. CASE SignIn(d)
  BY <1>4 DEF SignIn
<1>5. CASE Backwards(d) \/ SignedIn(d) \/ SignInFails(d)
  BY <1>5 DEF Backwards, SignedIn, SignInFails
<1>6. CASE Save(d)
  BY <1>6 DEF Save
<1>7. CASE Run(d) \/ Done(d) \/ Renewed(d) \/ Renew(d)
  BY <1>7 DEF Run, Done, Renewed, Renew
<1>8. CASE Refused(d)
  BY <1>8 DEF Refused
<1> QED
  BY <1>1, <1>2, <1>3, <1>4, <1>5, <1>6, <1>7, <1>8 DEF TabStep

\* A context is changed by a call of its own that holds its lock, and no other.
LEMMA TabLocks ==
  ASSUME TabTypeOK, NEW d \in Calls, TabStep(d)
  PROVE  \A k \in Contexts : k # Home[d] \/ at[d] \notin TabLocked => Still(k)
<1> USE DEF TabTypeOK, BrowserAssumption, Still, TabLocked, context
<1>1. CASE AlreadyApplied(d) \/ Look(d) \/ Export(d) \/ SignIn(d)
           \/ Backwards(d) \/ SignInFails(d)
  BY <1>1 DEF AlreadyApplied, Look, Export, SignIn, Backwards,
     SignInFails
<1>2. CASE AdoptStored(d) \/ AdoptOwn(d)
  BY <1>2 DEF AdoptStored, AdoptOwn, Apply
<1>3. CASE Reuse(d)
  BY <1>3 DEF Reuse, Apply
<1>4. CASE Put(d) \/ PutFails(d) \/ SignedIn(d)
  BY <1>4 DEF Put, PutFails, SignedIn
<1>5. CASE Save(d)
  BY <1>5 DEF Save
<1>6. CASE Run(d) \/ Done(d) \/ Refused(d) \/ Renewed(d) \/ Renew(d)
  BY <1>6 DEF Run, Done, Refused, Renewed, Renew
<1> QED
  BY <1>1, <1>2, <1>3, <1>4, <1>5, <1>6 DEF TabStep

\* How a step of a call uses the lock of its context.
LEMMA TabMoves ==
  ASSUME TabTypeOK, NEW d \in Calls, TabStep(d)
  PROVE  /\ \A k \in Contexts \ {Home[d]} : busy'[k] = busy[k]
         /\ \/ at[d] \notin TabLocked /\ at'[d] \in TabLocked /\ ~busy[Home[d]] /\ busy'[Home[d]]
            \/ at[d] \in TabLocked /\ at'[d] \in TabLocked /\ busy'[Home[d]] = busy[Home[d]]
            \/ at[d] \in TabLocked /\ at'[d] \notin TabLocked
            \/ at[d] \notin TabLocked /\ at'[d] \notin TabLocked /\ busy'[Home[d]] = busy[Home[d]]
<1> USE DEF TabTypeOK, BrowserAssumption, TabLocked, Reach, Take, Release
<1>1. CASE AlreadyApplied(d) \/ Look(d) \/ Export(d) \/ AdoptStored(d)
  BY <1>1 DEF AlreadyApplied, Look, Export, AdoptStored
<1>2. CASE AdoptOwn(d)
  BY <1>2 DEF AdoptOwn
<1>3. CASE Reuse(d) \/ Put(d) \/ PutFails(d)
  BY <1>3 DEF Reuse, Put, PutFails
<1>4. CASE SignIn(d) \/ Backwards(d) \/ SignedIn(d) \/ SignInFails(d)
  BY <1>4 DEF SignIn, Backwards, SignedIn, SignInFails
<1>5. CASE Save(d)
  BY <1>5 DEF Save
<1>6. CASE Run(d) \/ Done(d) \/ Refused(d)
  BY <1>6 DEF Run, Done, Refused
<1>7. CASE Renewed(d) \/ Renew(d)
  BY <1>7 DEF Renewed, Renew
<1> QED
  BY <1>1, <1>2, <1>3, <1>4, <1>5, <1>6, <1>7 DEF TabStep

\* From outside nothing of a call or of the context it runs in is touched.
LEMMA TabOutside ==
  ASSUME Forget \/ Expire \/ Invalidate \/ UNCHANGED tabVars
  PROVE  /\ UNCHANGED <<cookie, applied, unsure, busy, minted, at, rev, got, budget, carried>>
         /\ alive' \subseteq alive /\ expired \subseteq expired'
         /\ \/ UNCHANGED <<row, dropped>>
            \/ row' = [rev |-> 0, sid |-> 0] /\ dropped'
<1>1. CASE Forget
  BY <1>1 DEF Forget, stored, context, call
<1>2. CASE Expire
  BY <1>2 DEF Expire, stored, context, call
<1>3. CASE Invalidate
  BY <1>3 DEF Invalidate, context, site, call
<1>4. CASE UNCHANGED tabVars
  BY <1>4 DEF tabVars
<1> QED
  BY <1>1, <1>2, <1>3, <1>4

\* The lock keeps the calls of a context apart.
LEMMA TabLockStep ==
  ASSUME TabTypeOK, LockInv, [TabsNext]_tabVars PROVE LockInv'
<1>1. ASSUME NEW d \in Calls, TabStep(d) PROVE LockInv'
  <2>1. \A c \in Calls \ {d} : at'[c] = at[c]
    BY <1>1, TabAlone DEF Keeps
  <2>2. Home[d] \in Contexts /\ \A c \in Calls : Home[c] \in Contexts
    BY DEF BrowserAssumption
  <2> SUFFICES ASSUME NEW c \in Calls, at'[c] \in TabLocked
               PROVE  /\ busy'[Home[c]]
                      /\ \A e \in Calls \ {c} : Home[e] = Home[c] => at'[e] \notin TabLocked
    BY DEF LockInv
  <2>3. CASE Home[c] # Home[d]
    <3>1. c # d /\ at[c] \in TabLocked /\ busy'[Home[c]] = busy[Home[c]]
      BY <1>1, <2>1, <2>2, <2>3, TabMoves
    <3>2. \A e \in Calls : Home[e] = Home[c] => e # d /\ at'[e] = at[e]
      BY <2>1, <2>3
    <3> QED
      BY <3>1, <3>2 DEF LockInv
  <2>4. CASE Home[c] = Home[d]
    <3>1. \/ at[d] \notin TabLocked /\ at'[d] \in TabLocked /\ ~busy[Home[d]] /\ busy'[Home[d]]
          \/ at[d] \in TabLocked /\ at'[d] \in TabLocked /\ busy'[Home[d]] = busy[Home[d]]
          \/ at[d] \in TabLocked /\ at'[d] \notin TabLocked
          \/ at[d] \notin TabLocked /\ at'[d] \notin TabLocked /\ busy'[Home[d]] = busy[Home[d]]
      BY <1>1, TabMoves
    <3> QED
      BY <2>1, <2>4, <3>1 DEF LockInv
  <2> QED
    BY <2>3, <2>4
<1>2. CASE Forget \/ Expire \/ Invalidate \/ UNCHANGED tabVars
  BY <1>2, TabOutside DEF LockInv
<1> QED
  BY <1>1, <1>2 DEF TabsNext

\* A call looks only into a context that was given no session.
LEMMA TabLooksStep ==
  ASSUME TabTypeOK, LockInv, LooksInv,
     [TabsNext]_tabVars PROVE LooksInv'
<1>1. ASSUME NEW d \in Calls, TabStep(d) PROVE LooksInv'
  <2>1. \A c \in Calls \ {d} : Keeps(c)
    BY <1>1, TabAlone
  <2>2. \A c \in Calls : Home[c] \in Contexts
    BY DEF BrowserAssumption
  <2>3. expired' = expired
    BY <1>1 DEF TabStep, AlreadyApplied, Look, Export, AdoptStored,
       AdoptOwn, Reuse, Put,
       PutFails, SignIn, Backwards, SignedIn, SignInFails,
          Save, Run, Done, Refused,
       Renewed, Renew, site
  <2>4. ASSUME NEW c \in Calls \ {d}, at'[c] \in {"export", "adopt", "resolve"}
        PROVE  /\ applied'[Home[c]] = 0
               /\ at'[c] = "resolve" => ~Valid(cookie[Home[c]])' 
    <3>1. at[c] = at'[c] /\ (Home[d] = Home[c] => at[d] \notin TabLocked)
      BY <2>1, <2>4 DEF Keeps, LockInv, TabLocked
    <3>2. Still(Home[c])
      BY <1>1, <2>2, <3>1, TabLocks
    <3> QED
      BY <2>3, <2>4, <3>1, <3>2 DEF LooksInv, Still, Valid
  <2>5. ASSUME at'[d] \in {"export", "adopt", "resolve"}
        PROVE  /\ applied'[Home[d]] = 0
               /\ at'[d] = "resolve" => ~Valid(cookie[Home[d]])'
    <3>1. Look(d) \/ Export(d)
      <4>1. ~(AlreadyApplied(d) \/ AdoptStored(d) \/ AdoptOwn(d))
        BY <2>5 DEF AlreadyApplied, AdoptStored, AdoptOwn, Reach, TabTypeOK
      <4>2. ~(Reuse(d) \/ Put(d) \/ PutFails(d) \/ SignIn(d)
              \/ Backwards(d) \/ SignedIn(d))
        BY <2>5 DEF Reuse, Put, PutFails, SignIn, Backwards,
           SignedIn, Reach, TabTypeOK
      <4>3. ~(SignInFails(d) \/ Save(d) \/ Run(d) \/ Done(d))
        BY <2>5 DEF SignInFails, Save, Run, Done, Reach, TabTypeOK
      <4>4. ~(Refused(d) \/ Renewed(d) \/ Renew(d))
        BY <2>5 DEF Refused, Renewed, Renew, Reach, TabTypeOK
      <4> QED
        BY <1>1, <4>1, <4>2, <4>3, <4>4 DEF TabStep
    <3>2. CASE Look(d)
      BY <3>2 DEF Look, Reach, TabTypeOK, context
    <3>3. CASE Export(d)
      <4>1. /\ got'[d] = cookie[Home[d]] /\ at[d] = "export"
            /\ at'[d] = IF Valid(got'[d]) THEN "adopt" ELSE "resolve"
            /\ UNCHANGED <<cookie, applied>>
        BY <3>3 DEF Export, Reach, TabTypeOK, context
      <4> QED
        BY <2>3, <4>1 DEF LooksInv, Valid
    <3> QED
      BY <3>1, <3>2, <3>3
  <2> QED
    BY <2>4, <2>5 DEF LooksInv
<1>2. CASE Forget \/ Expire \/ Invalidate \/ UNCHANGED tabVars
  BY <1>2, TabOutside DEF LooksInv, Valid
<1> QED
  BY <1>1, <1>2 DEF TabsNext

\* A context that holds a session keeps one, and is out of doubt only with one; a call
\* goes on to run with one, or in doubt.
LEMMA TabThereStep ==
  ASSUME TabTypeOK, LockInv, ThereInv, AppliedIsThere,
     [TabsNext]_tabVars
  PROVE  ThereInv' /\ AppliedIsThere'
<1>h. \A c \in Calls : Home[c] \in Contexts
  BY DEF BrowserAssumption
<1>1. ASSUME NEW d \in Calls, TabStep(d) PROVE ThereInv' /\ AppliedIsThere'
  <2> DEFINE h == Home[d]
  <2>1. \A c \in Calls \ {d} : Keeps(c)
    BY <1>1, TabAlone
  <2>2. \A k \in Contexts : k # h \/ at[d] \notin TabLocked => Still(k)
    BY <1>1, TabLocks
  \* What the step does to the context of the call, and to the call.
  <2>3. /\ cookie[h] # 0 => cookie'[h] # 0
        /\ row'.rev # 0 => row'.sid # 0
        /\ at'[d] \in {"put", "save"} => got'[d] # 0
        /\ at'[d] \in {"adopt", "save"} => cookie'[h] # 0
        /\ at'[d] = "run" => unsure'[h] \/ cookie'[h] # 0
        /\ at[d] \in TabLocked => unsure'[h] \/ cookie'[h] # 0 \/ applied'[h] = 0 \/ at'[d] = "put"
        /\ at[d] \notin TabLocked => at'[d] # "put"
    <3> USE DEF TabTypeOK, Reach, stored, context, site, call,
            TabLocked, Valid
    <3>1. CASE AlreadyApplied(d)
      <4>1. /\ ~busy[h]
            /\ applied[h] # 0
            /\ UNCHANGED <<stored, context>>
            /\ at'[d] = "run"
            /\ at[d] = "ensure"
        BY <3>1 DEF AlreadyApplied
      <4>2. \A c \in Calls : Home[c] = h => at[c] # "put"
        BY <4>1 DEF LockInv
      <4>3. unsure[h] \/ cookie[h] # 0
        BY <1>h, <4>1, <4>2 DEF ThereInv
      <4> QED
        BY <4>1, <4>3 DEF ThereInv
    <3>2. CASE Look(d)
      BY <3>2 DEF Look, ThereInv
    <3>3. CASE Export(d)
      <4>1. /\ got'[d] = cookie[h] /\ at[d] = "export"
            /\ at'[d] = IF Valid(got'[d]) THEN "adopt" ELSE "resolve"
            /\ UNCHANGED <<stored, context>>
        BY <3>3 DEF Export
      <4>2. \A c \in Calls : Home[c] = h => at[c] # "put"
        BY <4>1 DEF LockInv
      <4>3. unsure[h] \/ cookie[h] # 0 \/ applied[h] = 0
        BY <1>h, <4>1, <4>2 DEF ThereInv
      <4> QED
        BY <4>1, <4>3 DEF ThereInv
    <3>4. CASE AdoptStored(d)
      <4>1. /\ UNCHANGED <<stored, cookie>> /\ at[d] = "adopt" /\ at'[d] = "run"
        BY <3>4 DEF AdoptStored
      <4> QED
        BY <4>1 DEF ThereInv
    <3>5. CASE AdoptOwn(d)
      <4>1. /\ UNCHANGED <<row, cookie>> /\ at[d] = "adopt" /\ got' = got
            /\ \/ at'[d] = "save" /\ got[d] # 0
               \/ at'[d] = "failed"
        BY <3>5 DEF AdoptOwn
      <4> QED
        BY <4>1 DEF ThereInv
    <3>6. CASE Reuse(d)
      <4>1. /\ UNCHANGED <<row, cookie>>
            /\ at[d] \in {"resolve", "refresh"}
            /\ at'[d] = "put"
            /\ got'[d] = row.sid /\ row.sid # 0
        BY <3>6 DEF Reuse
      <4> QED
        BY <4>1 DEF ThereInv
    <3>7. CASE Put(d)
      <4>1. /\ row' = row /\ cookie'[h] = got[d] /\ at[d] = "put" /\ at'[d] = "run"
        BY <1>h, <3>7 DEF Put
      <4> QED
        BY <4>1 DEF ThereInv
    <3>8. CASE PutFails(d)
      <4>1. /\ UNCHANGED <<row, cookie>>
            /\ unsure'[h]
            /\ at'[d] = "failed"
            /\ at[d] = "put"
        BY <1>h, <3>8 DEF PutFails
      <4> QED
        BY <4>1 DEF ThereInv
    <3>9. CASE SignIn(d) \/ Backwards(d)
      <4>1. /\ UNCHANGED <<row, context>> /\ at[d] \in {"resolve", "refresh"}
            /\ at'[d] \in {"login", "failed"}
        BY <3>9 DEF SignIn, Backwards
      <4>2. \A c \in Calls : Home[c] = h => at[c] # "put"
        BY <4>1 DEF LockInv
      <4>3. unsure[h] \/ cookie[h] # 0 \/ applied[h] = 0
        BY <1>h, <4>1, <4>2 DEF ThereInv
      <4> QED
        BY <4>1, <4>3 DEF ThereInv
    <3>10. CASE SignedIn(d)
      <4>1. /\ row' = row /\ cookie'[h] = minted + 1 /\ got'[d] = minted + 1
            /\ at[d] = "login" /\ at'[d] = "save"
        BY <1>h, <3>10 DEF SignedIn
      <4> QED
        BY <4>1 DEF ThereInv
    <3>11. CASE SignInFails(d)
      <4>1. /\ UNCHANGED <<row, context>>
            /\ at[d] \in {"login", "save"}
            /\ at'[d] = "failed"
        BY <3>11 DEF SignInFails
      <4>2. \A c \in Calls : Home[c] = h => at[c] # "put"
        BY <4>1 DEF LockInv
      <4>3. unsure[h] \/ cookie[h] # 0 \/ applied[h] = 0
        BY <1>h, <4>1, <4>2 DEF ThereInv
      <4> QED
        BY <4>1, <4>3 DEF ThereInv
    <3>12. CASE Save(d)
      <4>1. /\ cookie' = cookie /\ at[d] = "save" /\ at'[d] \in {"run", "failed"}
            /\ row' \in {row, [rev |-> rev[d], sid |-> got[d]]}
        BY <3>12 DEF Save
      <4> QED
        BY <4>1 DEF ThereInv
    <3>13. CASE Run(d) \/ Done(d) \/ Refused(d)
      <4>1. UNCHANGED <<row, context>> /\ at[d] \in {"run", "running"}
            /\ at'[d] \in {"running", "done", "failed", "renew"}
        BY <3>13 DEF Run, Done, Refused
      <4> QED
        BY <4>1 DEF ThereInv
    <3>14. CASE Renewed(d)
      <4>1. /\ ~busy[h] /\ applied[h] > rev[d] /\ UNCHANGED <<stored, context>>
            /\ at'[d] = "run" /\ at[d] = "renew"
        BY <3>14 DEF Renewed
      <4>2. \A c \in Calls : Home[c] = h => at[c] # "put"
        BY <4>1 DEF LockInv
      <4>3. applied[h] # 0
        BY <1>h, <4>1
      <4>4. unsure[h] \/ cookie[h] # 0
        BY <1>h, <4>2, <4>3 DEF ThereInv
      <4> QED
        BY <4>1, <4>4 DEF ThereInv
    <3>15. CASE Renew(d)
      BY <3>15 DEF Renew, ThereInv
    <3> QED
      BY <1>1, <3>1, <3>2, <3>3, <3>4, <3>5, <3>6, <3>7, <3>8, <3>9, <3>10, <3>11, <3>12,
         <3>13, <3>14, <3>15 DEF TabStep
  <2>4. ASSUME NEW k \in Contexts, applied'[k] # 0, ~unsure'[k]
        PROVE  cookie'[k] # 0 \/ \E c \in Calls : Home[c] = k /\ at'[c] = "put"
    <3>1. CASE k = h /\ at[d] \in TabLocked
      BY <2>3, <2>4, <3>1
    <3>2. CASE k # h \/ at[d] \notin TabLocked
      <4>1. Still(k)
        BY <2>2, <3>2
      <4>2. cookie[k] # 0 \/ \E c \in Calls : Home[c] = k /\ at[c] = "put"
        BY <2>4, <4>1 DEF Still, ThereInv
      <4>3. \A c \in Calls : Home[c] = k /\ at[c] = "put" => at'[c] = "put"
        BY <2>1, <3>2 DEF Keeps, TabLocked
      <4> QED
        BY <4>1, <4>2, <4>3 DEF Still
    <3> QED
      BY <3>1, <3>2
  <2>5. ASSUME NEW c \in Calls \ {d}
        PROVE  /\ at'[c] \in {"put", "save"} => got'[c] # 0
               /\ at'[c] \in {"adopt", "save"} => cookie'[Home[c]] # 0
               /\ at'[c] = "run" /\ ~unsure'[Home[c]] => cookie'[Home[c]] # 0
    <3>1. at'[c] = at[c] /\ got'[c] = got[c]
      BY <2>1 DEF Keeps
    <3>2. cookie[Home[c]] # 0 => cookie'[Home[c]] # 0
      BY <1>h, <2>2, <2>3 DEF Still
    <3>3. at[c] = "run" /\ ~unsure'[Home[c]] => cookie'[Home[c]] # 0
      <4>1. CASE Still(Home[c])
        BY <4>1 DEF AppliedIsThere, Still
      <4>2. CASE Home[c] = h /\ at[d] \in TabLocked
        <5>1. ASSUME unsure[h] # unsure'[h], ~unsure'[h] PROVE cookie'[h] # 0
          <6>1. Put(d) \/ Save(d)
            <7> USE <1>h, <5>1 DEF TabTypeOK, context
            <7>1. ~(AlreadyApplied(d) \/ Look(d) \/ Export(d)
                    \/ AdoptStored(d) \/ AdoptOwn(d))
              BY DEF AlreadyApplied, Look, Export, AdoptStored,
                 AdoptOwn
            <7>2. ~(Reuse(d) \/ PutFails(d) \/ SignIn(d)
                    \/ Backwards(d) \/ SignedIn(d) \/ SignInFails(d))
              BY DEF Reuse, PutFails, SignIn, Backwards, SignedIn,
                 SignInFails
            <7>3. ~(Run(d) \/ Done(d) \/ Refused(d) \/ Renewed(d)
                    \/ Renew(d))
              BY DEF Run, Done, Refused, Renewed, Renew
            <7> QED
              BY <1>1, <7>1, <7>2, <7>3 DEF TabStep
          <6>2. CASE Put(d)
            <7>1. cookie'[h] = got[d] /\ at[d] = "put"
              BY <1>h, <6>2 DEF Put, TabTypeOK
            <7> QED
              BY <7>1 DEF ThereInv
          <6>3. CASE Save(d)
            <7>1. cookie' = cookie /\ at[d] = "save"
              BY <6>3 DEF Save
            <7> QED
              BY <7>1 DEF ThereInv
          <6> QED
            BY <6>1, <6>2, <6>3
        <5> QED
          BY <3>2, <4>2, <5>1 DEF AppliedIsThere
      <4> QED
        BY <1>h, <2>2, <4>1, <4>2
    <3> QED
      BY <3>1, <3>2, <3>3 DEF ThereInv
  <2> QED
    BY <2>3, <2>4, <2>5 DEF ThereInv, AppliedIsThere
<1>2. CASE Forget \/ Expire \/ Invalidate \/ UNCHANGED tabVars
  BY <1>2, TabOutside DEF ThereInv, AppliedIsThere
<1> QED
  BY <1>1, <1>2 DEF TabsNext

\* While nothing is dropped: what a step of a call does to the revisions of its context.
LEMMA TabRevisions ==
  ASSUME TabTypeOK, LockInv, LooksInv, TabRevisionInv,
     NEW d \in Calls, TabStep(d)
  PROVE  /\ \A k \in Contexts : applied'[k] <= row'.rev
         /\ \A c \in Calls \ {d} : Home[c] = Home[d] /\ at[c] \in TabGiven =>
              applied'[Home[d]] = applied[Home[d]] \/ rev[c] < applied'[Home[d]]
         /\ at'[d] \in TabGiven => 1 <= rev'[d] /\ rev'[d] <= applied'[Home[d]]
         /\ at'[d] = "refresh" => 1 <= rev'[d] /\ rev'[d] = applied'[Home[d]]
         /\ at'[d] \in {"login", "save"} => rev'[d] > applied'[Home[d]]
         /\ at'[d] = "put" =>
              /\ 1 <= rev'[d] /\ rev'[d] <= applied'[Home[d]]
              /\ \A c \in Calls \ {d} :
                   Home[c] = Home[d] /\ at[c] \in TabGiven => rev[c] < applied'[Home[d]]
<1> DEFINE h == Home[d]
<1>h. h \in Contexts /\ \A c \in Calls : Home[c] \in Contexts
  BY DEF BrowserAssumption
<1>t. /\ row.rev \in Nat /\ applied \in [Contexts -> Nat] /\ rev \in [Calls -> Nat]
      /\ known \in [Contexts -> Nat] /\ at \in [Calls -> TabSteps]
      /\ applied[h] \in Nat /\ rev[d] \in Nat /\ known[h] \in Nat
  BY <1>h DEF TabTypeOK
<1>r. \A k \in Contexts : applied[k] <= row.rev
  BY DEF TabRevisionInv
<1>g. \A c \in Calls : Home[c] = h /\ at[c] \in TabGiven => 1 <= rev[c] /\ rev[c] <= applied[h]
  BY DEF TabRevisionInv
<1>n. applied[h] = 0 => \A c \in Calls : Home[c] = h => at[c] \notin TabGiven
  BY <1>g, <1>t
<1> USE DEF Reach, stored, context, site, call, TabGiven
<1>1. CASE AlreadyApplied(d)
  <2>1. /\ applied[h] # 0
        /\ rev'[d] = applied[h]
        /\ at'[d] = "run"
        /\ UNCHANGED <<row, applied>>
    BY <1>1, <1>t DEF AlreadyApplied
  <2> QED
    BY <1>t, <1>r, <2>1
<1>2. CASE Look(d) \/ Export(d)
  <2>1. /\ at'[d] \in {"export", "adopt", "resolve"} /\ UNCHANGED <<row, applied>>
    BY <1>2, <1>t DEF Look, Export
  <2> QED
    BY <1>r, <2>1
<1>3. CASE AdoptStored(d)
  <2>1. /\ row.rev # 0 /\ applied' = [applied EXCEPT ![h] = row.rev] /\ rev'[d] = row.rev
        /\ at'[d] = "run" /\ row' = row /\ at[d] = "adopt"
    BY <1>3, <1>t DEF AdoptStored, Apply
  <2>2. applied[h] = 0
    BY <2>1 DEF LooksInv
  <2>3. applied'[h] = row.rev /\ \A k \in Contexts \ {h} : applied'[k] = applied[k]
    BY <1>h, <1>t, <2>1
  <2> QED
    BY <1>n, <1>t, <1>r, <2>1, <2>2, <2>3
<1>4. CASE AdoptOwn(d)
  <2>1. /\ row' = row /\ at[d] = "adopt" /\ UNCHANGED applied
        /\ \/ at'[d] = "save" /\ rev'[d] = known'[h] /\ known'[h] = Larger(known[h], row.rev) + 1
           \/ at'[d] = "failed"
    BY <1>4, <1>h, <1>t DEF AdoptOwn
  <2>2. applied[h] = 0
    BY <2>1 DEF LooksInv
  <2>3. Larger(known[h], row.rev) \in Nat
    BY <1>t DEF Larger
  <2>4. at'[d] = "save" => rev'[d] > applied'[h]
    BY <2>1, <2>2, <2>3
  <2> QED
    BY <1>r, <2>1, <2>4
<1>5. CASE Reuse(d)
  <2>1. /\ row.rev # 0 /\ applied' = [applied EXCEPT ![h] = row.rev] /\ rev'[d] = row.rev
        /\ at'[d] = "put" /\ row' = row
        /\ (at[d] = "resolve" \/ (at[d] = "refresh" /\ row.rev > rev[d]))
    <3>1. /\ row.rev # 0 /\ applied' = [applied EXCEPT ![h] = row.rev]
          /\ rev' = [rev EXCEPT ![d] = row.rev]
          /\ at' = [at EXCEPT ![d] = "put"]
          /\ row' = row
          /\ (at[d] = "resolve" \/ (at[d] = "refresh" /\ row.rev > rev[d]))
      BY <1>5 DEF Reuse, Apply
    <3> QED
      BY <1>t, <3>1
  <2>2. applied'[h] = row.rev /\ \A k \in Contexts \ {h} : applied'[k] = applied[k]
    BY <1>h, <1>t, <2>1
  <2>3. applied[h] = 0 \/ applied[h] < row.rev
    BY <2>1 DEF LooksInv, TabRevisionInv
  <2>4. ASSUME NEW c \in Calls, Home[c] = h, at[c] \in TabGiven PROVE rev[c] < row.rev
    <3>1. rev[c] \in Nat /\ 1 <= rev[c] /\ rev[c] <= applied[h]
      BY <1>g, <1>t, <2>4
    <3> QED
      BY <1>t, <2>3, <3>1
  <2> QED
    BY <1>t, <1>r, <2>1, <2>2, <2>4
<1>6. CASE Put(d)
  <2>1. /\ at[d] = "put" /\ at'[d] = "run" /\ UNCHANGED <<row, applied, rev>>
    BY <1>6, <1>t DEF Put
  <2> QED
    BY <1>r, <2>1 DEF TabRevisionInv
<1>7. CASE PutFails(d) \/ Backwards(d) \/ SignInFails(d)
  <2>1. at'[d] = "failed" /\ UNCHANGED <<row, applied>>
    BY <1>7, <1>t DEF PutFails, Backwards, SignInFails
  <2> QED
    BY <1>r, <2>1
<1>8. CASE SignIn(d)
  <2>1. /\ at'[d] = "login"
        /\ UNCHANGED <<row, applied>>
        /\ at[d] \in {"resolve", "refresh"}
        /\ row.rev = 0 \/ at[d] = "resolve" \/ row.rev >= rev[d]
        /\ rev'[d] = (IF row.rev # 0 THEN row.rev ELSE known'[h]) + 1
        /\ known'[h] = Larger(known[h], row.rev)
    BY <1>8, <1>h, <1>t DEF SignIn
  <2>2. known'[h] \in Nat
    BY <1>t, <2>1 DEF Larger
  <2>3. rev'[d] >= 1 /\ (row.rev # 0 => rev'[d] = row.rev + 1)
    BY <1>t, <2>1, <2>2
  <2>4. CASE at[d] = "resolve"
    <3>1. applied[h] = 0
      BY <2>4 DEF LooksInv
    <3>2. rev'[d] > applied'[h]
      BY <2>1, <2>2, <2>3, <3>1, <1>t
    <3> QED
      BY <1>r, <2>1, <3>2
  <2>5. CASE at[d] = "refresh"
    <3>1. 1 <= rev[d] /\ rev[d] = applied[h]
      BY <2>5 DEF TabRevisionInv
    <3>2. applied[h] <= row.rev
      BY <1>h, <1>r
    <3> QED
      BY <1>t, <1>r, <2>1, <2>3, <3>1, <3>2
  <2> QED
    BY <2>1, <2>4, <2>5
<1>9. CASE SignedIn(d)
  <2>1. /\ at[d] = "login" /\ at'[d] = "save" /\ UNCHANGED <<row, applied, rev>>
    BY <1>9, <1>t DEF SignedIn
  <2> QED
    BY <1>r, <2>1 DEF TabRevisionInv
<1>10. CASE Save(d)
  <2>1. at[d] = "save" /\ rev' = rev
    BY <1>10, <1>t DEF Save
  <2>2. rev[d] > applied[h]
    BY <2>1 DEF TabRevisionInv
  <2>3. CASE at'[d] = "failed" /\ UNCHANGED <<row, applied>>
    BY <1>r, <2>3
  <2>4. CASE
        /\ row.rev \in {0, rev[d] - 1} /\ row' = [rev |-> rev[d], sid |-> got[d]]
        /\ applied' = [applied EXCEPT ![h] = rev[d]] /\ at'[d] = "run"
    <3>1. applied'[h] = rev[d] /\ \A k \in Contexts \ {h} : applied'[k] = applied[k]
      BY <1>h, <1>t, <2>4
    <3>2. row'.rev = rev[d] /\ row.rev <= rev[d]
      BY <1>t, <2>4
    <3>3. ASSUME NEW k \in Contexts PROVE applied'[k] <= row'.rev
      <4>1. applied[k] \in Nat /\ applied[k] <= row.rev
        BY <1>t, <1>r
      <4> QED
        BY <1>t, <3>1, <3>2, <4>1
    <3>4. ASSUME NEW c \in Calls, Home[c] = h, at[c] \in TabGiven PROVE rev[c] < rev[d]
      <4>1. rev[c] \in Nat /\ rev[c] <= applied[h]
        BY <1>t, <1>g, <3>4
      <4> QED
        BY <1>t, <2>2, <4>1
    <3> QED
      BY <1>t, <2>1, <2>2, <2>4, <3>1, <3>3, <3>4
  <2> QED
    BY <1>10, <1>t, <2>3, <2>4 DEF Save
<1>11. CASE Run(d) \/ Done(d) \/ Refused(d)
  <2>1. /\ UNCHANGED <<row, applied, rev>> /\ at[d] \in TabGiven
        /\ at'[d] \in {"running", "done", "failed", "renew"}
    BY <1>11, <1>t DEF Run, Done, Refused
  <2> QED
    BY <1>r, <1>g, <2>1
<1>12. CASE Renewed(d)
  <2>1. /\ applied[h] > rev[d]
        /\ rev'[d] = applied[h]
        /\ at'[d] = "run"
        /\ UNCHANGED <<row, applied>>
    BY <1>12, <1>t DEF Renewed
  <2> QED
    BY <1>t, <1>r, <2>1
<1>13. CASE Renew(d)
  <2>1. /\ applied[h] <= rev[d] /\ at[d] = "renew" /\ at'[d] = "refresh"
        /\ UNCHANGED <<row, applied, rev>>
    BY <1>13, <1>t DEF Renew
  <2>2. 1 <= rev[d] /\ rev[d] <= applied[h]
    BY <1>g, <2>1
  <2> QED
    BY <1>t, <1>r, <2>1, <2>2
<1> QED
  BY <1>1, <1>2, <1>3, <1>4, <1>5, <1>6, <1>7, <1>8, <1>9, <1>10, <1>11, <1>12,
     <1>13 DEF TabStep

\* A call is given a session outside the lock only while nobody holds it.
LEMMA TabEnters ==
  ASSUME TabTypeOK, LockInv, NEW c \in Calls,
     NEW d \in Calls \ {c},
         TabStep(d), Home[d] = Home[c], at[c] \in TabLocked, at'[d] \in TabGiven
  PROVE  at[d] \in TabGiven /\ rev'[d] = rev[d]
<1>1. at[d] \notin TabLocked /\ busy[Home[d]]
  BY DEF LockInv
<1> USE <1>1 DEF TabTypeOK, Reach, TabGiven, TabLocked, Take, call
<1>2. ~(AlreadyApplied(d) \/ Look(d) \/ Export(d) \/ AdoptStored(d)
        \/ AdoptOwn(d))
  BY DEF AlreadyApplied, Look, Export, AdoptStored, AdoptOwn
<1>3. ~(Reuse(d) \/ Put(d) \/ PutFails(d) \/ SignIn(d)
        \/ Backwards(d))
  BY DEF Reuse, Put, PutFails, SignIn, Backwards
<1>4. ~(SignedIn(d) \/ SignInFails(d) \/ Save(d) \/ Renewed(d)
        \/ Renew(d) \/ Done(d))
  BY DEF SignedIn, SignInFails, Save, Renewed, Renew, Done
<1>5. CASE Run(d) \/ Refused(d)
  BY <1>5 DEF Run, Refused
<1> QED
  BY <1>2, <1>3, <1>4, <1>5 DEF TabStep

\* While nothing is dropped, the revisions of a context keep going up.
LEMMA TabRevisionStep ==
  ASSUME TabTypeOK, LockInv, LooksInv, TabRevisionInv,
     NEW d \in Calls, TabStep(d)
  PROVE  TabRevisionInv'
<1>h. \A c \in Calls : Home[c] \in Contexts
  BY DEF BrowserAssumption
<1>t. applied \in [Contexts -> Nat] /\ rev \in [Calls -> Nat]
  BY DEF TabTypeOK
<1>1. \A c \in Calls \ {d} : at'[c] = at[c] /\ rev'[c] = rev[c]
  BY TabAlone DEF Keeps
<1>2. \A k \in Contexts : k # Home[d] \/ at[d] \notin TabLocked => applied'[k] = applied[k]
  BY TabLocks DEF Still
<1>3. /\ \A k \in Contexts : applied'[k] <= row'.rev
      /\ \A c \in Calls \ {d} : Home[c] = Home[d] /\ at[c] \in TabGiven =>
           applied'[Home[d]] = applied[Home[d]] \/ rev[c] < applied'[Home[d]]
      /\ at'[d] \in TabGiven => 1 <= rev'[d] /\ rev'[d] <= applied'[Home[d]]
      /\ at'[d] = "refresh" => 1 <= rev'[d] /\ rev'[d] = applied'[Home[d]]
      /\ at'[d] \in {"login", "save"} => rev'[d] > applied'[Home[d]]
      /\ at'[d] = "put" => 1 <= rev'[d] /\ rev'[d] <= applied'[Home[d]]
      /\ at'[d] = "put" => \A c \in Calls \ {d} :
           Home[c] = Home[d] /\ at[c] \in TabGiven => rev[c] < applied'[Home[d]]
  BY TabRevisions
<1>a. applied' \in [Contexts -> Nat]
  BY TabTypes DEF TabsNext, TabTypeOK
<1>4. ASSUME NEW c \in Calls \ {d}
      PROVE  /\ at'[c] \in TabGiven => 1 <= rev'[c] /\ rev'[c] <= applied'[Home[c]]
             /\ at'[c] = "refresh" => 1 <= rev'[c] /\ rev'[c] = applied'[Home[c]]
             /\ at'[c] \in {"login", "save"} => rev'[c] > applied'[Home[c]]
             /\ at'[c] = "put" => 1 <= rev'[c] /\ rev'[c] <= applied'[Home[c]]
             /\ at'[c] = "put" => \A e \in Calls \ {c} :
                  Home[e] = Home[c] /\ at'[e] \in TabGiven => rev'[e] < applied'[Home[c]]
  <2>1. at'[c] = at[c] /\ rev'[c] = rev[c] /\ Home[c] \in Contexts
    BY <1>h, <1>1
  <2>2. CASE Home[c] # Home[d] \/ at[d] \notin TabLocked
    <3>1. applied'[Home[c]] = applied[Home[c]]
      BY <1>2, <2>1, <2>2
    <3>2. ASSUME at[c] = "put", NEW e \in Calls \ {c}, Home[e] = Home[c],
                 at'[e] \in TabGiven
          PROVE  rev'[e] < applied'[Home[c]]
      <4>1. at[e] \in TabGiven /\ rev'[e] = rev[e]
        <5>1. CASE e = d
          <6>1. at[c] \in TabLocked
            BY <3>2 DEF TabLocked
          <6> QED
            BY <3>2, <5>1, <6>1, TabEnters
        <5>2. CASE e # d
          BY <1>1, <3>2, <5>2
        <5> QED
          BY <5>1, <5>2
      <4> QED
        BY <3>1, <3>2, <4>1 DEF TabRevisionInv
    <3> QED
      BY <2>1, <3>1, <3>2 DEF TabRevisionInv
  <2>3. CASE Home[c] = Home[d] /\ at[d] \in TabLocked
    <3>1. at[c] \notin TabLocked
      BY <2>3 DEF LockInv
    <3>2. at[c] \in TabGiven => 1 <= rev[c] /\ rev[c] <= applied[Home[c]]
      BY DEF TabRevisionInv
    <3>3. at[c] \in TabGiven => rev[c] <= applied'[Home[c]]
      BY <1>3, <1>a, <1>t, <2>1, <2>3, <3>2
    <3> QED
      BY <2>1, <3>1, <3>2, <3>3 DEF TabLocked
  <2> QED
    BY <2>2, <2>3
<1>5. at'[d] = "put" => \A e \in Calls \ {d} :
        Home[e] = Home[d] /\ at'[e] \in TabGiven => rev'[e] < applied'[Home[d]]
  BY <1>1, <1>3
<1> QED
  BY <1>3, <1>4, <1>5 DEF TabRevisionInv

\* While nothing is dropped, what a call was refused with is over in its context, or was
\* replaced there.
LEMMA TabCarriedStep ==
  ASSUME TabTypeOK, LockInv, LooksInv, TabRevisionInv, CarriedInv,
         NEW d \in Calls, TabStep(d)
  PROVE  CarriedInv'
<1>h. \A c \in Calls : Home[c] \in Contexts
  BY DEF BrowserAssumption
<1>t. /\ applied \in [Contexts -> Nat] /\ rev \in [Calls -> Nat]
      /\ cookie \in [Contexts -> 0..minted]
      /\ minted \in Nat
      /\ alive \subseteq 1..minted
      /\ at \in [Calls -> TabSteps] /\ carried \in [Calls -> 0..minted]
  BY DEF TabTypeOK
<1>1. \A c \in Calls \ {d} : Keeps(c)
  BY TabAlone
<1>2. \A k \in Contexts : k # Home[d] \/ at[d] \notin TabLocked => Still(k)
  BY TabLocks
<1>3. \A s \in alive' : s \in alive \/ s = minted + 1
  <2>1. CASE SignedIn(d)
    BY <2>1 DEF SignedIn
  <2>2. CASE ~SignedIn(d)
    BY <2>2 DEF TabStep, AlreadyApplied, Look, Export, AdoptStored,
       AdoptOwn, Reuse, Put,
       PutFails, SignIn, Backwards, SignInFails, Save, Run,
          Done, Refused, Renewed, Renew, site
  <2> QED
    BY <2>1, <2>2
<1>4. ASSUME NEW c \in Calls \ {d}, ~unsure'[Home[c]], rev'[c] = applied'[Home[c]]
      PROVE  /\ at'[c] = "running" => carried'[c] = cookie'[Home[c]]
             /\ at'[c] \in {"renew", "refresh"} => cookie'[Home[c]] \notin alive'
  <2>1. /\ at'[c] = at[c]
        /\ rev'[c] = rev[c]
        /\ carried'[c] = carried[c]
        /\ Home[c] \in Contexts
    BY <1>h, <1>1 DEF Keeps
  <2>2. CASE Still(Home[c])
    <3>1. cookie[Home[c]] # minted + 1
      BY <1>t, <2>1
    <3> QED
      BY <1>3, <1>4, <2>1, <2>2, <3>1 DEF Still, CarriedInv
  <2>3. CASE ~Still(Home[c])
    <3>1. Home[c] = Home[d] /\ at[d] \in TabLocked
      BY <1>2, <2>1, <2>3
    <3>2. at[c] \notin TabLocked
      BY <3>1 DEF LockInv
    <3>3. ASSUME at[c] \in TabGiven PROVE FALSE
      <4>1. applied'[Home[d]] = applied[Home[d]] \/ rev[c] < applied'[Home[d]]
        BY <3>1, <3>3, TabRevisions
      <4>a. applied'[Home[d]] \in Nat /\ rev[c] \in Nat
        BY <1>h, <1>t, TabTypes DEF TabsNext, TabTypeOK
      <4>2. applied'[Home[d]] = applied[Home[d]] /\ rev[c] = applied[Home[d]] /\ 1 <= rev[c]
        <5>1. rev[c] = applied'[Home[d]]
          BY <1>4, <2>1, <3>1
        <5>2. applied'[Home[d]] = applied[Home[d]]
          BY <4>1, <4>a, <5>1
        <5>3. 1 <= rev[c]
          BY <3>3 DEF TabRevisionInv
        <5> QED
          BY <5>1, <5>2, <5>3
      <4>3. cookie'[Home[d]] # cookie[Home[d]] \/ unsure'[Home[d]] # unsure[Home[d]]
        BY <2>3, <3>1, <4>2 DEF Still
      <4>4. Put(d) \/ SignedIn(d) \/ PutFails(d) \/ Save(d)
        <5> USE <4>3 DEF context
        <5>1. ~(AlreadyApplied(d) \/ Look(d) \/ Export(d)
                \/ AdoptStored(d) \/ AdoptOwn(d))
          BY DEF AlreadyApplied, Look, Export, AdoptStored, AdoptOwn
        <5>2. ~(Reuse(d) \/ SignIn(d) \/ Backwards(d) \/ SignInFails(d))
          BY DEF Reuse, SignIn, Backwards, SignInFails
        <5>3. ~(Run(d) \/ Done(d) \/ Refused(d) \/ Renewed(d)
                \/ Renew(d))
          BY DEF Run, Done, Refused, Renewed, Renew
        <5> QED
          BY <5>1, <5>2, <5>3 DEF TabStep
      <4>5. CASE Put(d)
        <5>1. at[d] = "put"
          BY <4>5 DEF Put
        <5>2. rev[c] < applied[Home[d]]
          BY <3>1, <3>3, <5>1 DEF TabRevisionInv
        <5> QED
          BY <4>2, <4>a, <5>2
      <4>6. CASE SignedIn(d) \/ PutFails(d)
        <5>1. unsure'[Home[d]]
          BY <1>h, <4>6 DEF SignedIn, PutFails, TabTypeOK
        <5> QED
          BY <1>4, <3>1, <5>1
      <4>7. CASE Save(d)
        <5>1. at[d] = "save" /\ cookie' = cookie
          BY <4>7 DEF Save
        <5>2. applied' = [applied EXCEPT ![Home[d]] = rev[d]]
          BY <4>3, <4>7, <5>1 DEF Save
        <5>3. rev[d] > applied[Home[d]]
          BY <5>1 DEF TabRevisionInv
        <5> QED
          BY <1>h, <1>t, <4>2, <5>2, <5>3
      <4> QED
        BY <4>4, <4>5, <4>6, <4>7
    <3> QED
      BY <2>1, <3>2, <3>3 DEF TabGiven, TabLocked
  <2> QED
    BY <2>2, <2>3
<1>5. ASSUME ~unsure'[Home[d]], rev'[d] = applied'[Home[d]]
      PROVE  /\ at'[d] = "running" => carried'[d] = cookie'[Home[d]]
             /\ at'[d] \in {"renew", "refresh"} => cookie'[Home[d]] \notin alive'
  <2> USE <1>t DEF Reach, context, site, call
  <2>1. CASE Run(d)
    BY <2>1 DEF Run
  <2>2. CASE Refused(d)
    <3>1. /\ at[d] = "running"
          /\ carried[d] \notin alive
          /\ UNCHANGED <<context, site, rev>>
          /\ at'[d] # "running"
      BY <2>2 DEF Refused
    <3>2. carried[d] = cookie[Home[d]]
      BY <1>5, <3>1 DEF CarriedInv
    <3> QED
      BY <3>1, <3>2
  <2>3. CASE Renew(d)
    <3>1. /\ at[d] = "renew"
          /\ at'[d] = "refresh"
          /\ UNCHANGED <<context, site, rev>>
      BY <2>3 DEF Renew
    <3> QED
      BY <1>5, <3>1 DEF CarriedInv
  <2>4. CASE ~(Run(d) \/ Refused(d) \/ Renew(d))
    <3>1. at'[d] \notin {"running", "renew", "refresh"}
      <4>1. CASE AlreadyApplied(d) \/ Look(d) \/ Export(d)
                 \/ AdoptStored(d) \/ AdoptOwn(d)
        BY <4>1 DEF AlreadyApplied, Look, Export, AdoptStored,
           AdoptOwn
      <4>2. CASE Reuse(d) \/ Put(d) \/ PutFails(d) \/ SignIn(d)
                 \/ Backwards(d)
        BY <4>2 DEF Reuse, Put, PutFails, SignIn, Backwards
      <4>3. CASE SignedIn(d) \/ SignInFails(d) \/ Save(d) \/ Done(d)
                 \/ Renewed(d)
        BY <4>3 DEF SignedIn, SignInFails, Save, Done, Renewed
      <4> QED
        BY <2>4, <4>1, <4>2, <4>3 DEF TabStep
    <3> QED
      BY <3>1
  <2> QED
    BY <2>1, <2>2, <2>3, <2>4
<1> QED
  BY <1>4, <1>5 DEF CarriedInv

\* The inductive invariant.
TabInv == TabTypeOK /\ LockInv /\ ThereInv /\ AppliedIsThere /\ LooksInv /\ RenewInv

\* Every reachable state satisfies the invariant.
LEMMA TabInvariant == TabsSpec => []TabInv
<1>1. TabsInit => TabInv
  <2> SUFFICES ASSUME TabsInit PROVE TabInv
    OBVIOUS
  <2>1. \A c \in Calls : Home[c] \in Contexts /\ at[c] = "ensure"
    BY DEF BrowserAssumption, TabsInit
  <2>2. /\ row.rev = 0 /\ \A k \in Contexts : applied[k] = 0
    BY DEF TabsInit
  <2> QED
    BY <2>1, <2>2, TabTypeInit DEF TabInv, LockInv, ThereInv, AppliedIsThere, LooksInv,
       RenewInv, TabRevisionInv, CarriedInv, TabLocked, TabGiven
<1>2. TabInv /\ [TabsNext]_tabVars => TabInv'
  <2> SUFFICES ASSUME TabInv, [TabsNext]_tabVars PROVE TabInv'
    OBVIOUS
  <2>1. TabTypeOK' /\ LockInv' /\ LooksInv' /\ ThereInv' /\ AppliedIsThere'
    BY TabTypes, TabLockStep, TabLooksStep, TabThereStep DEF TabInv
  <2>2. RenewInv'
    <3>1. ASSUME NEW d \in Calls, TabStep(d), ~dropped PROVE RenewInv'
      BY <3>1, TabRevisionStep, TabCarriedStep DEF TabInv, RenewInv
    <3>2. ASSUME NEW d \in Calls, TabStep(d), dropped PROVE dropped'
      BY <3>2 DEF TabStep, AlreadyApplied, Look, Export, AdoptStored,
         AdoptOwn, Reuse, Put,
         PutFails, SignIn, Backwards, SignedIn, SignInFails,
            Save, Run, Done, Refused,
         Renewed, Renew, stored
    <3>3. ASSUME Forget \/ Expire \/ Invalidate \/ UNCHANGED tabVars PROVE RenewInv'
      BY <3>3, TabOutside DEF TabInv, RenewInv, TabRevisionInv, CarriedInv
    <3> QED
      BY <3>1, <3>2, <3>3 DEF RenewInv, TabsNext
  <2> QED
    BY <2>1, <2>2 DEF TabInv
<1> QED
  BY <1>1, <1>2, PTL DEF TabsSpec

\* ensure never lets an operation run in a context without a session, whoever else signed
\* in, failed or was cancelled there, and whatever other contexts saved to the store
\* meanwhile; only where putting a session into the context failed half-way is it in doubt.
THEOREM AppliedThere ==
  TabsSpec => []AppliedIsThere
<1>1. TabInv => AppliedIsThere
  BY DEF TabInv
<1> QED
  BY <1>1, TabInvariant, PTL

\* Whatever tabs of a context are refused at once, renew signs in for one of them and the
\* rest take what it left: no sign-in replaces a session the site still accepts, unless
\* the cookie's own time was over, a renewal failed half-way or the store lost a record.
THEOREM SignsInOnce ==
  TabsSpec => SignInReplacesDead
<1>1. ASSUME TabInv, NEW c \in Calls, ~dropped, Replaces(c) PROVE FALSE
  <2>1. /\ at[c] \in {"resolve", "refresh"}
        /\ ~unsure[Home[c]]
        /\ cookie[Home[c]] \in alive \ expired
    BY <1>1 DEF Replaces, SignIn
  <2>2. cookie[Home[c]] # 0
    BY <1>1, <2>1 DEF TabInv, TabTypeOK
  <2>3. CASE at[c] = "resolve"
    BY <1>1, <2>1, <2>2, <2>3 DEF TabInv, LooksInv, Valid
  <2>4. CASE at[c] = "refresh"
    <3>1. TabRevisionInv /\ CarriedInv
      BY <1>1 DEF TabInv, RenewInv
    <3> QED
      BY <2>1, <2>4, <3>1 DEF TabRevisionInv, CarriedInv
  <2> QED
    BY <2>1, <2>3, <2>4
<1>2. TabInv => [\A c \in Calls : ~dropped => ~Replaces(c)]_tabVars
  BY <1>1
<1> QED
  BY <1>2, TabInvariant, PTL DEF SignInReplacesDead
============================================================================
