------------------------ MODULE SessionLifecycleProofs ------------------------
(***************************************************************************)
(* Proofs about SessionLifecycle, for any calls, lifecycles, credentials   *)
(* and failures.  All but the first need the compare-and-swap of the SQL   *)
(* store (Cas): the memory store forgets the revision it is invalidated    *)
(* at, so a revision may come back with another session.                   *)
(***************************************************************************)
EXTENDS SessionLifecycle, TLAPS

USE SessionAssumption, NoOneAssumption

\* Every step keeps the types, one action of Next at a time.
LEMMA TypeStep == TypeOK /\ [Next]_vars => TypeOK'
<1> SUFFICES ASSUME TypeOK, [Next]_vars PROVE TypeOK'
  OBVIOUS
<1> USE DEF TypeOK, Steps, server, exchange
<1>1. ASSUME NEW c \in Calls, ReuseStored(c) PROVE TypeOK'
  BY <1>1 DEF ReuseStored, Load, Row, Goto, Larger
<1>2. ASSUME NEW c \in Calls, RefreshStored(c) PROVE TypeOK'
  BY <1>2 DEF RefreshStored, BeginRefresh, Load, Row, Goto, Larger
<1>3. ASSUME NEW c \in Calls, SaveInitial(c) PROVE TypeOK'
  BY <1>3 DEF SaveInitial, LoadAndSave, SaveAfter, InitialToken, Goto, Larger
<1>4. ASSUME NEW c \in Calls, BeginAcquire(c) PROVE TypeOK'
  BY <1>4 DEF BeginAcquire, Load, Goto, Larger
<1>5. ASSUME NEW c \in Calls, RequireCredentials(c) PROVE TypeOK'
  BY <1>5 DEF RequireCredentials, Load, End, Goto, Larger
<1>6. ASSUME NEW c \in Calls, BeginAdopt(c) PROVE TypeOK'
  BY <1>6 DEF BeginAdopt, LoadAndSave, SaveAfter, Goto, Larger
<1>7. ASSUME NEW c \in Calls, AdoptRefused(c) PROVE TypeOK'
  BY <1>7 DEF AdoptRefused, End, Goto
<1>8. ASSUME NEW c \in Calls, Acquired(c) PROVE TypeOK'
  BY <1>8 DEF Acquired, SaveAfter, Goto, Larger
<1>9. ASSUME NEW c \in Calls, Refreshed(c) PROVE TypeOK'
  BY <1>9 DEF Refreshed, SaveAfter, Goto, Larger
<1>10. ASSUME NEW c \in Calls, ServiceRaises(c) PROVE TypeOK'
  BY <1>10 DEF ServiceRaises, Release, End, Goto
<1>11. ASSUME NEW c \in Calls, Saved(c) PROVE TypeOK'
  <2>1. store' \in [rev : Nat, token : Nat, active : BOOLEAN]
    BY <1>11 DEF Saved
  <2>2. lock' \in [Lifecycles -> Calls \cup {NoOne}]
    BY <1>11 DEF Saved, Release
  <2>3. UNCHANGED <<known, minted, expired, revoked, mode, fresh, target, seen, budget>>
    BY <1>11 DEF Saved
  <2>4. held' \in [Calls -> [rev : Nat, token : Nat]]
    <3>1. [rev |-> target[c], token |-> fresh[c]] \in [rev : Nat, token : Nat]
      OBVIOUS
    <3>2. \/ held' = [held EXCEPT ![c] = [rev |-> target[c], token |-> fresh[c]]]
          \/ held' = held
      BY <1>11 DEF Saved
    <3> QED
      BY <3>1, <3>2
  <2>5. \/ Goto(c, "send") /\ UNCHANGED verdict
        \/ Goto(c, "resolve") /\ UNCHANGED verdict
        \/ End(c, "ok")
    BY <1>11 DEF Saved
  <2>6. (pc' \in [Calls -> Steps] /\ UNCHANGED verdict) \/ End(c, "ok")
    BY <2>5 DEF Goto
  <2> QED
    BY <2>1, <2>2, <2>3, <2>4, <2>6 DEF End, Goto
<1>12. ASSUME NEW c \in Calls, SaveRefused(c) PROVE TypeOK'
  BY <1>12 DEF SaveRefused, Release, End, Goto
<1>13. ASSUME NEW c \in Calls, SaveRaises(c) PROVE TypeOK'
  BY <1>13 DEF SaveRaises, Release, End, Goto
<1>14. ASSUME NEW c \in Calls, Answered(c) PROVE TypeOK'
  BY <1>14 DEF Answered, End, Goto
<1>15. ASSUME NEW c \in Calls, Rejected(c) PROVE TypeOK'
  <2>1. CASE budget[c] > 0 /\ HasRefresh /\ c \in Idempotent
    <3>1. budget[c] - 1 \in Nat
      BY <2>1
    <3>2. budget' = [budget EXCEPT ![c] = budget[c] - 1] /\ Goto(c, "renew")
      BY <1>15, <2>1 DEF Rejected
    <3>3. UNCHANGED <<store, known, lock, server, mode, held, exchange, seen, verdict>>
      BY <1>15, <2>1 DEF Rejected
    <3> QED
      BY <3>1, <3>2, <3>3 DEF Goto
  <2>2. CASE ~(budget[c] > 0 /\ HasRefresh /\ c \in Idempotent)
    BY <1>15, <2>2 DEF Rejected, End, Goto
  <2> QED
    BY <2>1, <2>2
<1>16. ASSUME NEW c \in Calls, RenewEnds(c) PROVE TypeOK'
  BY <1>16 DEF RenewEnds, Load, End, Goto, Larger
<1>17. ASSUME NEW c \in Calls, RenewReuses(c) PROVE TypeOK'
  BY <1>17 DEF RenewReuses, Load, Goto, Larger
<1>18. ASSUME NEW c \in Calls, Renew(c) PROVE TypeOK'
  BY <1>18 DEF Renew, BeginRefresh, Load, Row, Goto, Larger
<1>19. ASSUME NEW c \in Calls, Cancel(c) PROVE TypeOK'
  BY <1>19 DEF Cancel, MyLock, End, Goto
<1>20. ASSUME NEW l \in Lifecycles, Restart(l) PROVE TypeOK'
  BY <1>20 DEF Restart
<1>21. ASSUME NEW t \in 1..minted, Expire(t) \/ Revoke(t) PROVE TypeOK'
  <2>1. t \in Nat
    BY <1>21
  <2>2. CASE Expire(t)
    BY <2>1, <2>2 DEF Expire
  <2>3. CASE Revoke(t)
    BY <2>1, <2>3 DEF Revoke
  <2> QED
    BY <1>21, <2>2, <2>3
<1>22. CASE Invalidate
  <2>1. store' \in [rev : Nat, token : Nat, active : BOOLEAN]
    <3>1. CASE Cas
      <4>1. store' = [rev |-> store.rev + 1, token |-> store.token, active |-> FALSE]
        BY <1>22, <3>1 DEF Invalidate
      <4> QED
        BY <4>1
    <3>2. CASE ~Cas
      BY <1>22, <3>2 DEF Invalidate
    <3> QED
      BY <3>1, <3>2
  <2> QED
    BY <1>22, <2>1 DEF Invalidate
<1>23. CASE UNCHANGED vars
  BY <1>23 DEF vars
<1> QED
  BY <1>1, <1>2, <1>3, <1>4, <1>5, <1>6, <1>7, <1>8, <1>9, <1>10, <1>11, <1>12, <1>13,
     <1>14, <1>15, <1>16, <1>17, <1>18, <1>19, <1>20, <1>21, <1>22, <1>23
  DEF Next, Step, Locked

\* The initial states have them.
LEMMA TypeInit == Init => TypeOK
BY DEF Init, TypeOK, Steps, InitialToken

\* Type correctness (TypeOK): in every reachable state of any instance, and no
\* call refreshes more often than auth_retries allows.
THEOREM TypeCorrect == Spec => []TypeOK
BY TypeInit, TypeStep, PTL DEF Spec
------------------------------------------------------------------------------
(***************************************************************************)
(* The inductive invariant.  The row only moves on to revisions that no    *)
(* call holds yet; a call that renews a session still holds the one it     *)
(* exchanges, and it holds that one because the server rejected it.        *)
(***************************************************************************)
Busy == {"acquiring", "refreshing", "saving"}

RowIsAhead ==
  /\ \A c \in Calls : held[c].rev <= store.rev
  /\ \A c \in Calls : pc[c] = "saving" => target[c] > 0

Renewing(c) == pc[c] \in {"refreshing", "saving"} /\ mode[c] = "renew"

RenewalSource ==
  \A c \in Calls :
    /\ pc[c] = "acquiring" => mode[c] # "renew"
    /\ Renewing(c) /\ held[c].rev = store.rev => store.active
    /\ Renewing(c) /\ pc[c] = "saving" => target[c] = held[c].rev + 1

RejectedIsRevoked == \A c \in Calls : pc[c] = "renew" => held[c].token \in revoked

RevisionInv == RowIsAhead /\ RevisionNamesSession /\ RenewalSource

\* What an action of one call leaves alone.
Quiet(c) ==
  /\ UNCHANGED store
  /\ UNCHANGED held
  /\ \A d \in Calls \ {c} : pc'[d] = pc[d] /\ mode'[d] = mode[d] /\ target'[d] = target[d]

\* A step that leaves the row and the sessions in use alone and does not start
\* an exchange or a save keeps the invariant.
LEMMA QuietStep ==
  ASSUME NEW c \in Calls, TypeOK, RevisionInv, Quiet(c),
         \/ pc'[c] \notin Busy
         \/ pc'[c] = "acquiring" /\ mode'[c] # "renew"
         \/ pc'[c] = "saving" /\ target'[c] > 0 /\ mode'[c] # "renew"
         \/ /\ pc[c] = "refreshing" /\ pc'[c] = "saving" /\ mode'[c] = mode[c]
            /\ target'[c] = held[c].rev + 1
  PROVE  RevisionInv'
<1> USE DEF TypeOK, Quiet
<1>1. RowIsAhead'
  BY DEF RevisionInv, RowIsAhead, Busy
<1>2. RevisionNamesSession'
  BY DEF RevisionInv, RevisionNamesSession
<1>3. RenewalSource'
  BY DEF RevisionInv, RenewalSource, Renewing, Busy
<1> QED
  BY <1>1, <1>2, <1>3 DEF RevisionInv

\* A call takes up the active row.
LEMMA TakeStep ==
  ASSUME NEW c \in Calls, TypeOK, RevisionInv, store.active, UNCHANGED store,
         held' = [held EXCEPT ![c] = Row],
         pc'[c] \in {"send", "refreshing"},
         \A d \in Calls \ {c} :
           pc'[d] = pc[d] /\ mode'[d] = mode[d] /\ target'[d] = target[d]
  PROVE  RevisionInv'
<1> USE DEF TypeOK, Row
<1>1. RowIsAhead'
  BY DEF RevisionInv, RowIsAhead
<1>2. RevisionNamesSession'
  BY DEF RevisionInv, RevisionNamesSession
<1>3. RenewalSource'
  BY DEF RevisionInv, RenewalSource, Renewing
<1> QED
  BY <1>1, <1>2, <1>3 DEF RevisionInv

\* A save that the compare-and-swap lets through gives the row a revision that
\* no call holds.
LEMMA SavedStep ==
  ASSUME NEW c \in Calls, Cas, TypeOK, RevisionInv, Saved(c)
  PROVE  RevisionInv'
<1> USE DEF TypeOK
<1>1. target[c] > store.rev
  BY DEF Saved, Accepts, RevisionInv, RowIsAhead
<1>2. store' = [rev |-> target[c], token |-> fresh[c], active |-> TRUE]
  BY DEF Saved
<1>3. \A d \in Calls :
        \/ held'[d] = held[d]
        \/ d = c /\ held'[d] = [rev |-> target[c], token |-> fresh[c]]
  <2>1. \/ held' = [held EXCEPT ![c] = [rev |-> target[c], token |-> fresh[c]]]
        \/ held' = held
    BY DEF Saved
  <2> QED
    BY <2>1
<1>4. /\ pc'[c] \in {"send", "resolve", "done"}
      /\ \A d \in Calls \ {c} : pc'[d] = pc[d]
      /\ UNCHANGED <<mode, target>>
  BY DEF Saved, Goto, End, exchange
<1>5. \A d \in Calls : held[d].rev < target[c]
  BY <1>1 DEF RevisionInv, RowIsAhead
<1>6. RowIsAhead'
  BY <1>2, <1>3, <1>4, <1>5 DEF RevisionInv, RowIsAhead
<1>7. RevisionNamesSession'
  <2>1. store'.rev = target[c] /\ store'.token = fresh[c]
    BY <1>2
  <2>2. \A d \in Calls :
          \/ held'[d].rev = held[d].rev /\ held'[d].token = held[d].token
             /\ held'[d].rev < target[c]
          \/ held'[d].rev = target[c] /\ held'[d].token = fresh[c]
    BY <1>3, <1>5
  <2>3. \A d \in Calls : held'[d].rev \in Nat /\ held[d].rev \in Nat
    BY <2>2
  <2>4. target[c] \in Nat
    OBVIOUS
  <2>5. ASSUME NEW d \in Calls, NEW e \in Calls, held'[d].rev = held'[e].rev
        PROVE  held'[d].token = held'[e].token
    BY <2>2, <2>3, <2>4, <2>5 DEF RevisionInv, RevisionNamesSession
  <2>6. ASSUME NEW d \in Calls, held'[d].rev = store'.rev
        PROVE  held'[d].token = store'.token
    BY <2>1, <2>2, <2>3, <2>4, <2>6
  <2> QED
    BY <2>5, <2>6 DEF RevisionNamesSession
<1>8. RenewalSource'
  BY <1>2, <1>3, <1>4 DEF RevisionInv, RenewalSource, Renewing
<1> QED
  BY <1>6, <1>7, <1>8 DEF RevisionInv

\* Over the SQL store every step keeps what the row, the calls and the mints know of revisions.
LEMMA RevisionStep ==
  ASSUME Cas, TypeOK, TypeOK', RevisionInv, [Next]_vars
  PROVE  RevisionInv'
<1> USE DEF TypeOK, exchange
<1>1. ASSUME NEW c \in Calls, ReuseStored(c) PROVE RevisionInv'
  BY <1>1, TakeStep DEF ReuseStored, Load, Goto
<1>2. ASSUME NEW c \in Calls, RefreshStored(c) PROVE RevisionInv'
  BY <1>2, TakeStep DEF RefreshStored, Load, BeginRefresh, Goto
<1>3. ASSUME NEW c \in Calls, SaveInitial(c) PROVE RevisionInv'
  <2>1. target'[c] > 0 /\ pc'[c] = "saving" /\ mode'[c] = "resolve"
    BY <1>3 DEF SaveInitial, LoadAndSave, SaveAfter, Goto, Larger
  <2>2. Quiet(c)
    BY <1>3 DEF SaveInitial, LoadAndSave, SaveAfter, Goto, Quiet
  <2> QED
    BY <2>1, <2>2, QuietStep
<1>4. ASSUME NEW c \in Calls, BeginAcquire(c) PROVE RevisionInv'
  BY <1>4, QuietStep DEF BeginAcquire, Load, Goto, Quiet
<1>5. ASSUME NEW c \in Calls, RequireCredentials(c) PROVE RevisionInv'
  BY <1>5, QuietStep DEF RequireCredentials, Load, End, Goto, Quiet, Busy
<1>6. ASSUME NEW c \in Calls, BeginAdopt(c) PROVE RevisionInv'
  <2>1. target'[c] > 0 /\ pc'[c] = "saving" /\ mode'[c] = "adopt"
    BY <1>6 DEF BeginAdopt, LoadAndSave, SaveAfter, Goto, Larger
  <2>2. Quiet(c)
    BY <1>6 DEF BeginAdopt, LoadAndSave, SaveAfter, Goto, Quiet
  <2> QED
    BY <2>1, <2>2, QuietStep
<1>7. ASSUME NEW c \in Calls, AdoptRefused(c) PROVE RevisionInv'
  BY <1>7, QuietStep DEF AdoptRefused, End, Goto, Quiet, Busy
<1>8. ASSUME NEW c \in Calls, Acquired(c) PROVE RevisionInv'
  <2>1. target'[c] > 0 /\ pc'[c] = "saving"
    BY <1>8 DEF Acquired, SaveAfter, Goto
  <2>2. mode'[c] # "renew"
    BY <1>8 DEF Acquired, RevisionInv, RenewalSource
  <2>3. Quiet(c)
    BY <1>8 DEF Acquired, SaveAfter, Goto, Quiet
  <2> QED
    BY <2>1, <2>2, <2>3, QuietStep
<1>9. ASSUME NEW c \in Calls, Refreshed(c) PROVE RevisionInv'
  <2>1. /\ pc[c] = "refreshing" /\ pc'[c] = "saving" /\ mode'[c] = mode[c]
        /\ target'[c] = held[c].rev + 1
    BY <1>9 DEF Refreshed, SaveAfter, Goto
  <2>2. Quiet(c)
    BY <1>9 DEF Refreshed, SaveAfter, Goto, Quiet
  <2> QED
    BY <2>1, <2>2, QuietStep
<1>10. ASSUME NEW c \in Calls, ServiceRaises(c) PROVE RevisionInv'
  BY <1>10, QuietStep DEF ServiceRaises, End, Goto, Quiet, Busy
<1>11. ASSUME NEW c \in Calls, Saved(c) PROVE RevisionInv'
  BY <1>11, SavedStep
<1>12. ASSUME NEW c \in Calls, SaveRefused(c) PROVE RevisionInv'
  BY <1>12, QuietStep DEF SaveRefused, End, Goto, Quiet, Busy
<1>13. ASSUME NEW c \in Calls, SaveRaises(c) PROVE RevisionInv'
  BY <1>13, QuietStep DEF SaveRaises, End, Goto, Quiet, Busy
<1>14. ASSUME NEW c \in Calls, Answered(c) PROVE RevisionInv'
  BY <1>14, QuietStep DEF Answered, End, Goto, Quiet, Busy
<1>15. ASSUME NEW c \in Calls, Rejected(c) PROVE RevisionInv'
  <2>1. pc'[c] \notin Busy
    BY <1>15 DEF Rejected, End, Goto, Busy
  <2>2. Quiet(c)
    BY <1>15 DEF Rejected, End, Goto, Quiet
  <2> QED
    BY <2>1, <2>2, QuietStep
<1>16. ASSUME NEW c \in Calls, RenewEnds(c) PROVE RevisionInv'
  BY <1>16, QuietStep DEF RenewEnds, Load, End, Goto, Quiet, Busy
<1>17. ASSUME NEW c \in Calls, RenewReuses(c) PROVE RevisionInv'
  BY <1>17, QuietStep DEF RenewReuses, Load, Goto, Quiet, Busy
<1>18. ASSUME NEW c \in Calls, Renew(c) PROVE RevisionInv'
  BY <1>18, TakeStep DEF Renew, Load, BeginRefresh, Goto
<1>19. ASSUME NEW c \in Calls, Cancel(c) PROVE RevisionInv'
  BY <1>19, QuietStep DEF Cancel, End, Goto, Quiet, Busy
<1>20. ASSUME NEW l \in Lifecycles, Restart(l) PROVE RevisionInv'
  <2>1. \A d \in Calls : pc'[d] \in {pc[d], "done"}
    BY <1>20 DEF Restart
  <2>2. UNCHANGED <<store, held, mode, target>>
    BY <1>20 DEF Restart
  <2> QED
    BY <2>1, <2>2
    DEF RevisionInv, RowIsAhead, RevisionNamesSession, RenewalSource, Renewing
<1>21. ASSUME NEW t \in 1..minted, Expire(t) \/ Revoke(t) PROVE RevisionInv'
  BY <1>21 DEF Expire, Revoke, RevisionInv, RowIsAhead, RevisionNamesSession,
               RenewalSource, Renewing
<1>22. CASE Invalidate
  <2>1. store'.rev = store.rev + 1
    BY <1>22 DEF Invalidate
  <2>2. UNCHANGED <<held, pc, mode, target>>
    BY <1>22 DEF Invalidate
  <2>3. RowIsAhead'
    BY <2>1, <2>2 DEF RevisionInv, RowIsAhead
  <2>4. RevisionNamesSession'
    BY <2>1, <2>2 DEF RevisionInv, RowIsAhead, RevisionNamesSession
  <2>5. RenewalSource'
    BY <2>1, <2>2 DEF RevisionInv, RowIsAhead, RenewalSource, Renewing
  <2> QED
    BY <2>3, <2>4, <2>5 DEF RevisionInv
<1>23. CASE UNCHANGED vars
  BY <1>23 DEF vars, RevisionInv, RowIsAhead, RevisionNamesSession, RenewalSource, Renewing
<1> QED
  BY <1>1, <1>2, <1>3, <1>4, <1>5, <1>6, <1>7, <1>8, <1>9, <1>10, <1>11, <1>12, <1>13,
     <1>14, <1>15, <1>16, <1>17, <1>18, <1>19, <1>20, <1>21, <1>22, <1>23
  DEF Next, Step, Locked

\* So it holds in every reachable state.
LEMMA RevisionInvariant == ASSUME Cas PROVE Spec => []RevisionInv
<1>1. Init => RevisionInv
  BY DEF Init, RevisionInv, RowIsAhead, RevisionNamesSession, RenewalSource, Renewing
<1>2. TypeOK /\ TypeOK' /\ RevisionInv /\ [Next]_vars => RevisionInv'
  BY RevisionStep
<1> QED
  BY <1>1, <1>2, TypeCorrect, PTL DEF Spec

\* Over a compare-and-swap store a revision names one session (the property
\* RevisionNamesSession), in every process and after any crash, invalidation or
\* failed save: refresh_revision may go by the revision alone.
THEOREM RevisionsNameSessions == ASSUME Cas PROVE Spec => []RevisionNamesSession
<1>1. RevisionInv => RevisionNamesSession
  BY DEF RevisionInv
<1> QED
  BY <1>1, RevisionInvariant, PTL

\* Over a compare-and-swap store a refreshed session replaces the session it was
\* exchanged for and nothing else (RefreshReplacesItsSource).
THEOREM RefreshesReplaceTheirSource == ASSUME Cas PROVE Spec => RefreshReplacesItsSource
<1> DEFINE Replaces(c) ==
      pc[c] = "saving" /\ mode[c] = "renew" /\ pc'[c] = "resolve" =>
        store = [rev |-> held[c].rev, token |-> held[c].token, active |-> TRUE]
<1>1. ASSUME TypeOK, RevisionInv, Next, NEW c \in Calls,
             pc[c] = "saving", mode[c] = "renew", pc'[c] = "resolve"
      PROVE  store = [rev |-> held[c].rev, token |-> held[c].token, active |-> TRUE]
  <2> USE DEF TypeOK
  <2>1. Saved(c)
    <3>1. ASSUME NEW d \in Calls, Locked(d) PROVE pc'[c] = pc[c]
      BY <3>1, <1>1 DEF Locked, ReuseStored, RefreshStored, SaveInitial, BeginAcquire,
           RequireCredentials, BeginAdopt, AdoptRefused, RenewEnds, RenewReuses, Renew,
           Load, LoadAndSave, SaveAfter, BeginRefresh, End, Goto
    <3>2. ASSUME NEW d \in Calls, Step(d), ~Locked(d), ~Saved(d)
          PROVE  pc'[c] \in {pc[c], "done"}
      <4>1. CASE Acquired(d) \/ Refreshed(d)
        BY <1>1, <4>1 DEF Acquired, Refreshed, SaveAfter, Goto
      <4>2. CASE ServiceRaises(d) \/ SaveRefused(d) \/ SaveRaises(d) \/ Answered(d)
        BY <1>1, <4>2 DEF ServiceRaises, SaveRefused, SaveRaises, Answered, End, Goto
      <4>3. CASE Rejected(d)
        BY <1>1, <4>3 DEF Rejected, End, Goto
      <4> QED
        BY <3>2, <4>1, <4>2, <4>3 DEF Step
    <3>3. ASSUME NEW d \in Calls, Saved(d), d # c PROVE pc'[c] = pc[c]
      BY <1>1, <3>3 DEF Saved, End, Goto
    <3>4. ASSUME NEW d \in Calls, Cancel(d) PROVE pc'[c] \in {pc[c], "done"}
      BY <1>1, <3>4 DEF Cancel, End, Goto
    <3>5. ASSUME NEW l \in Lifecycles, Restart(l) PROVE pc'[c] \in {pc[c], "done"}
      BY <1>1, <3>5 DEF Restart
    <3>6. ASSUME NEW t \in 1..minted, Expire(t) \/ Revoke(t) PROVE pc'[c] = pc[c]
      BY <3>6 DEF Expire, Revoke
    <3>7. Invalidate => pc'[c] = pc[c]
      BY DEF Invalidate
    <3> QED
      BY <1>1, <3>1, <3>2, <3>3, <3>4, <3>5, <3>6, <3>7 DEF Next
  <2>2. target[c] = held[c].rev + 1 /\ held[c].rev <= store.rev
    BY <1>1 DEF RevisionInv, RowIsAhead, RenewalSource, Renewing
  <2>3. store.rev = held[c].rev
    <3>1. store.rev = 0 \/ store.rev = target[c] - 1
      BY <2>1 DEF Saved, Accepts
    <3>2. held[c].rev \in Nat /\ store.rev \in Nat
      BY <1>1
    <3> QED
      BY <2>2, <3>1, <3>2
  <2>4. store.active /\ store.token = held[c].token
    BY <1>1, <2>3 DEF RevisionInv, RenewalSource, Renewing, RevisionNamesSession
  <2>5. store \in [rev : Nat, token : Nat, active : BOOLEAN]
    BY <1>1
  <2> QED
    BY <2>3, <2>4, <2>5
<1>2. TypeOK /\ RevisionInv /\ [Next]_vars => [\A c \in Calls : Replaces(c)]_vars
  BY <1>1
<1> QED
  BY <1>2, TypeCorrect, RevisionInvariant, PTL DEF Spec, RefreshReplacesItsSource

NeedInv == RejectedIsRevoked /\ NoNeedlessRefresh

\* What the actions of one call that do not ask for a refresh do.
LEMMA NeedStep ==
  ASSUME NEW c \in Calls, TypeOK, NeedInv,
         expired \subseteq expired', revoked \subseteq revoked',
         \A d \in Calls \ {c} : pc'[d] = pc[d] /\ held'[d] = held[d],
         pc'[c] \notin {"renew", "refreshing"}
  PROVE  NeedInv'
BY DEF NeedInv, RejectedIsRevoked, NoNeedlessRefresh

\* Over the SQL store, what calls were rejected with is known to be lost in every
\* reachable state.
LEMMA NeedInvariant == ASSUME Cas PROVE Spec => []NeedInv
<1>1. Init => NeedInv
  BY DEF Init, NeedInv, RejectedIsRevoked, NoNeedlessRefresh
<1>2. TypeOK /\ RevisionInv /\ NeedInv /\ [Next]_vars => NeedInv'
  <2> SUFFICES ASSUME TypeOK, RevisionInv, NeedInv, [Next]_vars PROVE NeedInv'
    OBVIOUS
  <2> USE DEF TypeOK, server, exchange
  <2>1. ASSUME NEW c \in Calls,
               \/ ReuseStored(c) \/ SaveInitial(c) \/ BeginAcquire(c) \/ RequireCredentials(c)
               \/ BeginAdopt(c) \/ AdoptRefused(c) \/ RenewEnds(c) \/ RenewReuses(c)
        PROVE  NeedInv'
    BY <2>1, NeedStep
    DEF ReuseStored, SaveInitial, BeginAcquire, RequireCredentials, BeginAdopt, AdoptRefused,
        RenewEnds, RenewReuses, Load, LoadAndSave, SaveAfter, End, Goto
  <2>2. ASSUME NEW c \in Calls,
               \/ Acquired(c) \/ Refreshed(c) \/ ServiceRaises(c) \/ SaveRefused(c)
               \/ SaveRaises(c) \/ Answered(c) \/ Cancel(c)
        PROVE  NeedInv'
    BY <2>2, NeedStep
    DEF Acquired, Refreshed, ServiceRaises, SaveRefused, SaveRaises, Answered, Cancel,
        SaveAfter, End, Goto
  <2>3. ASSUME NEW c \in Calls, Saved(c) PROVE NeedInv'
    <3>1. pc'[c] \notin {"renew", "refreshing"} /\ UNCHANGED <<expired, revoked>>
      BY <2>3 DEF Saved, End, Goto
    <3>2. \A d \in Calls \ {c} : pc'[d] = pc[d] /\ held'[d] = held[d]
      BY <2>3 DEF Saved, End, Goto
    <3> QED
      BY <3>1, <3>2, NeedStep
  \* An expired session is refreshed before it is sent ...
  <2>4. ASSUME NEW c \in Calls, RefreshStored(c) PROVE NeedInv'
    <3>1. held' = [held EXCEPT ![c] = Row] /\ store.token \in expired
      BY <2>4 DEF RefreshStored, BeginRefresh, Valid
    <3>2. pc' = [pc EXCEPT ![c] = "refreshing"] /\ UNCHANGED <<expired, revoked>>
      BY <2>4 DEF RefreshStored, BeginRefresh, Goto
    <3> QED
      BY <3>1, <3>2 DEF NeedInv, RejectedIsRevoked, NoNeedlessRefresh, Row
  \* ... a rejected one is what the call holds ...
  <2>5. ASSUME NEW c \in Calls, Rejected(c) PROVE NeedInv'
    <3>1. held[c].token \in revoked /\ UNCHANGED <<held, expired, revoked>>
      BY <2>5 DEF Rejected
    <3>2. pc' \in {[pc EXCEPT ![c] = "renew"], [pc EXCEPT ![c] = "done"]}
      BY <2>5 DEF Rejected, End, Goto
    <3> QED
      BY <3>1, <3>2 DEF NeedInv, RejectedIsRevoked, NoNeedlessRefresh
  \* ... and the row is that session, or an expired one.
  <2>6. ASSUME NEW c \in Calls, Renew(c) PROVE NeedInv'
    <3>1. held[c].token \in revoked
      BY <2>6 DEF Renew, Load, NeedInv, RejectedIsRevoked
    <3>2. store.token \in expired \cup revoked
      BY <2>6, <3>1 DEF Renew, Valid, RevisionInv, RevisionNamesSession
    <3>3. held' = [held EXCEPT ![c] = Row] /\ pc' = [pc EXCEPT ![c] = "refreshing"]
      BY <2>6 DEF Renew, BeginRefresh, Goto
    <3>4. UNCHANGED <<expired, revoked>>
      BY <2>6 DEF Renew, BeginRefresh
    <3> QED
      BY <3>2, <3>3, <3>4 DEF NeedInv, RejectedIsRevoked, NoNeedlessRefresh, Row
  <2>7. ASSUME NEW l \in Lifecycles, Restart(l) PROVE NeedInv'
    <3>1. \A d \in Calls : pc'[d] \in {pc[d], "done"}
      BY <2>7 DEF Restart
    <3>2. UNCHANGED <<held, expired, revoked>>
      BY <2>7 DEF Restart
    <3> QED
      BY <3>1, <3>2 DEF NeedInv, RejectedIsRevoked, NoNeedlessRefresh
  <2>8. ASSUME NEW t \in 1..minted, Expire(t) \/ Revoke(t) PROVE NeedInv'
    BY <2>8 DEF Expire, Revoke, NeedInv, RejectedIsRevoked, NoNeedlessRefresh
  <2>9. CASE Invalidate
    BY <2>9 DEF Invalidate, NeedInv, RejectedIsRevoked, NoNeedlessRefresh
  <2>10. CASE UNCHANGED vars
    BY <2>10 DEF vars, NeedInv, RejectedIsRevoked, NoNeedlessRefresh
  <2> QED
    BY <2>1, <2>2, <2>3, <2>4, <2>5, <2>6, <2>7, <2>8, <2>9, <2>10 DEF Next, Step, Locked
<1> QED
  BY <1>1, <1>2, TypeCorrect, RevisionInvariant, PTL DEF Spec

\* Over a compare-and-swap store refresh() is never spent on a session that is
\* neither expired nor rejected by the server (NoNeedlessRefresh), however many
\* calls are rejected at once and in however many processes.
THEOREM RefreshesAreNeeded == ASSUME Cas PROVE Spec => []NoNeedlessRefresh
<1>1. NeedInv => NoNeedlessRefresh
  BY DEF NeedInv
<1> QED
  BY <1>1, NeedInvariant, PTL
------------------------------------------------------------------------------
\* Whoever talks to the auth service or saves holds its lifecycle's lock.
LockHeld == \A c \in Calls : pc[c] \in Busy => lock[Owner[c]] = c

\* The lock is taken when free, or given back by its holder.
LEMMA LockStep ==
  ASSUME NEW c \in Calls, TypeOK, LockHeld,
         \A d \in Calls \ {c} : pc'[d] = pc[d],
         \/ pc'[c] \notin Busy /\ lock' = lock
         \/ pc[c] \in Busy /\ lock' = lock
         \/ lock[Owner[c]] = NoOne /\ lock' = [lock EXCEPT ![Owner[c]] = c]
         \/ /\ lock[Owner[c]] = c /\ lock' = [lock EXCEPT ![Owner[c]] = NoOne]
            /\ pc'[c] \notin Busy
  PROVE  LockHeld'
BY DEF TypeOK, LockHeld, Busy

\* One exchange with the auth service per lifecycle, until its result is saved
\* (SingleFlight), over either store.
THEOREM ExchangesAreSingle == Spec => []SingleFlight
<1>1. Init => LockHeld
  BY DEF Init, LockHeld, Busy
<1>2. TypeOK /\ LockHeld /\ [Next]_vars => LockHeld'
  <2> SUFFICES ASSUME TypeOK, LockHeld, [Next]_vars PROVE LockHeld'
    OBVIOUS
  <2> USE DEF TypeOK
  <2>1. ASSUME NEW c \in Calls, ReuseStored(c) \/ RequireCredentials(c) \/ AdoptRefused(c)
                                \/ RenewEnds(c) \/ RenewReuses(c)
        PROVE  LockHeld'
    BY <2>1, LockStep DEF ReuseStored, RequireCredentials, AdoptRefused, RenewEnds,
       RenewReuses,
                          Load, End, Goto, Busy
  <2>2. ASSUME NEW c \in Calls,
               RefreshStored(c) \/ BeginAcquire(c) \/ Renew(c) \/ SaveInitial(c)
                                \/ BeginAdopt(c)
        PROVE  LockHeld'
    BY <2>2, LockStep DEF RefreshStored, BeginAcquire, Renew, SaveInitial, BeginAdopt, Load,
                          BeginRefresh, LoadAndSave, SaveAfter, Goto, MyLock
  <2>3. ASSUME NEW c \in Calls, Acquired(c) \/ Refreshed(c) PROVE LockHeld'
    BY <2>3, LockStep DEF Acquired, Refreshed, SaveAfter, Goto, Busy
  <2>4. ASSUME NEW c \in Calls,
               ServiceRaises(c) \/ SaveRefused(c) \/ SaveRaises(c) PROVE LockHeld'
    BY <2>4, LockStep DEF ServiceRaises, SaveRefused, SaveRaises, Release, End, Goto,
       LockHeld, Busy
  <2>5. ASSUME NEW c \in Calls, Saved(c) PROVE LockHeld'
    <3>1. pc[c] \in Busy /\ pc'[c] \notin Busy /\ Release(c)
      BY <2>5 DEF Saved, End, Goto, Busy
    <3>2. \A d \in Calls \ {c} : pc'[d] = pc[d]
      BY <2>5 DEF Saved, End, Goto
    <3> QED
      BY <3>1, <3>2, LockStep DEF Release, LockHeld
  <2>6. ASSUME NEW c \in Calls, Answered(c) \/ Rejected(c) PROVE LockHeld'
    BY <2>6, LockStep DEF Answered, Rejected, End, Goto, Busy
  <2>7. ASSUME NEW c \in Calls, Cancel(c) PROVE LockHeld'
    BY <2>7, LockStep DEF Cancel, MyLock, End, Goto, Busy
  <2>8. ASSUME NEW l \in Lifecycles, Restart(l) PROVE LockHeld'
    <3>1. ASSUME NEW c \in Calls, pc'[c] \in Busy PROVE lock'[Owner[c]] = c
      <4>1. pc[c] = pc'[c] /\ Owner[c] # l
        BY <2>8, <3>1 DEF Restart, Busy
      <4>2. lock' = [lock EXCEPT ![l] = NoOne]
        BY <2>8 DEF Restart
      <4> QED
        BY <3>1, <4>1, <4>2 DEF LockHeld
    <3> QED
      BY <3>1 DEF LockHeld
  <2>9. ASSUME NEW t \in 1..minted, Expire(t) \/ Revoke(t) PROVE LockHeld'
    BY <2>9 DEF Expire, Revoke, LockHeld
  <2>10. CASE Invalidate
    BY <2>10 DEF Invalidate, LockHeld
  <2>11. CASE UNCHANGED vars
    BY <2>11 DEF vars, LockHeld
  <2> QED
    BY <2>1, <2>2, <2>3, <2>4, <2>5, <2>6, <2>7, <2>8, <2>9, <2>10, <2>11 DEF Next, Step,
       Locked
<1>3. TypeOK /\ LockHeld => SingleFlight
  BY DEF TypeOK, LockHeld, SingleFlight, Busy
<1> QED
  BY <1>1, <1>2, <1>3, TypeCorrect, PTL DEF Spec
==============================================================================
