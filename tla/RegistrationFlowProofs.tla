------------------------ MODULE RegistrationFlowProofs ------------------------
(***************************************************************************)
(* Proofs about RegistrationFlow, for any accounts, resources, processes,  *)
(* calls and challenges.                                                   *)
(***************************************************************************)
EXTENDS RegistrationFlow, TLAPS

USE RegistrationAssumption

\* The states of calls and the rows TypeOK speaks of.
CallStates ==
  [op : Operations, account : Accounts, status : Statuses, revision : Nat,
   challenge : Nat, next : Nat, steps : Nat, seen : SUBSET Nat]

Rows == [status : Statuses, revision : Nat, challenge : Nat, links : SUBSET Resources]

\* A call starts with nothing but its account.
LEMMA BlankType == \A c : Blank(c) \in CallStates
  BY DEF Blank, CallStates, Operations, Statuses

\* What a call learns of a stored row leaves its state well-typed.
LEMMA KnowingType ==
  ASSUME NEW state \in CallStates, NEW stored \in Rows
  PROVE  Knowing(state, stored) \in CallStates
  BY DEF Knowing, CallStates, Rows

\* What it learns, and what it keeps.
LEMMA KnowingFields ==
  ASSUME NEW state \in CallStates, NEW stored \in Rows
  PROVE  /\ Knowing(state, stored).status = stored.status
         /\ Knowing(state, stored).revision = stored.revision
         /\ Knowing(state, stored).challenge = stored.challenge
         /\ Knowing(state, stored).account = state.account
         /\ Knowing(state, stored).next = state.next
  BY DEF Knowing, CallStates, Rows

\* A transaction counts the revision of the row, and that only.
LEMMA NextRevision ==
  ASSUME NEW r \in Rows
  PROVE  /\ [r EXCEPT !.revision = @ + 1] \in Rows
         /\ [r EXCEPT !.revision = @ + 1].status = r.status
         /\ [r EXCEPT !.revision = @ + 1].challenge = r.challenge
         /\ [r EXCEPT !.revision = @ + 1].links = r.links
         /\ [r EXCEPT !.revision = @ + 1].revision = r.revision + 1
  BY DEF Rows

\* The account a call is about, and its row.
LEMMA RowType ==
  ASSUME TypeOK, NEW c \in Calls
  PROVE  /\ My(c) \in Accounts /\ row[My(c)] \in Rows /\ call[c] \in CallStates
  BY DEF TypeOK, My, Rows, CallStates

\* Moving a call, or ending it, keeps the types of what a call is.
LEMMA GotoType ==
  ASSUME TypeOK, NEW c \in Calls, NEW step \in Steps, NEW state \in CallStates,
         Goto(c, step, state)
  PROVE  /\ pc' \in [Calls -> Steps] /\ call' \in [Calls -> CallStates]
         /\ outcome' \in [Calls -> {"none", "raised", "pending", "complete"}]
  BY DEF TypeOK, Goto, CallStates

\* Return with any of the results keeps the types.
LEMMA ReturnType ==
  ASSUME TypeOK, NEW c \in Calls, NEW state \in CallStates,
         NEW result \in {"none", "raised", "pending", "complete"}, Return(c, result, state)
  PROVE  /\ pc' \in [Calls -> Steps] /\ call' \in [Calls -> CallStates]
         /\ outcome' \in [Calls -> {"none", "raised", "pending", "complete"}]
  <1>1. Blank(c) \in CallStates
    BY BlankType
  <1>2. [Blank(c) EXCEPT !.op = state.op, !.status = state.status] \in CallStates
    BY <1>1 DEF CallStates
  <1> QED
    BY <1>2 DEF Return, TypeOK, Steps, CreatingOrDone, CallStates

\* Raise keeps them: it returns, with what a blank call has.
LEMMA RaiseType ==
  ASSUME TypeOK, NEW c \in Calls, Raise(c)
  PROVE  /\ pc' \in [Calls -> Steps] /\ call' \in [Calls -> CallStates]
         /\ outcome' \in [Calls -> {"none", "raised", "pending", "complete"}]
  BY BlankType, ReturnType DEF Raise

\* Continue keeps them: it goes to one of two steps.
LEMMA ContinueType ==
  ASSUME TypeOK, NEW c \in Calls, NEW state \in CallStates, Continue(c, state)
  PROVE  /\ pc' \in [Calls -> Steps] /\ call' \in [Calls -> CallStates]
         /\ outcome' \in [Calls -> {"none", "raised", "pending", "complete"}]
  BY GotoType DEF Continue, Steps, CreatingOrDone

\* A transaction keeps the rows well-typed.
LEMMA UpdateType ==
  ASSUME TypeOK, NEW c \in Calls, NEW stored \in Rows, Update(c, stored)
  PROVE  /\ row' \in [Accounts -> Rows] /\ row'[My(c)] \in Rows
         /\ row'[My(c)] = [stored EXCEPT !.revision = @ + 1]
         /\ \A a \in Accounts \ {My(c)} : row'[a] = row[a]
  <1>1. [stored EXCEPT !.revision = @ + 1] \in Rows
    BY DEF Rows
  <1> QED
    BY <1>1, RowType DEF Update, TypeOK, Rows

\* A call that begins, with what it has been given of a row.
LEMMA StartedType ==
  ASSUME TypeOK, NEW c \in Calls, NEW a \in Accounts, NEW op \in Operations
  PROVE  /\ [Blank(c) EXCEPT !.op = op, !.account = a] \in CallStates
         /\ row[a] \in Rows
         /\ Knowing([Blank(c) EXCEPT !.op = op, !.account = a], row[a]) \in CallStates
<1>1. [Blank(c) EXCEPT !.op = op, !.account = a] \in CallStates
  BY BlankType DEF CallStates
<1> QED
  BY <1>1, KnowingType DEF TypeOK, Rows

\* Every step keeps the types.
LEMMA TypeStep == TypeOK /\ [Next]_vars => TypeOK'
<1> SUFFICES ASSUME TypeOK, [Next]_vars PROVE TypeOK'
  OBVIOUS
<1> DEFINE Moves == /\ pc' \in [Calls -> Steps] /\ call' \in [Calls -> CallStates]
                    /\ outcome' \in [Calls -> {"none", "raised", "pending", "complete"}]
           Quiet == UNCHANGED <<row, server, misreported>>
<1>m. ASSUME Moves, Quiet PROVE TypeOK'
  BY <1>m DEF TypeOK, CallStates, server
<1>w. ASSUME Moves, row' \in [Accounts -> Rows], UNCHANGED <<server, misreported>>
      PROVE  TypeOK'
  BY <1>w DEF TypeOK, CallStates, Rows, server
<1> USE DEF Steps, CreatingOrDone, Operations
<1>1. ASSUME NEW c \in Calls, NEW a \in Accounts, StartCreate(c, a) PROVE TypeOK'
  BY <1>1, <1>m, StartedType, GotoType DEF StartCreate, Start
<1>2. ASSUME NEW c \in Calls, NEW a \in Accounts, StartVerify(c, a) PROVE TypeOK'
  BY <1>2, <1>m, StartedType, GotoType DEF StartVerify
<1>3. ASSUME NEW c \in Calls, NEW a \in Accounts, StartResend(c, a) PROVE TypeOK'
  BY <1>3, <1>m, StartedType, GotoType DEF StartResend
<1>4. ASSUME NEW c \in Calls, NEW a \in Accounts, Resume(c, a) PROVE TypeOK'
  BY <1>4, <1>m, StartedType, ContinueType, RaiseType DEF Resume
<1>5. ASSUME NEW c \in Calls, Acquire(c) PROVE TypeOK'
  BY <1>5, <1>m, RowType, GotoType DEF Acquire
<1>6. ASSUME NEW c \in Calls, LoadAccount(c) PROVE TypeOK'
  BY <1>6, <1>m, RowType, KnowingType, GotoType, RaiseType, ContinueType
     DEF LoadAccount, Store
<1>7. ASSUME NEW c \in Calls, BeginRegistration(c) PROVE TypeOK'
  <2> DEFINE a == My(c)
             begun == [row[a] EXCEPT
               !.status = "provisioning", !.links = Uses[a], !.challenge = 0,
               !.revision = IF row[a].status = "none" THEN 0 ELSE @ + 1]
  <2>1. begun \in Rows
    <3>1. row[a] \in Rows /\ Uses[a] \in SUBSET Resources
      BY RowType
    <3> DEFINE next == IF row[a].status = "none" THEN 0 ELSE row[a].revision + 1
    <3>2. next \in Nat
      BY <3>1 DEF Rows
    <3> HIDE DEF next
    <3>3. [row[a] EXCEPT !.status = "provisioning", !.links = Uses[a], !.challenge = 0,
                         !.revision = next] \in Rows
      BY <3>1, <3>2 DEF Rows, Statuses
    <3> QED
      BY <3>3 DEF next
  <2>2. CASE MayBegin(a)
    <3>1. row' = [row EXCEPT ![a] = begun] /\ Goto(c, "create", Knowing(call[c], begun))
      BY <1>7, <2>2 DEF BeginRegistration
    <3>2. row' \in [Accounts -> Rows]
      BY <2>1, <3>1 DEF TypeOK, Rows
    <3> QED
      BY <1>7, <2>1, <3>1, <3>2, <1>w, RowType, KnowingType, GotoType
         DEF BeginRegistration, Store
  <2>3. CASE ~ MayBegin(a)
    BY <1>7, <2>3, <1>m, RaiseType DEF BeginRegistration, Store
  <2> QED
    BY <2>2, <2>3
<1>8. ASSUME NEW c \in Calls, NEW challenge \in 0..MaxChallenges, ServerCreates(c, challenge)
      PROVE  TypeOK'
  <2>1. [call[c] EXCEPT !.next = challenge] \in CallStates
    BY RowType DEF CallStates
  <2>2. Moves
    BY <1>8, <2>1, GotoType DEF ServerCreates
  <2>3. /\ created' \in [Accounts -> Nat] /\ asked' \in [Accounts -> Nat] /\ issued' \in Nat
        /\ UNCHANGED <<row, misreported>>
    BY <1>8, RowType DEF ServerCreates, TypeOK
  <2> QED
    BY <2>2, <2>3 DEF TypeOK, CallStates
<1>9. ASSUME NEW c \in Calls, CreateReturns(c) PROVE TypeOK'
  BY <1>9, <1>m, RowType, GotoType DEF CreateReturns, Store
<1>10. ASSUME NEW c \in Calls, CreateRaises(c) PROVE TypeOK'
  <2>1. Moves
    BY <1>10, RowType, GotoType DEF CreateRaises
  <2>2. misreported' \subseteq Accounts /\ UNCHANGED <<row, server>>
    BY <1>10, RowType DEF CreateRaises, TypeOK
  <2> QED
    BY <2>1, <2>2 DEF TypeOK, CallStates, server
<1>11. ASSUME NEW c \in Calls, CreateUnknown(c) PROVE TypeOK'
  BY <1>11, <1>m, RowType, GotoType DEF CreateUnknown
<1>12. ASSUME NEW c \in Calls, RecordRemoteCreated(c) PROVE TypeOK'
  <2> DEFINE stored == [row[My(c)] EXCEPT
               !.status = IF call[c].next = 0 THEN "active" ELSE "pending",
               !.challenge = call[c].next]
  <2>1. stored \in Rows
    BY RowType DEF Rows, CallStates, Statuses
  <2>2. CASE Current(c) /\ row[My(c)].status = "provisioning"
    <3>1. Update(c, stored) /\ Continue(c, Knowing(call[c], row'[My(c)]))
      BY <1>12, <2>2 DEF RecordRemoteCreated
    <3>2. row' \in [Accounts -> Rows] /\ row'[My(c)] \in Rows
      BY <2>1, <3>1, UpdateType
    <3>3. Moves
      BY <3>1, <3>2, RowType, KnowingType, ContinueType
    <3> QED
      BY <1>12, <3>2, <3>3, <1>w DEF RecordRemoteCreated, Store
  <2>3. CASE ~ (Current(c) /\ row[My(c)].status = "provisioning")
    BY <1>12, <2>3, <1>m, RaiseType DEF RecordRemoteCreated, Store
  <2> QED
    BY <2>2, <2>3
<1>13. ASSUME NEW c \in Calls, RecordRegistrationFailed(c) PROVE TypeOK'
  <2>1. [row[My(c)] EXCEPT !.status = "failed", !.links = {}] \in Rows
    BY RowType DEF Rows, Statuses
  <2>2. row' \in [Accounts -> Rows]
    BY <1>13, <2>1, UpdateType DEF RecordRegistrationFailed, TypeOK, Rows
  <2> QED
    BY <1>13, <2>2, <1>w, RaiseType DEF RecordRegistrationFailed, Store
<1>14. ASSUME NEW c \in Calls, RecordRegistrationUncertain(c) PROVE TypeOK'
  <2>1. [row[My(c)] EXCEPT !.status = "reconciliation"] \in Rows
    BY RowType DEF Rows, Statuses
  <2>2. row' \in [Accounts -> Rows]
    BY <1>14, <2>1, UpdateType DEF RecordRegistrationUncertain, TypeOK, Rows
  <2> QED
    BY <1>14, <2>2, <1>w, RaiseType DEF RecordRegistrationUncertain, Store
<1>15. ASSUME NEW c \in Calls, Proceed(c) PROVE TypeOK'
  <2>1. [call[c] EXCEPT !.seen = @ \cup {call[c].challenge}] \in CallStates
    BY RowType DEF CallStates
  <2> QED
    BY <1>15, <2>1, <1>m, RowType, GotoType, RaiseType, ReturnType DEF Proceed, Store
<1>16. ASSUME NEW c \in Calls, Resolve(c) PROVE TypeOK'
  BY <1>16, <1>m, RowType, GotoType DEF Resolve, Store
<1>17. ASSUME NEW c \in Calls, NEW challenge \in 0..MaxChallenges, ServerVerifies(c, challenge)
       PROVE  TypeOK'
  <2>1. [call[c] EXCEPT !.next = challenge] \in CallStates
    BY RowType DEF CallStates
  <2>2. Moves
    BY <1>17, <2>1, GotoType DEF ServerVerifies
  <2>3. /\ asked' \in [Accounts -> Nat] /\ issued' \in Nat
        /\ UNCHANGED <<row, created, misreported>>
    BY <1>17, RowType DEF ServerVerifies, TypeOK
  <2> QED
    BY <2>2, <2>3 DEF TypeOK, CallStates
<1>18. ASSUME NEW c \in Calls, VerifyRefused(c) PROVE TypeOK'
  BY <1>18, <1>m, RaiseType DEF VerifyRefused, Store
<1>19. ASSUME NEW c \in Calls, CommitVerification(c) PROVE TypeOK'
  <2> DEFINE stored == [row[My(c)] EXCEPT
               !.status = IF call[c].next = 0 THEN "active" ELSE "pending",
               !.challenge = call[c].next]
             state == [Knowing(call[c], row'[My(c)]) EXCEPT
               !.steps = @ + 1, !.seen = @ \cup {call[c].challenge}]
  <2>1. stored \in Rows
    BY RowType DEF Rows, CallStates, Statuses
  <2>2. CASE Unchanged(c)
    <3>1. Update(c, stored) /\ Continue(c, state)
      BY <1>19, <2>2 DEF CommitVerification
    <3>2. row' \in [Accounts -> Rows] /\ row'[My(c)] \in Rows
      BY <2>1, <3>1, UpdateType
    <3>3. Knowing(call[c], row'[My(c)]) \in CallStates
      BY <3>2, RowType, KnowingType
    <3>4. \A known \in CallStates :
            [known EXCEPT !.steps = @ + 1, !.seen = @ \cup {call[c].challenge}] \in CallStates
      <4> SUFFICES ASSUME NEW known \in CallStates
                   PROVE  [known EXCEPT !.steps = @ + 1, !.seen = @ \cup {call[c].challenge}]
                            \in CallStates
        OBVIOUS
      <4>1. known.steps + 1 \in Nat /\ known.seen \cup {call[c].challenge} \in SUBSET Nat
        BY RowType DEF CallStates
      <4> QED
        BY <4>1 DEF CallStates
    <3>5. state \in CallStates
      BY <3>3, <3>4
    <3>6. Moves
      BY <3>1, <3>5, ContinueType
    <3> QED
      BY <1>19, <3>2, <3>6, <1>w DEF CommitVerification, Store
  <2>3. CASE ~ Unchanged(c)
    BY <1>19, <2>3, <1>m, RaiseType DEF CommitVerification, Store
  <2> QED
    BY <2>2, <2>3
<1>20. ASSUME NEW c \in Calls, Complete(c) PROVE TypeOK'
  BY <1>20, <1>m, RowType, ReturnType DEF Complete, Store
<1>21. ASSUME NEW c \in Calls, ServerResends(c) PROVE TypeOK'
  <2>1. [call[c] EXCEPT !.next = issued'] \in CallStates /\ issued' \in Nat
    <3>1. issued' \in Nat
      BY <1>21 DEF ServerResends, TypeOK
    <3> QED
      BY <3>1, RowType DEF CallStates
  <2>2. Moves
    BY <1>21, <2>1, GotoType DEF ServerResends
  <2>3. asked' \in [Accounts -> Nat] /\ UNCHANGED <<row, created, misreported>>
    BY <1>21, <2>1, RowType DEF ServerResends, TypeOK
  <2> QED
    BY <2>1, <2>2, <2>3 DEF TypeOK, CallStates
<1>22. ASSUME NEW c \in Calls, ResendRefused(c) PROVE TypeOK'
  BY <1>22, <1>m, RaiseType DEF ResendRefused, Store
<1>23. ASSUME NEW c \in Calls, CommitResend(c) PROVE TypeOK'
  <2>1. [row[My(c)] EXCEPT !.challenge = call[c].next] \in Rows
    BY RowType DEF Rows, CallStates
  <2>2. row' \in [Accounts -> Rows]
    BY <1>23, <2>1, UpdateType DEF CommitResend, TypeOK, Rows
  <2> QED
    BY <1>23, <2>2, <1>w, RowType, RaiseType, ReturnType DEF CommitResend, Store
<1>24. ASSUME NEW c \in Calls, GiveUp(c) PROVE TypeOK'
  BY <1>24, <1>m, RaiseType DEF GiveUp
<1>25. ASSUME NEW p \in Processes, Crash(p) PROVE TypeOK'
  BY <1>25, BlankType DEF Crash, TypeOK, CallStates, server
<1>26. CASE UNCHANGED vars
  BY <1>26 DEF TypeOK, vars, server
<1> QED
  BY <1>1, <1>2, <1>3, <1>4, <1>5, <1>6, <1>7, <1>8, <1>9, <1>10, <1>11, <1>12, <1>13,
     <1>14, <1>15, <1>16, <1>17, <1>18, <1>19, <1>20, <1>21, <1>22, <1>23, <1>24, <1>25,
     <1>26 DEF Next, Begin, Step

\* The initial states have the types.
LEMMA TypeInit == Init => TypeOK
  BY BlankType DEF Init, TypeOK, Statuses, Steps, CallStates

\* Every value of the model has its type in every reachable state.
THEOREM TypeCorrect == Spec => []TypeOK
  BY TypeInit, TypeStep, PTL DEF Spec
------------------------------------------------------------------------------
(***************************************************************************)
(* Attempts are apart                                                      *)
(***************************************************************************)

\* Where a create owns the row of its account, and where a call knows of a challenge.
Owning == {"create", "created", "record", "fail", "unsure"}
Verifying == {"pending", "resolve", "verify", "verified", "resend", "resent"}

\* A challenge is stored with a pending row only, so that a commit, which checks the
\* challenge the call knows, cannot touch a row a create owns.
ChallengesArePending ==
  /\ \A a \in Accounts : row[a].challenge # 0 => row[a].status = "pending"
  /\ \A c \in Calls : pc[c] \in Verifying => call[c].challenge # 0

ApartInv == TypeOK /\ AttemptsAreApart /\ ChallengesArePending

\* What a step of c does to the calls: the others stay, and c goes on, or it ends
\* and knows nothing any more.
Others(c) == \A d \in Calls \ {c} : pc'[d] = pc[d] /\ call'[d] = call[d]

\* Goto moves c only.
LEMMA GotoMoves ==
  ASSUME TypeOK, NEW c \in Calls, NEW step, NEW state, Goto(c, step, state)
  PROVE  Others(c) /\ pc'[c] = step /\ call'[c] = state
  BY DEF Goto, Others, TypeOK

\* Return moves c only, to the end, and it forgets its challenges.
LEMMA ReturnMoves ==
  ASSUME TypeOK, NEW c \in Calls, NEW result, NEW state, Return(c, result, state)
  PROVE  Others(c) /\ pc'[c] = "done" /\ call'[c].challenge = 0 /\ call'[c].next = 0
  BY DEF Return, Others, TypeOK, Blank

\* So does Raise.
LEMMA RaiseMoves ==
  ASSUME TypeOK, NEW c \in Calls, Raise(c)
  PROVE  Others(c) /\ pc'[c] = "done" /\ call'[c].challenge = 0 /\ call'[c].next = 0
  BY ReturnMoves DEF Raise

\* Continue moves c only, to one of its two steps.
LEMMA ContinueMoves ==
  ASSUME TypeOK, NEW c \in Calls, NEW state, Continue(c, state)
  PROVE  /\ Others(c) /\ call'[c] = state
         /\ pc'[c] = IF state.challenge = 0 THEN "complete" ELSE "pending"
  BY GotoMoves DEF Continue

\* A step that leaves the rows alone, and in which no call comes to own a row or to
\* wait for a verification without a challenge, keeps attempts apart.
LEMMA QuietStep ==
  ASSUME ApartInv, UNCHANGED row,
         \A c \in Calls : pc'[c] \in Owning =>
           /\ pc[c] \in Owning /\ call'[c].account = call[c].account
           /\ call'[c].revision = call[c].revision,
         \A c \in Calls : pc'[c] \in Verifying =>
           \/ call'[c].challenge # 0
           \/ pc[c] \in Verifying /\ call'[c].challenge = call[c].challenge
  PROVE  AttemptsAreApart' /\ ChallengesArePending'
  BY DEF ApartInv, AttemptsAreApart, RowsAreOwned, ResourcesAreReserved, ChallengesArePending,
         Owning, My, Current

\* A write to the row of an account no other call owns, by a call that owns none
\* afterwards, keeps them apart when the row has its resources as it should.
LEMMA WriteStep ==
  ASSUME ApartInv, NEW c \in Calls, NEW a \in Accounts, NEW r \in Rows,
         row' = [row EXCEPT ![a] = r], Others(c),
         pc'[c] \notin Owning, pc'[c] \in Verifying => call'[c].challenge # 0,
         \A d \in Calls \ {c} : pc[d] \in Owning => My(d) # a,
         r.links = IF r.status \in {"none", "failed"} THEN {} ELSE Uses[a],
         r.links \subseteq row[a].links,
         r.challenge # 0 => r.status = "pending"
  PROVE  AttemptsAreApart' /\ ChallengesArePending'
<1>1. row'[a] = r /\ \A b \in Accounts \ {a} : row'[b] = row[b]
  BY DEF ApartInv, TypeOK
<1>2. RowsAreOwned'
  <2> SUFFICES ASSUME NEW d \in Calls, pc'[d] \in Owning
               PROVE  /\ row'[My(d)'].status = "provisioning" /\ Current(d)'
                      /\ \A e \in Calls \ {d} : pc'[e] \in Owning => My(e)' # My(d)'
    BY DEF RowsAreOwned, Owning
  <2>1. d # c /\ pc[d] \in Owning /\ My(d)' = My(d) /\ call'[d] = call[d]
    BY DEF Others, My
  <2>2. row'[My(d)] = row[My(d)]
    BY <1>1, <2>1, RowType DEF ApartInv
  <2>3. \A e \in Calls \ {c} : pc'[e] = pc[e] /\ My(e)' = My(e)
    BY DEF Others, My
  <2>4. /\ row[My(d)].status = "provisioning" /\ Current(d)
        /\ \A e \in Calls \ {d} : pc[e] \in Owning => My(e) # My(d)
    BY <2>1 DEF ApartInv, AttemptsAreApart, RowsAreOwned, Owning
  <2> QED
    BY <2>1, <2>2, <2>3, <2>4 DEF Current
<1>3. ResourcesAreReserved'
  BY <1>1 DEF ApartInv, AttemptsAreApart, ResourcesAreReserved
<1>4. ChallengesArePending'
  BY <1>1 DEF ApartInv, ChallengesArePending, Others, Verifying
<1> QED
  BY <1>2, <1>3, <1>4 DEF AttemptsAreApart

\* Every step keeps attempts apart.
LEMMA ApartStep == ApartInv /\ [Next]_vars => ApartInv'
<1> SUFFICES ASSUME ApartInv, [Next]_vars PROVE AttemptsAreApart' /\ ChallengesArePending'
  BY TypeStep DEF ApartInv
<1>t. TypeOK
  BY DEF ApartInv
<1> USE DEF Owning, Verifying
<1>1. ASSUME NEW c \in Calls, NEW a \in Accounts,
             StartCreate(c, a) \/ StartVerify(c, a) \/ StartResend(c, a)
      PROVE  AttemptsAreApart' /\ ChallengesArePending'
  <2>1. CASE StartCreate(c, a)
    BY <1>t, <2>1, QuietStep, GotoMoves DEF StartCreate, Start, Others
  <2>2. CASE StartVerify(c, a)
    <3> DEFINE state == Knowing([Blank(c) EXCEPT !.op = "verify", !.account = a], row[a])
    <3>1. Goto(c, "verify", state) /\ row[a].challenge # 0 /\ UNCHANGED row
      BY <2>2 DEF StartVerify
    <3>2. state.challenge = row[a].challenge
      BY <1>t, StartedType, KnowingFields DEF Operations
    <3> HIDE DEF state
    <3>3. Others(c) /\ pc'[c] = "verify" /\ call'[c] = state
      BY <1>t, <3>1, GotoMoves
    <3> QED
      BY <3>1, <3>2, <3>3, QuietStep DEF Others
  <2>3. CASE StartResend(c, a)
    <3> DEFINE state == Knowing([Blank(c) EXCEPT !.op = "resend", !.account = a], row[a])
    <3>1. Goto(c, "resend", state) /\ row[a].challenge # 0 /\ UNCHANGED row
      BY <2>3 DEF StartResend
    <3>2. state.challenge = row[a].challenge
      BY <1>t, StartedType, KnowingFields DEF Operations
    <3> HIDE DEF state
    <3>3. Others(c) /\ pc'[c] = "resend" /\ call'[c] = state
      BY <1>t, <3>1, GotoMoves
    <3> QED
      BY <3>1, <3>2, <3>3, QuietStep DEF Others
  <2> QED
    BY <1>1, <2>1, <2>2, <2>3
<1>2. ASSUME NEW c \in Calls, NEW a \in Accounts, Resume(c, a)
      PROVE  AttemptsAreApart' /\ ChallengesArePending'
  BY <1>t, <1>2, QuietStep, ContinueMoves, RaiseMoves DEF Resume, Others
<1>3. ASSUME NEW c \in Calls, Acquire(c) \/ LoadAccount(c)
      PROVE  AttemptsAreApart' /\ ChallengesArePending'
  BY <1>t, <1>3, QuietStep, GotoMoves, ContinueMoves, RaiseMoves
     DEF Acquire, LoadAccount, Store, Others
<1>4. ASSUME NEW c \in Calls, BeginRegistration(c)
      PROVE  AttemptsAreApart' /\ ChallengesArePending'
  <2> DEFINE a == My(c)
             begun == [row[a] EXCEPT
               !.status = "provisioning", !.links = Uses[a], !.challenge = 0,
               !.revision = IF row[a].status = "none" THEN 0 ELSE @ + 1]
  <2>1. CASE ~ MayBegin(a)
    BY <1>t, <1>4, <2>1, QuietStep, RaiseMoves DEF BeginRegistration, Others
  <2>2. CASE MayBegin(a)
    <3>1. row' = [row EXCEPT ![a] = begun] /\ Goto(c, "create", Knowing(call[c], begun))
      BY <1>4, <2>2 DEF BeginRegistration
    <3>2. /\ Others(c) /\ pc'[c] = "create" /\ My(c)' = a
          /\ call'[c].revision = begun.revision
      <4>1. begun \in Rows
        <5> DEFINE next == IF row[a].status = "none" THEN 0 ELSE row[a].revision + 1
        <5>1. row[a] \in Rows /\ next \in Nat /\ Uses[a] \in SUBSET Resources
          BY <1>t, RowType DEF Rows
        <5> HIDE DEF next
        <5>2. [row[a] EXCEPT !.status = "provisioning", !.links = Uses[a], !.challenge = 0,
                             !.revision = next] \in Rows
          BY <5>1 DEF Rows, Statuses
        <5> QED
          BY <5>2 DEF next
      <4> HIDE DEF begun
      <4> QED
        BY <1>t, <3>1, <4>1, RowType, GotoMoves, KnowingFields DEF My
    <3>3. /\ row'[a] = begun /\ begun.status = "provisioning" /\ begun.links = Uses[a]
          /\ begun.challenge = 0
          /\ \A b \in Accounts \ {a} : row'[b] = row[b]
      BY <1>t, <3>1, RowType DEF TypeOK, Rows
    <3> HIDE DEF begun
    <3>4. \A d \in Calls : pc[d] \in Owning => My(d) # a
      BY <2>2 DEF MayBegin, ApartInv, AttemptsAreApart, RowsAreOwned
    <3>5. RowsAreOwned'
      BY <1>t, <3>2, <3>3, <3>4, RowType
         DEF ApartInv, AttemptsAreApart, RowsAreOwned, Others, My, Current
    <3>6. ResourcesAreReserved'
      BY <1>t, <2>2, <3>3, RowType DEF ApartInv, AttemptsAreApart, ResourcesAreReserved, MayBegin
    <3>7. ChallengesArePending'
      BY <3>2, <3>3 DEF ApartInv, ChallengesArePending, Others
    <3> QED
      BY <3>5, <3>6, <3>7 DEF AttemptsAreApart
  <2> QED
    BY <2>1, <2>2
<1>5. ASSUME NEW c \in Calls, \/ \E challenge \in 0..MaxChallenges : ServerCreates(c, challenge)
                              \/ CreateReturns(c) \/ CreateRaises(c) \/ CreateUnknown(c)
      PROVE  AttemptsAreApart' /\ ChallengesArePending'
  <2>1. \A n : /\ [call[c] EXCEPT !.next = n].account = call[c].account
               /\ [call[c] EXCEPT !.next = n].revision = call[c].revision
    BY <1>t, RowType DEF CallStates
  <2>2. /\ UNCHANGED row /\ Others(c) /\ pc[c] \in Owning /\ pc'[c] \in Owning
        /\ call'[c].account = call[c].account /\ call'[c].revision = call[c].revision
    <3>1. CASE \E challenge \in 0..MaxChallenges : ServerCreates(c, challenge)
      <4> PICK challenge : /\ Goto(c, "created", [call[c] EXCEPT !.next = challenge])
                           /\ pc[c] = "create" /\ UNCHANGED row
        BY <3>1 DEF ServerCreates
      <4> DEFINE state == [call[c] EXCEPT !.next = challenge]
      <4>1. state.account = call[c].account /\ state.revision = call[c].revision
        BY <2>1
      <4> HIDE DEF state
      <4>2. Others(c) /\ pc'[c] = "created" /\ call'[c] = state
        BY <1>t, GotoMoves DEF state
      <4> QED
        BY <4>1, <4>2
    <3>2. CASE CreateReturns(c) \/ CreateRaises(c) \/ CreateUnknown(c)
      BY <1>t, <3>2, GotoMoves DEF CreateReturns, CreateRaises, CreateUnknown, Store
    <3> QED
      BY <1>5, <3>1, <3>2
  <2> QED
    BY <2>2, QuietStep DEF Others
<1>6. ASSUME NEW c \in Calls, RecordRemoteCreated(c)
      PROVE  AttemptsAreApart' /\ ChallengesArePending'
  <2> DEFINE a == My(c)
             stored == [row[a] EXCEPT
               !.status = IF call[c].next = 0 THEN "active" ELSE "pending",
               !.challenge = call[c].next]
  <2>1. CASE ~ (Current(c) /\ row[a].status = "provisioning")
    BY <1>t, <1>6, <2>1, QuietStep, RaiseMoves DEF RecordRemoteCreated, Others
  <2>2. CASE Current(c) /\ row[a].status = "provisioning"
    <3>1. Update(c, stored) /\ Continue(c, Knowing(call[c], row'[a]))
      BY <1>6, <2>2 DEF RecordRemoteCreated
    <3>2. /\ Others(c) /\ pc'[c] \notin Owning
          /\ pc'[c] \in Verifying => call'[c].challenge # 0
      BY <1>t, <3>1, ContinueMoves
    <3>3. stored \in Rows
      BY <1>t, RowType DEF Rows, CallStates, Statuses
    <3>4. \A d \in Calls \ {c} : pc[d] \in Owning => My(d) # a
      BY <1>6 DEF RecordRemoteCreated, Store, ApartInv, AttemptsAreApart, RowsAreOwned
    <3>5. /\ stored.links = row[a].links /\ stored.status \in {"active", "pending"}
          /\ stored.challenge # 0 => stored.status = "pending"
      BY <1>t, RowType DEF Rows
    <3>6. row[a].links = Uses[a]
      BY <1>t, <2>2, RowType DEF ApartInv, AttemptsAreApart, ResourcesAreReserved
    <3> DEFINE r == [stored EXCEPT !.revision = @ + 1]
    <3> HIDE DEF stored
    <3>7. /\ r \in Rows /\ r.links = row[a].links /\ r.status \in {"active", "pending"}
          /\ r.challenge # 0 => r.status = "pending"
      BY <3>3, <3>5 DEF Rows
    <3>8. row' = [row EXCEPT ![a] = r]
      BY <3>1 DEF Update
    <3> QED
      BY <1>t, <3>2, <3>4, <3>6, <3>7, <3>8, RowType, WriteStep
  <2> QED
    BY <2>1, <2>2
<1>7. ASSUME NEW c \in Calls, RecordRegistrationFailed(c) \/ RecordRegistrationUncertain(c)
      PROVE  AttemptsAreApart' /\ ChallengesArePending'
  <2> DEFINE a == My(c)
  <2>1. /\ Others(c) /\ pc'[c] = "done"
        /\ pc[c] \in Owning
    BY <1>t, <1>7, RaiseMoves
       DEF RecordRegistrationFailed, RecordRegistrationUncertain, Store
  <2>2. \A d \in Calls \ {c} : pc[d] \in Owning => My(d) # a
    BY <2>1 DEF ApartInv, AttemptsAreApart, RowsAreOwned
  <2>3. row[a].status = "provisioning" /\ row[a].links = Uses[a] /\ row[a].challenge = 0
    BY <1>t, <2>1, RowType
       DEF ApartInv, AttemptsAreApart, RowsAreOwned, ResourcesAreReserved, ChallengesArePending
  <2>4. CASE UNCHANGED row
    BY <1>t, <2>1, <2>4, QuietStep DEF Others
  <2>5. CASE Update(c, [row[a] EXCEPT !.status = "failed", !.links = {}])
    <3> DEFINE stored == [row[a] EXCEPT !.status = "failed", !.links = {}]
               r == [stored EXCEPT !.revision = @ + 1]
    <3>0. /\ stored \in Rows /\ stored.links = {} /\ stored.status = "failed"
          /\ stored.challenge = 0
      BY <1>t, <2>3, RowType DEF Rows, Statuses
    <3>1. /\ r \in Rows /\ r.links = {} /\ r.status = "failed" /\ r.challenge = 0
      <4> HIDE DEF stored
      <4> QED
        BY <3>0, NextRevision
    <3>2. row' = [row EXCEPT ![a] = r]
      BY <2>5 DEF Update
    <3> QED
      BY <1>t, <2>1, <2>2, <3>1, <3>2, RowType, WriteStep
  <2>6. CASE Update(c, [row[a] EXCEPT !.status = "reconciliation"])
    <3> DEFINE stored == [row[a] EXCEPT !.status = "reconciliation"]
               r == [stored EXCEPT !.revision = @ + 1]
    <3>0. /\ stored \in Rows /\ stored.links = Uses[a] /\ stored.status = "reconciliation"
          /\ stored.challenge = 0
      BY <1>t, <2>3, RowType DEF Rows, Statuses
    <3>1. /\ r \in Rows /\ r.links = Uses[a] /\ r.status = "reconciliation" /\ r.challenge = 0
      <4> HIDE DEF stored
      <4> QED
        BY <3>0, NextRevision
    <3>2. row' = [row EXCEPT ![a] = r]
      BY <2>6 DEF Update
    <3> QED
      BY <1>t, <2>1, <2>2, <2>3, <3>1, <3>2, RowType, WriteStep
  <2> QED
    BY <1>7, <2>4, <2>5, <2>6 DEF RecordRegistrationFailed, RecordRegistrationUncertain
<1>8. ASSUME NEW c \in Calls, \/ Proceed(c) \/ Resolve(c) \/ VerifyRefused(c) \/ Complete(c)
                              \/ ResendRefused(c) \/ GiveUp(c)
      PROVE  AttemptsAreApart' /\ ChallengesArePending'
  <2>1. UNCHANGED row
    BY <1>8 DEF Proceed, Resolve, VerifyRefused, Complete, ResendRefused, GiveUp
  <2>2. \/ pc'[c] = "done" /\ Others(c)
        \/ /\ pc'[c] \in {"resolve", "verify"} /\ Others(c) /\ pc[c] \in Verifying
           /\ call'[c].challenge = call[c].challenge
    BY <1>8, <1>t, GotoMoves, ReturnMoves, RaiseMoves, RowType
       DEF Proceed, Resolve, VerifyRefused, Complete, ResendRefused, GiveUp, Store, CallStates
  <2> QED
    BY <2>1, <2>2, QuietStep DEF Others
<1>9. ASSUME NEW c \in Calls, \/ \E challenge \in 0..MaxChallenges : ServerVerifies(c, challenge)
                              \/ ServerResends(c)
      PROVE  AttemptsAreApart' /\ ChallengesArePending'
  <2>1. UNCHANGED row
    BY <1>9 DEF ServerVerifies, ServerResends
  <2>2. /\ pc'[c] \in {"verified", "resent"} /\ Others(c) /\ pc[c] \in Verifying
        /\ call'[c].challenge = call[c].challenge
    <3>1. \A n : [call[c] EXCEPT !.next = n].challenge = call[c].challenge
      BY <1>t, RowType DEF CallStates
    <3>2. CASE \E challenge \in 0..MaxChallenges : ServerVerifies(c, challenge)
      <4> PICK challenge : /\ Goto(c, "verified", [call[c] EXCEPT !.next = challenge])
                           /\ pc[c] = "verify"
        BY <3>2 DEF ServerVerifies
      <4> DEFINE state == [call[c] EXCEPT !.next = challenge]
      <4>2. state.challenge = call[c].challenge
        BY <3>1
      <4> HIDE DEF state
      <4>3. Others(c) /\ pc'[c] = "verified" /\ call'[c] = state
        BY <1>t, GotoMoves DEF state
      <4> QED
        BY <4>2, <4>3
    <3>3. CASE ServerResends(c)
      <4>1. /\ Goto(c, "resent", [call[c] EXCEPT !.next = issued'])
            /\ pc[c] = "resend"
        BY <3>3 DEF ServerResends
      <4> DEFINE state == [call[c] EXCEPT !.next = issued']
      <4>2. state.challenge = call[c].challenge
        BY <3>1
      <4> HIDE DEF state
      <4>3. Others(c) /\ pc'[c] = "resent" /\ call'[c] = state
        BY <1>t, <4>1, GotoMoves DEF state
      <4> QED
        BY <4>1, <4>2, <4>3
    <3> QED
      BY <1>9, <3>2, <3>3
  <2> QED
    BY <2>1, <2>2, QuietStep DEF Others
<1>10. ASSUME NEW c \in Calls, CommitVerification(c) \/ CommitResend(c)
       PROVE  AttemptsAreApart' /\ ChallengesArePending'
  <2> DEFINE a == My(c)
  <2>1. CASE ~ Unchanged(c)
    BY <1>t, <1>10, <2>1, QuietStep, RaiseMoves DEF CommitVerification, CommitResend, Others
  <2>2. CASE Unchanged(c)
    <3>1. row[a].challenge # 0 /\ row[a].status = "pending" /\ row[a].links = Uses[a]
      BY <1>t, <1>10, <2>2, RowType
         DEF CommitVerification, CommitResend, Store, Unchanged, ApartInv, AttemptsAreApart,
             ResourcesAreReserved, ChallengesArePending
    <3>2. \A d \in Calls : pc[d] \in Owning => My(d) # a
      BY <3>1 DEF ApartInv, AttemptsAreApart, RowsAreOwned
    <3>3. /\ Others(c) /\ pc'[c] \notin Owning
          /\ pc'[c] \in Verifying => call'[c].challenge # 0
      <4>1. CASE CommitVerification(c)
        <5> PICK state : Continue(c, state)
          BY <2>2, <4>1 DEF CommitVerification
        <5> QED
          BY <1>t, ContinueMoves
      <4>2. CASE CommitResend(c)
        BY <1>t, <2>2, <4>2, ReturnMoves DEF CommitResend
      <4> QED
        BY <1>10, <4>1, <4>2
    <3>4. PICK status \in {"active", "pending"} :
            /\ row' = [row EXCEPT ![a] = [[row[a] EXCEPT
                 !.status = status, !.challenge = call[c].next] EXCEPT !.revision = @ + 1]]
            /\ call[c].next # 0 => status = "pending"
      <4>1. CASE CommitVerification(c)
        BY <2>2, <4>1 DEF CommitVerification, Update
      <4>2. CASE CommitResend(c)
        <5>1. row' = [row EXCEPT ![a] =
                       [[row[a] EXCEPT !.challenge = call[c].next] EXCEPT !.revision = @ + 1]]
          BY <2>2, <4>2 DEF CommitResend, Update
        <5>2. [row[a] EXCEPT !.challenge = call[c].next]
                = [row[a] EXCEPT !.status = "pending", !.challenge = call[c].next]
          BY <1>t, <3>1, RowType DEF Rows
        <5> QED
          BY <5>1, <5>2
      <4> QED
        BY <1>10, <4>1, <4>2
    <3> DEFINE stored == [row[a] EXCEPT !.status = status, !.challenge = call[c].next]
               r == [stored EXCEPT !.revision = @ + 1]
    <3>5. /\ r \in Rows /\ r.links = Uses[a] /\ r.status \in {"active", "pending"}
          /\ r.challenge # 0 => r.status = "pending"
      <4>1. /\ stored \in Rows /\ stored.links = Uses[a] /\ stored.status = status
            /\ stored.challenge = call[c].next
        BY <1>t, <3>1, RowType DEF Rows, Statuses, CallStates
      <4> HIDE DEF stored
      <4> QED
        BY <3>4, <4>1, NextRevision
    <3> QED
      BY <1>t, <3>1, <3>2, <3>3, <3>4, <3>5, RowType, WriteStep
  <2> QED
    BY <2>1, <2>2
<1>11. ASSUME NEW p \in Processes, Crash(p) PROVE AttemptsAreApart' /\ ChallengesArePending'
  BY <1>t, <1>11, QuietStep DEF Crash, TypeOK
<1>12. CASE UNCHANGED vars
  BY <1>12, QuietStep DEF vars
<1> QED
  BY <1>1, <1>2, <1>3, <1>4, <1>5, <1>6, <1>7, <1>8, <1>9, <1>10, <1>11, <1>12
     DEF Next, Begin, Step

\* The initial states are apart: there is no row, and no call has begun.
LEMMA ApartInit == Init => ApartInv
  BY TypeInit DEF Init, ApartInv, AttemptsAreApart, RowsAreOwned, ResourcesAreReserved,
     ChallengesArePending, Verifying

\* RegistrationFlow.AttemptsAreApart for every instance: while a call creates an account
\* the row is its own, and a resource belongs to one registration.
THEOREM RegistrationsAreApart == Spec => []AttemptsAreApart
<1>1. ApartInv => AttemptsAreApart
  BY DEF ApartInv
<1> QED
  BY <1>1, ApartInit, ApartStep, PTL DEF Spec
------------------------------------------------------------------------------
(***************************************************************************)
(* The server makes one account                                            *)
(***************************************************************************)

\* Of an identifier whose creates were all reported truly, the server has made one
\* account at most, and none while its row, or the call that owns it, may begin again.
CreatedOnce ==
  \A a \in Accounts \ misreported :
    /\ created[a] <= 1
    /\ row[a].status \in {"none", "failed"} => created[a] = 0
    /\ \A c \in Calls : pc[c] \in {"create", "fail"} /\ My(c) = a => created[a] = 0

OneInv == ApartInv /\ CreatedOnce

\* A step in which the server makes no account keeps the promise, when no row and no
\* call is allowed to begin again that was not before.
LEMMA NothingCreated ==
  ASSUME OneInv, UNCHANGED created, misreported \subseteq misreported',
         \A a \in Accounts \ misreported' : row'[a].status \in {"none", "failed"} =>
           row[a].status \in {"none", "failed"} \/ created[a] = 0,
         \A c \in Calls : pc'[c] \in {"create", "fail"} =>
           \/ pc[c] \in {"create", "fail"} /\ call'[c].account = call[c].account
           \/ created[call'[c].account] = 0
           \/ call'[c].account \in misreported'
  PROVE  CreatedOnce'
  BY DEF OneInv, CreatedOnce, My

\* A transaction that makes a row neither new nor failed.
LEMMA UpdateKeepsBusy ==
  ASSUME TypeOK, NEW c \in Calls, NEW stored \in Rows, Update(c, stored),
         stored.status \notin {"none", "failed"}
  PROVE  \A a \in Accounts : row'[a].status \in {"none", "failed"} => row'[a] = row[a]
<1>1. /\ row'[My(c)] = [stored EXCEPT !.revision = @ + 1]
      /\ \A a \in Accounts \ {My(c)} : row'[a] = row[a]
  BY UpdateType
<1>2. row'[My(c)].status = stored.status
  BY <1>1, NextRevision
<1> QED
  BY <1>1, <1>2

\* Every step keeps the promise.
LEMMA OneStep == OneInv /\ [Next]_vars => OneInv'
<1> SUFFICES ASSUME OneInv, [Next]_vars PROVE CreatedOnce'
  BY ApartStep DEF OneInv
<1>t. TypeOK /\ ApartInv /\ CreatedOnce
  BY DEF OneInv, ApartInv
<1>1. ASSUME NEW c \in Calls, NEW a \in Accounts,
             StartCreate(c, a) \/ StartVerify(c, a) \/ StartResend(c, a) \/ Resume(c, a)
      PROVE  CreatedOnce'
  <2>1. UNCHANGED <<row, created, misreported>>
    BY <1>1 DEF StartCreate, Start, StartVerify, StartResend, Resume, server
  <2>2. Others(c) /\ pc'[c] \notin {"create", "fail"}
    BY <1>t, <1>1, GotoMoves, RaiseMoves, ContinueMoves
       DEF StartCreate, Start, StartVerify, StartResend, Resume
  <2> QED
    BY <2>1, <2>2, NothingCreated DEF Others
<1>2. ASSUME NEW c \in Calls,
             \/ Acquire(c) \/ LoadAccount(c) \/ CreateReturns(c) \/ CreateUnknown(c)
             \/ Proceed(c) \/ Resolve(c) \/ VerifyRefused(c) \/ Complete(c)
             \/ ResendRefused(c) \/ GiveUp(c)
      PROVE  CreatedOnce'
  <2>1. UNCHANGED <<row, created, misreported>>
    BY <1>2 DEF Acquire, LoadAccount, CreateReturns, CreateUnknown, Proceed, Resolve,
       VerifyRefused, Complete, ResendRefused, GiveUp, Store, server
  <2>2. Others(c) /\ pc'[c] \notin {"create", "fail"}
    BY <1>t, <1>2, GotoMoves, RaiseMoves, ReturnMoves, ContinueMoves
       DEF Acquire, LoadAccount, CreateReturns, CreateUnknown, Proceed, Resolve,
           VerifyRefused, Complete, ResendRefused, GiveUp, Store
  <2> QED
    BY <2>1, <2>2, NothingCreated DEF Others
<1>3. ASSUME NEW c \in Calls, BeginRegistration(c) PROVE CreatedOnce'
  <2> DEFINE a == My(c)
             begun == [row[a] EXCEPT
               !.status = "provisioning", !.links = Uses[a], !.challenge = 0,
               !.revision = IF row[a].status = "none" THEN 0 ELSE @ + 1]
  <2>0. UNCHANGED <<created, misreported>>
    BY <1>3 DEF BeginRegistration, Store, server
  <2>1. CASE ~ MayBegin(a)
    BY <1>t, <1>3, <2>0, <2>1, NothingCreated, RaiseMoves DEF BeginRegistration, Others
  <2>2. CASE MayBegin(a)
    <3>1. row' = [row EXCEPT ![a] = begun] /\ Goto(c, "create", Knowing(call[c], begun))
      BY <1>3, <2>2 DEF BeginRegistration
    <3>2. row'[a].status = "provisioning" /\ \A b \in Accounts \ {a} : row'[b] = row[b]
      BY <1>t, <3>1, RowType DEF TypeOK, Rows
    <3>3. Others(c) /\ call'[c].account = a
      <4> HIDE DEF begun
      <4>1. Others(c) /\ call'[c] = Knowing(call[c], begun)
        BY <1>t, <3>1, GotoMoves
      <4>2. Knowing(call[c], begun).account = call[c].account
        BY <1>t, RowType DEF Knowing, CallStates
      <4> QED
        BY <4>1, <4>2 DEF My
    <3>4. a \in misreported \/ created[a] = 0
      BY <1>t, <2>2, RowType DEF CreatedOnce, MayBegin
    <3> QED
      BY <2>0, <3>2, <3>3, <3>4, NothingCreated DEF Others
  <2> QED
    BY <2>1, <2>2
<1>4. ASSUME NEW c \in Calls, NEW challenge \in 0..MaxChallenges, ServerCreates(c, challenge)
      PROVE  CreatedOnce'
  <2> DEFINE a == My(c)
  <2>1. /\ pc[c] = "create" /\ UNCHANGED <<row, misreported>>
        /\ created' = [created EXCEPT ![a] = @ + 1]
    BY <1>4 DEF ServerCreates
  <2>2. Others(c) /\ pc'[c] = "created"
    BY <1>t, <1>4, GotoMoves DEF ServerCreates
  <2>3. a \in misreported \/ created[a] = 0
    BY <1>t, <2>1, RowType DEF CreatedOnce
  <2>4. \A d \in Calls \ {c} : pc[d] \in {"create", "fail"} => My(d) # a
    BY <1>t, <2>1 DEF ApartInv, AttemptsAreApart, RowsAreOwned
  <2>5. row[a].status = "provisioning"
    BY <1>t, <2>1 DEF ApartInv, AttemptsAreApart, RowsAreOwned
  <2>6. /\ created'[a] = created[a] + 1 /\ \A b \in Accounts \ {a} : created'[b] = created[b]
    BY <1>t, <2>1, RowType DEF TypeOK
  <2>7. \A d \in Calls : pc'[d] \in {"create", "fail"} =>
          d # c /\ pc[d] \in {"create", "fail"} /\ My(d)' = My(d)
    BY <2>2 DEF Others, My
  <2> SUFFICES ASSUME NEW b \in Accounts \ misreported
               PROVE  /\ created'[b] <= 1
                      /\ row[b].status \in {"none", "failed"} => created'[b] = 0
                      /\ \A d \in Calls : pc'[d] \in {"create", "fail"} /\ My(d)' = b
                           => created'[b] = 0
    BY <2>1 DEF CreatedOnce
  <2>8. CASE b = a
    BY <2>3, <2>4, <2>5, <2>6, <2>7, <2>8
  <2>9. CASE b # a
    BY <1>t, <2>6, <2>7, <2>9 DEF CreatedOnce
  <2> QED
    BY <2>8, <2>9
<1>5. ASSUME NEW c \in Calls, CreateRaises(c) PROVE CreatedOnce'
  <2>1. UNCHANGED <<row, created>> /\ misreported \subseteq misreported'
    BY <1>5 DEF CreateRaises, server
  <2>2. Others(c) /\ call'[c] = call[c]
    BY <1>t, <1>5, GotoMoves DEF CreateRaises
  <2>3. pc[c] = "create" \/ My(c) \in misreported'
    BY <1>5 DEF CreateRaises
  <2> QED
    BY <2>1, <2>2, <2>3, NothingCreated DEF Others, My
<1>6. ASSUME NEW c \in Calls, RecordRemoteCreated(c) PROVE CreatedOnce'
  <2> DEFINE stored == [row[My(c)] EXCEPT
               !.status = IF call[c].next = 0 THEN "active" ELSE "pending",
               !.challenge = call[c].next]
  <2>0. UNCHANGED <<created, misreported>>
    BY <1>6 DEF RecordRemoteCreated, Store, server
  <2>1. CASE ~ (Current(c) /\ row[My(c)].status = "provisioning")
    BY <1>t, <1>6, <2>0, <2>1, NothingCreated, RaiseMoves DEF RecordRemoteCreated, Others
  <2>2. CASE Current(c) /\ row[My(c)].status = "provisioning"
    <3>1. Update(c, stored) /\ Continue(c, Knowing(call[c], row'[My(c)]))
      BY <1>6, <2>2 DEF RecordRemoteCreated
    <3>2. stored \in Rows /\ stored.status \notin {"none", "failed"}
      BY <1>t, RowType DEF Rows, CallStates, Statuses
    <3>3. Others(c) /\ pc'[c] \notin {"create", "fail"}
      BY <1>t, <3>1, ContinueMoves
    <3> HIDE DEF stored
    <3>4. \A a \in Accounts : row'[a].status \in {"none", "failed"} => row'[a] = row[a]
      BY <1>t, <3>1, <3>2, UpdateKeepsBusy
    <3> QED
      BY <2>0, <3>3, <3>4, NothingCreated DEF Others
  <2> QED
    BY <2>1, <2>2
<1>7. ASSUME NEW c \in Calls, RecordRegistrationFailed(c) PROVE CreatedOnce'
  <2>1. /\ UNCHANGED <<created, misreported>> /\ pc[c] = "fail"
        /\ \A b \in Accounts \ {My(c)} : row'[b] = row[b]
    BY <1>t, <1>7 DEF RecordRegistrationFailed, Store, Update, server, TypeOK
  <2>2. Others(c) /\ pc'[c] = "done"
    BY <1>t, <1>7, RaiseMoves DEF RecordRegistrationFailed
  <2>3. My(c) \in misreported \/ created[My(c)] = 0
    BY <1>t, <2>1, RowType DEF CreatedOnce
  <2> QED
    BY <2>1, <2>2, <2>3, NothingCreated DEF Others
<1>8. ASSUME NEW c \in Calls, RecordRegistrationUncertain(c) PROVE CreatedOnce'
  <2> DEFINE stored == [row[My(c)] EXCEPT !.status = "reconciliation"]
  <2>1. UNCHANGED <<created, misreported>> /\ (Update(c, stored) \/ UNCHANGED row)
    BY <1>8 DEF RecordRegistrationUncertain, Store, server
  <2>2. Others(c) /\ pc'[c] = "done"
    BY <1>t, <1>8, RaiseMoves DEF RecordRegistrationUncertain
  <2>3. stored \in Rows /\ stored.status = "reconciliation"
    BY <1>t, RowType DEF Rows, Statuses
  <2> HIDE DEF stored
  <2>4. \A a \in Accounts : row'[a].status \in {"none", "failed"} => row'[a] = row[a]
    BY <1>t, <2>1, <2>3, UpdateKeepsBusy
  <2> QED
    BY <2>1, <2>2, <2>4, NothingCreated DEF Others
<1>9. ASSUME NEW c \in Calls, \/ \E challenge \in 0..MaxChallenges : ServerVerifies(c, challenge)
                              \/ ServerResends(c)
      PROVE  CreatedOnce'
  <2>1. UNCHANGED <<row, created, misreported>>
    BY <1>9 DEF ServerVerifies, ServerResends
  <2>2. Others(c) /\ pc'[c] \notin {"create", "fail"}
    <3>1. CASE \E challenge \in 0..MaxChallenges : ServerVerifies(c, challenge)
      BY <1>t, <3>1, GotoMoves DEF ServerVerifies
    <3>2. CASE ServerResends(c)
      BY <1>t, <3>2, GotoMoves DEF ServerResends
    <3> QED
      BY <1>9, <3>1, <3>2
  <2> QED
    BY <2>1, <2>2, NothingCreated DEF Others
<1>10. ASSUME NEW c \in Calls, CommitVerification(c) PROVE CreatedOnce'
  <2> DEFINE stored == [row[My(c)] EXCEPT
               !.status = IF call[c].next = 0 THEN "active" ELSE "pending",
               !.challenge = call[c].next]
  <2>0. UNCHANGED <<created, misreported>>
    BY <1>10 DEF CommitVerification, Store, server
  <2>1. CASE ~ Unchanged(c)
    BY <1>t, <1>10, <2>0, <2>1, NothingCreated, RaiseMoves DEF CommitVerification, Others
  <2>2. CASE Unchanged(c)
    <3>1. PICK state : Update(c, stored) /\ Continue(c, state)
      BY <1>10, <2>2 DEF CommitVerification
    <3>2. stored \in Rows /\ stored.status \notin {"none", "failed"}
      BY <1>t, RowType DEF Rows, CallStates, Statuses
    <3>3. Others(c) /\ pc'[c] \notin {"create", "fail"}
      BY <1>t, <3>1, ContinueMoves
    <3> HIDE DEF stored
    <3>4. \A a \in Accounts : row'[a].status \in {"none", "failed"} => row'[a] = row[a]
      BY <1>t, <3>1, <3>2, UpdateKeepsBusy
    <3> QED
      BY <2>0, <3>3, <3>4, NothingCreated DEF Others
  <2> QED
    BY <2>1, <2>2
<1>11. ASSUME NEW c \in Calls, CommitResend(c) PROVE CreatedOnce'
  <2> DEFINE stored == [row[My(c)] EXCEPT !.challenge = call[c].next]
  <2>0. UNCHANGED <<created, misreported>>
    BY <1>11 DEF CommitResend, Store, server
  <2>1. CASE ~ Unchanged(c)
    BY <1>t, <1>11, <2>0, <2>1, NothingCreated, RaiseMoves DEF CommitResend, Others
  <2>2. CASE Unchanged(c)
    <3>1. Update(c, stored) /\ Return(c, "pending", call[c])
      BY <1>11, <2>2 DEF CommitResend
    <3>2. stored \in Rows /\ stored.status = "pending"
      <4>1. row[My(c)].challenge # 0
        BY <1>t, <1>11, <2>2
           DEF CommitResend, Store, Unchanged, ApartInv, ChallengesArePending, Verifying
      <4>2. row[My(c)].status = "pending"
        BY <1>t, <4>1, RowType DEF ApartInv, ChallengesArePending
      <4> QED
        BY <1>t, <4>2, RowType DEF Rows, CallStates
    <3>3. Others(c) /\ pc'[c] = "done"
      BY <1>t, <3>1, ReturnMoves
    <3> HIDE DEF stored
    <3>4. \A a \in Accounts : row'[a].status \in {"none", "failed"} => row'[a] = row[a]
      BY <1>t, <3>1, <3>2, UpdateKeepsBusy
    <3> QED
      BY <2>0, <3>3, <3>4, NothingCreated DEF Others
  <2> QED
    BY <2>1, <2>2
<1>12. ASSUME NEW p \in Processes, Crash(p) PROVE CreatedOnce'
  BY <1>t, <1>12, NothingCreated DEF Crash, TypeOK, server
<1>13. CASE UNCHANGED vars
  BY <1>13, NothingCreated DEF vars, server
<1> QED
  BY <1>1, <1>2, <1>3, <1>4, <1>5, <1>6, <1>7, <1>8, <1>9, <1>10, <1>11, <1>12, <1>13
     DEF Next, Begin, Step

\* RegistrationFlow.OneRemoteAccount for every instance: the server makes a second
\* account only after a create was reported as failed when it had not.
THEOREM NoSecondAccount == Spec => []OneRemoteAccount
<1>1. Init => OneInv
  BY ApartInit DEF Init, OneInv, CreatedOnce
<1>2. OneInv => OneRemoteAccount
  BY DEF OneInv, ApartInv, TypeOK, CreatedOnce, OneRemoteAccount
<1> QED
  BY <1>1, <1>2, OneStep, PTL DEF Spec
------------------------------------------------------------------------------
(***************************************************************************)
(* Challenges advance                                                      *)
(***************************************************************************)

\* What the server asks for, and what rows and calls hold, has been issued; and what
\* a call is about to store comes after what it has read.
ChallengesAreIssued ==
  /\ \A a \in Accounts : asked[a] <= issued /\ row[a].challenge <= issued
  /\ \A c \in Calls :
       /\ call[c].challenge <= issued /\ call[c].next <= issued
       /\ pc[c] = "verified" => call[c].next = 0 \/ call[c].next >= call[c].challenge
       /\ pc[c] = "resent" => call[c].next > call[c].challenge

AdvanceInv == ApartInv /\ ChallengesAreIssued

\* What the property says of a step.
Advances == \A a \in Accounts : row[a].challenge # 0 /\ row'[a].challenge # 0 =>
              row'[a].challenge >= row[a].challenge

\* A step that issues nothing and leaves the rows alone, after which a call holds what
\* it held, or what its row or nothing holds.
LEMMA NothingIssued ==
  ASSUME AdvanceInv, UNCHANGED <<issued, asked>>,
         \A a \in Accounts : row'[a] = row[a] \/ row'[a].challenge = 0,
         \A c \in Calls :
           /\ call'[c].next \in {call[c].next, 0}
           /\ \/ call'[c].challenge \in {call[c].challenge, 0}
              \/ \E a \in Accounts : call'[c].challenge = row[a].challenge,
         \A c \in Calls : pc'[c] \in {"verified", "resent"} =>
           pc'[c] = pc[c] /\ call'[c] = call[c]
  PROVE  ChallengesAreIssued' /\ Advances
<1>1. \A a \in Accounts : asked'[a] <= issued' /\ row'[a].challenge <= issued'
  <2> SUFFICES ASSUME NEW a \in Accounts
               PROVE  asked'[a] <= issued' /\ row'[a].challenge <= issued'
    OBVIOUS
  <2>1. asked[a] <= issued' /\ row[a].challenge <= issued' /\ 0 <= issued'
    BY DEF AdvanceInv, ChallengesAreIssued, ApartInv, TypeOK
  <2> QED
    BY <2>1
<1>2. ASSUME NEW c \in Calls
      PROVE  /\ call'[c].challenge <= issued' /\ call'[c].next <= issued'
             /\ pc'[c] = "verified" => call'[c].next = 0 \/ call'[c].next >= call'[c].challenge
             /\ pc'[c] = "resent" => call'[c].next > call'[c].challenge
  <2>1. /\ 0 <= issued' /\ call[c].challenge <= issued' /\ call[c].next <= issued'
        /\ \A a \in Accounts : row[a].challenge <= issued'
    BY DEF AdvanceInv, ChallengesAreIssued, ApartInv, TypeOK
  <2>2. call'[c].challenge <= issued' /\ call'[c].next <= issued'
    BY <2>1
  <2>3. /\ pc'[c] = "verified" => call'[c].next = 0 \/ call'[c].next >= call'[c].challenge
        /\ pc'[c] = "resent" => call'[c].next > call'[c].challenge
    BY DEF AdvanceInv, ChallengesAreIssued
  <2> QED
    BY <2>2, <2>3
<1>3. Advances
  BY DEF Advances, AdvanceInv, ApartInv, TypeOK
<1> QED
  BY <1>1, <1>2, <1>3 DEF ChallengesAreIssued

\* A commit of c, that stores what c has been asked next.
LEMMA CommitAdvances ==
  ASSUME AdvanceInv, NEW c \in Calls, NEW stored \in Rows, UNCHANGED <<issued, asked>>,
         Update(c, stored), stored.challenge = call[c].next, Others(c),
         pc'[c] \notin {"verified", "resent"},
         call'[c].challenge \in {call[c].next, 0}, call'[c].next \in {call[c].next, 0},
         \/ row[My(c)].challenge = 0 \/ call[c].next = 0
         \/ call[c].next >= row[My(c)].challenge
  PROVE  ChallengesAreIssued' /\ Advances
<1>t. TypeOK
  BY DEF AdvanceInv, ApartInv
<1>1. /\ row'[My(c)].challenge = call[c].next
      /\ \A a \in Accounts \ {My(c)} : row'[a] = row[a]
  <2>1. /\ row'[My(c)] = [stored EXCEPT !.revision = @ + 1]
        /\ \A a \in Accounts \ {My(c)} : row'[a] = row[a]
    BY <1>t, UpdateType
  <2> QED
    BY <2>1, NextRevision
<1>2. \A a \in Accounts : asked'[a] <= issued' /\ row'[a].challenge <= issued'
  BY <1>1 DEF AdvanceInv, ChallengesAreIssued
<1>3. ASSUME NEW d \in Calls
      PROVE  /\ call'[d].challenge <= issued' /\ call'[d].next <= issued'
             /\ pc'[d] = "verified" => call'[d].next = 0 \/ call'[d].next >= call'[d].challenge
             /\ pc'[d] = "resent" => call'[d].next > call'[d].challenge
  BY <1>t DEF AdvanceInv, ChallengesAreIssued, Others, TypeOK
<1>4. Advances
  BY <1>t, <1>1 DEF Advances, TypeOK
<1> QED
  BY <1>2, <1>3, <1>4 DEF ChallengesAreIssued

\* The server asks for a challenge, the newest or the one it waits for or none, and c
\* learns of it.
LEMMA AskingAdvances ==
  ASSUME AdvanceInv, NEW c \in Calls, NEW n \in Nat, NEW step \in {"created", "verified", "resent"},
         issued' \in Nat, issued' >= issued, n <= issued', UNCHANGED row,
         asked' = [asked EXCEPT ![My(c)] = n], Goto(c, step, [call[c] EXCEPT !.next = n]),
         step = "verified" => n = 0 \/ n >= call[c].challenge,
         step = "resent" => n > call[c].challenge
  PROVE  ChallengesAreIssued' /\ Advances
<1>t. TypeOK
  BY DEF AdvanceInv, ApartInv
<1> DEFINE state == [call[c] EXCEPT !.next = n]
<1>1. state.next = n /\ state.challenge = call[c].challenge
  BY <1>t, RowType DEF CallStates
<1> HIDE DEF state
<1>2. Others(c) /\ pc'[c] = step /\ call'[c] = state
  BY <1>t, GotoMoves DEF state
<1>3. \A a \in Accounts : asked'[a] <= issued' /\ row'[a].challenge <= issued'
  BY <1>t DEF AdvanceInv, ChallengesAreIssued, TypeOK
<1>4. ASSUME NEW d \in Calls
      PROVE  /\ call'[d].challenge <= issued' /\ call'[d].next <= issued'
             /\ pc'[d] = "verified" => call'[d].next = 0 \/ call'[d].next >= call'[d].challenge
             /\ pc'[d] = "resent" => call'[d].next > call'[d].challenge
  <2>1. CASE d = c
    BY <1>t, <1>1, <1>2, <2>1 DEF AdvanceInv, ChallengesAreIssued, TypeOK
  <2>2. CASE d # c
    BY <1>t, <1>2, <2>2 DEF AdvanceInv, ChallengesAreIssued, Others, TypeOK
  <2> QED
    BY <2>1, <2>2
<1>5. Advances
  BY <1>t DEF Advances, TypeOK
<1> QED
  BY <1>3, <1>4, <1>5 DEF ChallengesAreIssued

\* Every step stores issued challenges, and later ones only.
LEMMA AdvanceStep == AdvanceInv /\ [Next]_vars => AdvanceInv' /\ Advances
<1> SUFFICES ASSUME AdvanceInv, [Next]_vars PROVE ChallengesAreIssued' /\ Advances
  BY ApartStep DEF AdvanceInv
<1>t. TypeOK /\ ApartInv
  BY DEF AdvanceInv, ApartInv
<1>1. ASSUME NEW c \in Calls, NEW a \in Accounts,
             StartCreate(c, a) \/ StartVerify(c, a) \/ StartResend(c, a) \/ Resume(c, a)
      PROVE  ChallengesAreIssued' /\ Advances
  <2>1. UNCHANGED <<row, issued, asked>>
    BY <1>1 DEF StartCreate, Start, StartVerify, StartResend, Resume, server
  <2> DEFINE start(op) == [Blank(c) EXCEPT !.op = op, !.account = a]
  <2>2. \A op \in Operations :
          /\ start(op) \in CallStates /\ start(op).challenge = 0 /\ start(op).next = 0
          /\ Knowing(start(op), row[a]).challenge = row[a].challenge
          /\ Knowing(start(op), row[a]).next = 0
    <3> SUFFICES ASSUME NEW op \in Operations
                 PROVE  /\ start(op) \in CallStates /\ start(op).challenge = 0
                        /\ start(op).next = 0
                        /\ Knowing(start(op), row[a]).challenge = row[a].challenge
                        /\ Knowing(start(op), row[a]).next = 0
      OBVIOUS
    <3>1. start(op) \in CallStates /\ row[a] \in Rows
      BY <1>t, StartedType
    <3>2. start(op).challenge = 0 /\ start(op).next = 0
      BY DEF Blank
    <3> HIDE DEF start
    <3> QED
      BY <3>1, <3>2, KnowingFields
  <2> HIDE DEF start
  <2>3. /\ Others(c) /\ pc'[c] \notin {"verified", "resent"}
        /\ call'[c].next = 0 /\ call'[c].challenge \in {row[a].challenge, 0}
    <3>1. CASE StartCreate(c, a)
      <4>1. Goto(c, "lock", start("create"))
        BY <3>1 DEF StartCreate, Start, start
      <4> QED
        BY <1>t, <2>2, <4>1, GotoMoves DEF Operations
    <3>2. CASE StartVerify(c, a)
      <4>1. Goto(c, "verify", Knowing(start("verify"), row[a]))
        BY <3>2 DEF StartVerify, start
      <4> QED
        BY <1>t, <2>2, <4>1, GotoMoves DEF Operations
    <3>3. CASE StartResend(c, a)
      <4>1. Goto(c, "resend", Knowing(start("resend"), row[a]))
        BY <3>3 DEF StartResend, start
      <4> QED
        BY <1>t, <2>2, <4>1, GotoMoves DEF Operations
    <3>4. CASE Resume(c, a)
      <4>1. Raise(c) \/ Continue(c, Knowing(start("resume"), row[a]))
        BY <3>4 DEF Resume, start
      <4> QED
        BY <1>t, <2>2, <4>1, RaiseMoves, ContinueMoves DEF Operations
    <3> QED
      BY <1>1, <3>1, <3>2, <3>3, <3>4
  <2> QED
    BY <2>1, <2>3, NothingIssued DEF Others
<1>2. ASSUME NEW c \in Calls,
             \/ Acquire(c) \/ CreateReturns(c) \/ CreateUnknown(c) \/ CreateRaises(c)
             \/ Proceed(c) \/ Resolve(c) \/ VerifyRefused(c) \/ Complete(c)
             \/ ResendRefused(c) \/ GiveUp(c)
      PROVE  ChallengesAreIssued' /\ Advances
  <2>1. UNCHANGED <<row, issued, asked>>
    BY <1>2 DEF Acquire, CreateReturns, CreateUnknown, CreateRaises, Proceed, Resolve,
       VerifyRefused, Complete, ResendRefused, GiveUp, Store, server
  <2>2. \A seen : /\ [call[c] EXCEPT !.seen = seen].challenge = call[c].challenge
                  /\ [call[c] EXCEPT !.seen = seen].next = call[c].next
    BY <1>t, RowType DEF CallStates
  <2>3. /\ Others(c) /\ pc'[c] \notin {"verified", "resent"}
        /\ \/ call'[c].challenge = call[c].challenge /\ call'[c].next = call[c].next
           \/ call'[c].challenge = 0 /\ call'[c].next = 0
    <3>1. CASE Proceed(c)
      <4> DEFINE state == [call[c] EXCEPT !.seen = @ \cup {call[c].challenge}]
      <4>1. Return(c, "pending", call[c]) \/ Raise(c) \/ Goto(c, "resolve", state)
        BY <3>1 DEF Proceed
      <4>2. state.challenge = call[c].challenge /\ state.next = call[c].next
        BY <2>2
      <4> HIDE DEF state
      <4> QED
        BY <1>t, <4>1, <4>2, GotoMoves, RaiseMoves, ReturnMoves
    <3>2. CASE ~ Proceed(c)
      BY <1>t, <1>2, <3>2, GotoMoves, RaiseMoves, ReturnMoves
         DEF Acquire, CreateReturns, CreateUnknown, CreateRaises, Resolve,
             VerifyRefused, Complete, ResendRefused, GiveUp, Store
    <3> QED
      BY <3>1, <3>2
  <2>4. My(c) \in Accounts
    BY <1>t, RowType
  <2> QED
    BY <2>1, <2>3, <2>4, NothingIssued DEF Others
<1>3. ASSUME NEW c \in Calls, LoadAccount(c) PROVE ChallengesAreIssued' /\ Advances
  <2> DEFINE a == My(c)
             state == Knowing(call[c], row[a])
  <2>1. UNCHANGED <<row, issued, asked>> /\ a \in Accounts
    BY <1>t, <1>3, RowType DEF LoadAccount, Store, server
  <2>2. state.challenge = row[a].challenge /\ state.next = call[c].next
    BY <1>t, RowType, KnowingFields
  <2>3. Goto(c, "begin", call[c]) \/ Raise(c) \/ Continue(c, state)
    BY <1>3 DEF LoadAccount
  <2> HIDE DEF state
  <2>4. /\ Others(c) /\ pc'[c] \notin {"verified", "resent"}
        /\ \/ call'[c] = call[c]
           \/ call'[c].challenge = 0 /\ call'[c].next = 0
           \/ call'[c].challenge = row[a].challenge /\ call'[c].next = call[c].next
    BY <1>t, <2>2, <2>3, GotoMoves, RaiseMoves, ContinueMoves
  <2> QED
    BY <2>1, <2>4, NothingIssued DEF Others
<1>4. ASSUME NEW c \in Calls, BeginRegistration(c) PROVE ChallengesAreIssued' /\ Advances
  <2> DEFINE a == My(c)
             begun == [row[a] EXCEPT
               !.status = "provisioning", !.links = Uses[a], !.challenge = 0,
               !.revision = IF row[a].status = "none" THEN 0 ELSE @ + 1]
  <2>0. UNCHANGED <<issued, asked>> /\ a \in Accounts
    BY <1>4, <1>t, RowType DEF BeginRegistration, Store, server
  <2>1. CASE ~ MayBegin(a)
    BY <1>t, <1>4, <2>0, <2>1, NothingIssued, RaiseMoves DEF BeginRegistration, Others
  <2>2. CASE MayBegin(a)
    <3>1. row' = [row EXCEPT ![a] = begun] /\ Goto(c, "create", Knowing(call[c], begun))
      BY <1>4, <2>2 DEF BeginRegistration
    <3>2. begun.challenge = 0 /\ row'[a] = begun /\ \A b \in Accounts \ {a} : row'[b] = row[b]
      BY <1>t, <3>1, RowType DEF TypeOK, Rows
    <3> HIDE DEF begun
    <3>3. Others(c) /\ pc'[c] = "create" /\ call'[c] = Knowing(call[c], begun)
      BY <1>t, <3>1, GotoMoves
    <3>4. /\ Knowing(call[c], begun).challenge = 0
          /\ Knowing(call[c], begun).next = call[c].next
      BY <1>t, <3>2, RowType DEF Knowing, CallStates
    <3> QED
      BY <2>0, <3>2, <3>3, <3>4, NothingIssued DEF Others
  <2> QED
    BY <2>1, <2>2
<1>5. ASSUME NEW c \in Calls, NEW challenge \in 0..MaxChallenges, ServerCreates(c, challenge)
      PROVE  ChallengesAreIssued' /\ Advances
  <2>1. issued' \in Nat /\ issued' >= issued /\ challenge <= issued' /\ challenge \in Nat
    BY <1>t, <1>5 DEF ServerCreates, TypeOK
  <2>2. /\ UNCHANGED row /\ asked' = [asked EXCEPT ![My(c)] = challenge]
        /\ Goto(c, "created", [call[c] EXCEPT !.next = challenge])
    BY <1>5 DEF ServerCreates
  <2> QED
    BY <2>1, <2>2, AskingAdvances
<1>6. ASSUME NEW c \in Calls, RecordRemoteCreated(c) PROVE ChallengesAreIssued' /\ Advances
  <2> DEFINE a == My(c)
             stored == [row[My(c)] EXCEPT
               !.status = IF call[c].next = 0 THEN "active" ELSE "pending",
               !.challenge = call[c].next]
             state == Knowing(call[c], row'[a])
  <2>0. UNCHANGED <<issued, asked>> /\ a \in Accounts
    BY <1>6, <1>t, RowType DEF RecordRemoteCreated, Store, server
  <2>1. CASE ~ (Current(c) /\ row[My(c)].status = "provisioning")
    BY <1>t, <1>6, <2>0, <2>1, NothingIssued, RaiseMoves DEF RecordRemoteCreated, Others
  <2>2. CASE Current(c) /\ row[My(c)].status = "provisioning"
    <3>1. Update(c, stored) /\ Continue(c, state)
      BY <1>6, <2>2 DEF RecordRemoteCreated
    <3>2. stored \in Rows /\ stored.challenge = call[c].next
      BY <1>t, RowType DEF Rows, CallStates, Statuses
    <3>3. row[a].challenge = 0
      BY <1>t, <2>2, RowType DEF ApartInv, ChallengesArePending
    <3> HIDE DEF stored
    <3>4. row'[a] = [stored EXCEPT !.revision = @ + 1] /\ row'[a] \in Rows
      BY <1>t, <3>1, <3>2, UpdateType
    <3>5. row'[a].challenge = call[c].next
      BY <3>2, <3>4, NextRevision
    <3>6. state.challenge = call[c].next /\ state.next = call[c].next
      BY <1>t, <3>4, <3>5, RowType, KnowingFields
    <3> HIDE DEF state
    <3>7. Others(c) /\ pc'[c] \notin {"verified", "resent"} /\ call'[c] = state
      BY <1>t, <3>1, ContinueMoves
    <3> QED
      BY <2>0, <3>1, <3>2, <3>3, <3>6, <3>7, CommitAdvances
  <2> QED
    BY <2>1, <2>2
<1>7. ASSUME NEW c \in Calls, RecordRegistrationFailed(c) \/ RecordRegistrationUncertain(c)
      PROVE  ChallengesAreIssued' /\ Advances
  <2>1. UNCHANGED <<issued, asked>> /\ My(c) \in Accounts /\ pc[c] \in Owning
    BY <1>7, <1>t, RowType
       DEF RecordRegistrationFailed, RecordRegistrationUncertain, Store, server, Owning
  <2>2. /\ Others(c) /\ pc'[c] = "done" /\ call'[c].challenge = 0 /\ call'[c].next = 0
    BY <1>t, <1>7, RaiseMoves DEF RecordRegistrationFailed, RecordRegistrationUncertain
  <2>3. row[My(c)].challenge = 0
    BY <1>t, <2>1
       DEF ApartInv, AttemptsAreApart, RowsAreOwned, ChallengesArePending, Owning
  <2>4. \A a \in Accounts : row'[a] = row[a] \/ row'[a].challenge = 0
    <3>1. CASE UNCHANGED row
      BY <3>1
    <3>2. ASSUME NEW stored \in Rows, stored.challenge = 0, Update(c, stored)
          PROVE  \A a \in Accounts : row'[a] = row[a] \/ row'[a].challenge = 0
      <4>1. /\ row'[My(c)] = [stored EXCEPT !.revision = @ + 1]
            /\ \A a \in Accounts \ {My(c)} : row'[a] = row[a]
        BY <1>t, <3>2, UpdateType
      <4>2. [stored EXCEPT !.revision = @ + 1].challenge = stored.challenge
        BY <3>2, NextRevision
      <4> QED
        BY <3>2, <4>1, <4>2
    <3>3. \A a \in Accounts :
            /\ [row[My(c)] EXCEPT !.status = "failed", !.links = {}] \in Rows
            /\ [row[My(c)] EXCEPT !.status = "failed", !.links = {}].challenge = 0
            /\ [row[My(c)] EXCEPT !.status = "reconciliation"] \in Rows
            /\ [row[My(c)] EXCEPT !.status = "reconciliation"].challenge = 0
      BY <1>t, <2>3, RowType DEF Rows, Statuses
    <3> QED
      BY <1>7, <3>1, <3>2, <3>3 DEF RecordRegistrationFailed, RecordRegistrationUncertain
  <2> QED
    BY <2>1, <2>2, <2>4, NothingIssued DEF Others
<1>8. ASSUME NEW c \in Calls, NEW challenge \in 0..MaxChallenges, ServerVerifies(c, challenge)
      PROVE  ChallengesAreIssued' /\ Advances
  <2>1. asked[My(c)] = call[c].challenge /\ call[c].challenge <= issued
    BY <1>8 DEF ServerVerifies, AdvanceInv, ChallengesAreIssued
  <2>2. /\ issued' \in Nat /\ issued' >= issued /\ challenge <= issued' /\ challenge \in Nat
        /\ challenge = 0 \/ challenge >= call[c].challenge
    BY <1>t, <1>8, <2>1, RowType DEF ServerVerifies, TypeOK
  <2>3. /\ UNCHANGED row /\ asked' = [asked EXCEPT ![My(c)] = challenge]
        /\ Goto(c, "verified", [call[c] EXCEPT !.next = challenge])
    BY <1>8 DEF ServerVerifies
  <2> QED
    BY <2>2, <2>3, AskingAdvances
<1>9. ASSUME NEW c \in Calls, ServerResends(c) PROVE ChallengesAreIssued' /\ Advances
  <2>1. /\ issued' = issued + 1 /\ UNCHANGED row /\ asked' = [asked EXCEPT ![My(c)] = issued']
        /\ Goto(c, "resent", [call[c] EXCEPT !.next = issued'])
    BY <1>9 DEF ServerResends
  <2>2. issued \in Nat /\ call[c].challenge \in Nat /\ call[c].challenge <= issued
    BY <1>t DEF AdvanceInv, ChallengesAreIssued, TypeOK
  <2>3. issued' \in Nat /\ issued' >= issued /\ issued' > call[c].challenge
    BY <2>1, <2>2
  <2> DEFINE n == issued'
  <2>4. /\ n \in Nat /\ n <= issued' /\ n > call[c].challenge
        /\ asked' = [asked EXCEPT ![My(c)] = n]
        /\ Goto(c, "resent", [call[c] EXCEPT !.next = n])
    BY <2>1, <2>3
  <2> HIDE DEF n
  <2> QED
    BY <2>1, <2>3, <2>4, AskingAdvances
<1>10. ASSUME NEW c \in Calls, CommitVerification(c) PROVE ChallengesAreIssued' /\ Advances
  <2> DEFINE a == My(c)
             stored == [row[My(c)] EXCEPT
               !.status = IF call[c].next = 0 THEN "active" ELSE "pending",
               !.challenge = call[c].next]
             known == Knowing(call[c], row'[a])
             state == [known EXCEPT !.steps = @ + 1, !.seen = @ \cup {call[c].challenge}]
  <2>0. UNCHANGED <<issued, asked>> /\ a \in Accounts
    BY <1>10, <1>t, RowType DEF CommitVerification, Store, server
  <2>1. CASE ~ Unchanged(c)
    BY <1>t, <1>10, <2>0, <2>1, NothingIssued, RaiseMoves DEF CommitVerification, Others
  <2>2. CASE Unchanged(c)
    <3>1. Update(c, stored) /\ Continue(c, state)
      BY <1>10, <2>2 DEF CommitVerification
    <3>2. stored \in Rows /\ stored.challenge = call[c].next
      BY <1>t, RowType DEF Rows, CallStates, Statuses
    <3>3. call[c].next = 0 \/ call[c].next >= row[a].challenge
      BY <1>10, <2>2
         DEF CommitVerification, Store, Unchanged, AdvanceInv, ChallengesAreIssued
    <3> HIDE DEF stored
    <3>4. row'[a] = [stored EXCEPT !.revision = @ + 1] /\ row'[a] \in Rows
      BY <1>t, <3>1, <3>2, UpdateType
    <3>5. row'[a].challenge = call[c].next
      BY <3>2, <3>4, NextRevision
    <3>6. known.challenge = call[c].next /\ known.next = call[c].next /\ known \in CallStates
      BY <1>t, <3>4, <3>5, RowType, KnowingFields, KnowingType
    <3> HIDE DEF known
    <3>7. state.challenge = call[c].next /\ state.next = call[c].next
      BY <3>6 DEF CallStates
    <3> HIDE DEF state
    <3>8. Others(c) /\ pc'[c] \notin {"verified", "resent"} /\ call'[c] = state
      BY <1>t, <3>1, ContinueMoves
    <3> QED
      BY <2>0, <3>1, <3>2, <3>3, <3>7, <3>8, CommitAdvances
  <2> QED
    BY <2>1, <2>2
<1>11. ASSUME NEW c \in Calls, CommitResend(c) PROVE ChallengesAreIssued' /\ Advances
  <2> DEFINE a == My(c)
             stored == [row[My(c)] EXCEPT !.challenge = call[c].next]
  <2>0. UNCHANGED <<issued, asked>> /\ a \in Accounts
    BY <1>11, <1>t, RowType DEF CommitResend, Store, server
  <2>1. CASE ~ Unchanged(c)
    BY <1>t, <1>11, <2>0, <2>1, NothingIssued, RaiseMoves DEF CommitResend, Others
  <2>2. CASE Unchanged(c)
    <3>1. Update(c, stored) /\ Return(c, "pending", call[c])
      BY <1>11, <2>2 DEF CommitResend
    <3>2. stored \in Rows /\ stored.challenge = call[c].next
      BY <1>t, RowType DEF Rows, CallStates
    <3>3. call[c].next >= row[a].challenge
      <4>1. /\ call[c].next > call[c].challenge /\ row[a].challenge = call[c].challenge
        BY <1>11, <2>2 DEF CommitResend, Store, Unchanged, AdvanceInv, ChallengesAreIssued
      <4> QED
        BY <1>t, <4>1, RowType DEF CallStates
    <3>4. /\ Others(c) /\ pc'[c] = "done" /\ call'[c].challenge = 0 /\ call'[c].next = 0
      BY <1>t, <3>1, ReturnMoves
    <3> HIDE DEF stored
    <3> QED
      BY <2>0, <3>1, <3>2, <3>3, <3>4, CommitAdvances
  <2> QED
    BY <2>1, <2>2
<1>12. ASSUME NEW p \in Processes, Crash(p) PROVE ChallengesAreIssued' /\ Advances
  <2>1. UNCHANGED <<row, issued, asked>>
    BY <1>12 DEF Crash, server
  <2>2. ASSUME NEW c \in Calls
        PROVE  /\ \/ call'[c] = call[c]
                  \/ call'[c].challenge = 0 /\ call'[c].next = 0
               /\ pc'[c] \in {"verified", "resent"} => pc'[c] = pc[c] /\ call'[c] = call[c]
    BY <1>t, <1>12 DEF Crash, Blank, TypeOK
  <2>3. PICK a : a \in Accounts
    OBVIOUS
  <2> QED
    BY <2>1, <2>2, <2>3, NothingIssued
<1>13. CASE UNCHANGED vars
  BY <1>13, NothingIssued DEF vars, server
<1> QED
  BY <1>1, <1>2, <1>3, <1>4, <1>5, <1>6, <1>7, <1>8, <1>9, <1>10, <1>11, <1>12, <1>13
     DEF Next, Begin, Step

\* RegistrationFlow.ChallengesAdvance for every instance: a stored challenge is never
\* replaced by one the server issued before it.
THEOREM StoredChallengesAdvance == Spec => ChallengesAdvance
<1>1. Init => AdvanceInv
  BY ApartInit DEF Init, AdvanceInv, ChallengesAreIssued, Blank
<1>2. AdvanceInv /\ [Next]_vars =>
        AdvanceInv' /\ [\A a \in Accounts : row[a].challenge # 0 /\ row'[a].challenge # 0 =>
                          row'[a].challenge >= row[a].challenge]_vars
  BY AdvanceStep DEF Advances
<1> QED
  BY <1>1, <1>2, PTL DEF Spec, ChallengesAdvance
==============================================================================
