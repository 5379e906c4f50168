------------------------- MODULE CookieSessionProofs -------------------------
(***************************************************************************)
(* Proofs about CookieSession, for any calls, processes, crashes and       *)
(* answers of the site; and about the jar (CookieJar) it is kept in.       *)
(***************************************************************************)
EXTENDS CookieSession, CookieJar, FiniteSetTheorems, SequenceTheorems, WellFoundedInduction, TLAPS

USE CookieAssumption, NoOneAssumption

Jars == [sid : Nat, dev : BOOLEAN]
Answers == [status : {"none", "ok", "refused"}, sid : Nat]
Steps == {"resolve", "exchange", "exchanged", "save", "send", "sent", "answered", "renew",
          "ok", "failed"}

TypeOK ==
  /\ row \in [rev : Nat, jar : Jars, valid : BOOLEAN]
  /\ jar \in [Procs -> Jars] /\ seeded \in [Procs -> BOOLEAN] /\ known \in [Procs -> Nat]
  /\ lock \in [Procs -> Calls \cup {NoOne}]
  /\ alive \subseteq Nat /\ minted \in Nat
  /\ pc \in [Calls -> Steps]
  /\ rev \in [Calls -> Nat] /\ target \in [Calls -> Nat] /\ snapshot \in [Calls -> Jars]
  /\ carried \in [Calls -> Nat] /\ answer \in [Calls -> Answers] /\ budget \in [Calls -> Nat]
  /\ refused \in [Calls -> SUBSET Nat] /\ reused \in [Calls -> BOOLEAN] /\ crashes \in Nat

\* What a stored snapshot is poured into stays a jar.
LEMMA SeededType == ASSUME TypeOK, NEW p \in Procs PROVE Seeded(p) \in Jars
<1>1. \A j \in Jars, snap \in Jars : Poured(j, snap) \in Jars
  BY DEF Poured, Jars
<1> QED
  BY <1>1 DEF Seeded, TypeOK

\* So does what a call does with a jar when it loads the session.
LEMMA LoadType ==
  ASSUME TypeOK, NEW c \in Calls, NEW step, Load(c, step)
  PROVE  /\ jar' \in [Procs -> Jars] /\ seeded' \in [Procs -> BOOLEAN]
         /\ known' \in [Procs -> Nat]
<1>1. Owner[c] \in Procs /\ Seeded(Owner[c]) \in Jars
  BY SeededType
<1>2. Larger(known[Owner[c]], row.rev) \in Nat
  BY <1>1 DEF TypeOK, Larger
<1>3. /\ jar' = [jar EXCEPT ![Owner[c]] = Seeded(Owner[c])]
      /\ seeded' = [seeded EXCEPT ![Owner[c]] = seeded[Owner[c]] \/ row.rev # 0]
      /\ known' = [known EXCEPT ![Owner[c]] = Larger(known[Owner[c]], row.rev)]
  BY DEF Load
<1> QED
  BY <1>1, <1>2, <1>3 DEF TypeOK

\* Every step keeps the types.
LEMMA TypeStep == TypeOK /\ [Next]_vars => TypeOK'
<1> SUFFICES ASSUME TypeOK, [Next]_vars PROVE TypeOK'
  OBVIOUS
<1> USE DEF store, process, site, attempt, history
<1>1. ASSUME NEW c \in Calls, ReuseStored(c) PROVE TypeOK'
  <2>1. jar' \in [Procs -> Jars] /\ seeded' \in [Procs -> BOOLEAN] /\ known' \in [Procs -> Nat]
    BY <1>1, LoadType DEF ReuseStored
  <2> QED
    BY <1>1, <2>1 DEF ReuseStored, TypeOK, Goto, Steps
<1>2. ASSUME NEW c \in Calls, ExchangeStored(c) \/ Renew(c) PROVE TypeOK'
  <2>1. jar' \in [Procs -> Jars] /\ seeded' \in [Procs -> BOOLEAN] /\ known' \in [Procs -> Nat]
    BY <1>2, LoadType DEF ExchangeStored, Renew
  <2>2. rev' \in [Calls -> Nat]
    BY <1>2 DEF ExchangeStored, Renew, TypeOK
  <2>3. BeginExchange(c)
    BY <1>2 DEF ExchangeStored, Renew
  <2> QED
    BY <2>1, <2>2, <2>3 DEF BeginExchange, Take, TypeOK, Goto, Steps
<1>3. ASSUME NEW c \in Calls, RenewReuses(c) PROVE TypeOK'
  <2>1. jar' \in [Procs -> Jars] /\ seeded' \in [Procs -> BOOLEAN] /\ known' \in [Procs -> Nat]
    BY <1>3, LoadType DEF RenewReuses
  <2> QED
    BY <1>3, <2>1 DEF RenewReuses, TypeOK, Goto, Steps
<1>4. ASSUME NEW c \in Calls, Exchanged(c) PROVE TypeOK'
  <2>1. minted' \in Nat /\ [sid |-> minted', dev |-> TRUE] \in Jars
    BY <1>4 DEF Exchanged, TypeOK, Jars
  <2>2. jar' \in [Procs -> Jars] /\ alive' \subseteq Nat
    BY <1>4, <2>1 DEF Exchanged, TypeOK
  <2> QED
    BY <1>4, <2>1, <2>2 DEF Exchanged, TypeOK, Goto, Steps
<1>5. ASSUME NEW c \in Calls, ExchangeEnds(c) PROVE TypeOK'
  <2>1. snapshot' \in [Calls -> Jars] /\ known' \in [Procs -> Nat]
    BY <1>5 DEF ExchangeEnds, TypeOK, Larger
  <2> QED
    BY <1>5, <2>1 DEF ExchangeEnds, TypeOK, Goto, Steps
<1>6. ASSUME NEW c \in Calls, ExchangeFails(c) PROVE TypeOK'
  BY <1>6 DEF ExchangeFails, EndAttempts, Release, TypeOK, Goto, Steps
<1>7. ASSUME NEW c \in Calls, Save(c) PROVE TypeOK'
  <2>1. /\ lock' \in [Procs -> Calls \cup {NoOne}] /\ pc' \in [Calls -> Steps]
        /\ target' \in [Calls -> Nat] /\ snapshot' \in [Calls -> Jars]
    BY <1>7 DEF Save, Release, TypeOK, Goto, Steps, EmptyJar, Jars
  <2>2. /\ row' \in [rev : Nat, jar : Jars, valid : BOOLEAN] /\ rev' \in [Calls -> Nat]
        /\ budget' \in [Calls -> Nat] /\ refused' \in [Calls -> SUBSET Nat]
        /\ reused' \in [Calls -> BOOLEAN]
    <3>1. CASE /\ row' = [rev |-> target[c], jar |-> snapshot[c], valid |-> TRUE]
               /\ rev' = [rev EXCEPT ![c] = target[c]] \/ UNCHANGED rev
               /\ UNCHANGED <<budget, refused, reused>>
      BY <3>1 DEF TypeOK
    <3>2. CASE EndAttempts(c) /\ UNCHANGED row
      BY <3>2 DEF EndAttempts, TypeOK
    <3> QED
      BY <1>7, <3>1, <3>2 DEF Save
  <2> QED
    BY <1>7, <2>1, <2>2 DEF Save, TypeOK
<1>8. ASSUME NEW c \in Calls, Send(c) PROVE TypeOK'
  BY <1>8 DEF Send, TypeOK, Goto, Steps, Jars
<1>9. ASSUME NEW c \in Calls, Accept(c) PROVE TypeOK'
  <2>1. minted' \in Nat /\ alive' \subseteq Nat /\ UNCHANGED <<refused, reused>>
    <3>1. minted + 1 \in Nat /\ alive \subseteq Nat
      BY DEF TypeOK
    <3>2. \/ UNCHANGED <<site, refused, reused>>
          \/ /\ minted' = minted + 1 /\ alive' = (alive \ {carried[c]}) \cup {minted'}
             /\ UNCHANGED <<refused, reused>>
      BY <1>9, Zenon DEF Accept
    <3>3. CASE UNCHANGED <<site, refused, reused>>
      BY <3>3 DEF TypeOK
    <3> QED
      BY <3>1, <3>2, <3>3 DEF TypeOK
  <2>2. PICK sid \in Nat : Answer(c, "ok", sid)
    BY <1>9, <2>1 DEF Accept, TypeOK
  <2> QED
    BY <2>1, <2>2 DEF Answer, TypeOK, Goto, Steps, Answers
<1>10. ASSUME NEW c \in Calls, Refuse(c) PROVE TypeOK'
  <2>1. refused' \in [Calls -> SUBSET Nat] /\ UNCHANGED <<site, reused>>
    BY <1>10 DEF Refuse, TypeOK
  <2>2. PICK sid \in Nat : Answer(c, "refused", sid)
    BY <1>10 DEF Refuse, TypeOK
  <2> QED
    BY <2>1, <2>2 DEF Answer, TypeOK, Goto, Steps, Answers
<1>11. ASSUME NEW c \in Calls, Arrive(c) PROVE TypeOK'
  <2>1. jar' \in [Procs -> Jars]
    <3> DEFINE sid == IF answer[c].sid = carried[c] THEN jar[Owner[c]].sid ELSE answer[c].sid
    <3>1. sid \in Nat
      BY DEF TypeOK, Jars, Answers
    <3>2. jar' = [jar EXCEPT ![Owner[c]].sid = sid]
      BY <1>11 DEF Arrive
    <3> HIDE DEF sid
    <3>3. Owner[c] \in Procs /\ jar[Owner[c]] \in Jars /\ jar \in [Procs -> Jars]
      BY DEF TypeOK
    <3>4. [jar[Owner[c]] EXCEPT !.sid = sid] \in Jars
      BY <3>1, <3>3 DEF Jars
    <3>5. jar' = [jar EXCEPT ![Owner[c]] = [jar[Owner[c]] EXCEPT !.sid = sid]]
      BY <3>2, <3>3
    <3> QED
      BY <3>3, <3>4, <3>5
  <2>2. /\ answer' \in [Calls -> Answers] /\ carried' \in [Calls -> Nat]
        /\ pc' \in [Calls -> Steps]
    BY <1>11 DEF Arrive, TypeOK, Silence, Answers, Goto, Steps
  <2>3. /\ rev' \in [Calls -> Nat] /\ budget' \in [Calls -> Nat]
        /\ refused' \in [Calls -> SUBSET Nat] /\ reused' \in [Calls -> BOOLEAN]
    <3>1. CASE EndAttempts(c)
      BY <3>1 DEF EndAttempts, TypeOK
    <3>2. CASE /\ budget[c] > 0 /\ budget' = [budget EXCEPT ![c] = @ - 1]
               /\ UNCHANGED <<rev, refused, reused>>
      <4>1. budget[c] - 1 \in Nat
        BY <3>2 DEF TypeOK
      <4> QED
        BY <3>2, <4>1 DEF TypeOK
    <3> QED
      BY <1>11, <3>1, <3>2 DEF Arrive
  <2> QED
    BY <1>11, <2>1, <2>2, <2>3 DEF Arrive, TypeOK
<1>12. CASE Expire \/ Forget
  <2>1. CASE Expire
    BY <2>1 DEF Expire, TypeOK
  <2>2. CASE Forget
    BY <2>2 DEF Forget, TypeOK
  <2> QED
    BY <1>12, <2>1, <2>2
<1>13. ASSUME NEW p \in Procs, Crash(p) PROVE TypeOK'
  <2>1. /\ jar' \in [Procs -> Jars] /\ seeded' \in [Procs -> BOOLEAN] /\ known' \in [Procs -> Nat]
        /\ lock' \in [Procs -> Calls \cup {NoOne}] /\ crashes' \in Nat
    BY <1>13 DEF Crash, TypeOK, EmptyJar, Jars
  <2>2. /\ pc' \in [Calls -> Steps] /\ rev' \in [Calls -> Nat] /\ target' \in [Calls -> Nat]
        /\ carried' \in [Calls -> Nat] /\ budget' \in [Calls -> Nat]
    BY <1>13 DEF Crash, TypeOK, Steps
  <2>3. /\ snapshot' \in [Calls -> Jars] /\ answer' \in [Calls -> Answers]
    BY <1>13 DEF Crash, TypeOK, EmptyJar, Jars, Silence, Answers
  <2>4. refused' \in [Calls -> SUBSET Nat] /\ reused' \in [Calls -> BOOLEAN]
    BY <1>13 DEF Crash, TypeOK
  <2> QED
    BY <1>13, <2>1, <2>2, <2>3, <2>4 DEF Crash, TypeOK
<1>14. CASE UNCHANGED vars
  BY <1>14 DEF TypeOK, vars
<1> QED
  BY <1>1, <1>2, <1>3, <1>4, <1>5, <1>6, <1>7, <1>8, <1>9, <1>10, <1>11, <1>12, <1>13, <1>14
     DEF Next, Step

\* The initial states have the types.
LEMMA TypeInit == Init => TypeOK
  BY DEF Init, TypeOK, NoRow, EmptyJar, Jars, Silence, Answers, Steps

\* Every value of the model has its type in every reachable state.
THEOREM TypeCorrect == Spec => []TypeOK
  BY TypeInit, TypeStep, PTL DEF Spec
------------------------------------------------------------------------------
(***************************************************************************)
(* What is saved is complete                                               *)
(***************************************************************************)

\* What a save is about to write has the required cookie, and so does the row.
SavesAreComplete ==
  /\ SavedIsComplete
  /\ \A c \in Calls : pc[c] = "save" => snapshot[c].sid # 0

CompleteInv == TypeOK /\ SavesAreComplete

\* Every step keeps what is saved complete.
LEMMA CompleteStep == CompleteInv /\ [Next]_vars => CompleteInv'
<1> SUFFICES ASSUME CompleteInv, [Next]_vars PROVE SavesAreComplete'
  BY TypeStep DEF CompleteInv
<1> USE DEF CompleteInv, SavesAreComplete, SavedIsComplete, TypeOK, Goto,
            store, process, site, attempt, history
<1>q. ASSUME UNCHANGED row,
             \A c \in Calls : pc'[c] = "save" => pc[c] = "save" /\ snapshot'[c] = snapshot[c]
      PROVE  SavesAreComplete'
  BY <1>q
<1>1. ASSUME NEW c \in Calls, ReuseStored(c) \/ RenewReuses(c) PROVE SavesAreComplete'
  BY <1>1, <1>q DEF ReuseStored, RenewReuses
<1>2. ASSUME NEW c \in Calls, ExchangeStored(c) \/ Renew(c) PROVE SavesAreComplete'
  BY <1>2, <1>q DEF ExchangeStored, Renew, BeginExchange
<1>3. ASSUME NEW c \in Calls, Exchanged(c) \/ ExchangeFails(c) PROVE SavesAreComplete'
  BY <1>3, <1>q DEF Exchanged, ExchangeFails
<1>4. ASSUME NEW c \in Calls, ExchangeEnds(c) PROVE SavesAreComplete'
  BY <1>4 DEF ExchangeEnds
<1>5. ASSUME NEW c \in Calls, Save(c) PROVE SavesAreComplete'
  <2>1. \A d \in Calls : pc'[d] = "save" => pc[d] = "save" /\ d # c
    BY <1>5 DEF Save
  <2>2. \A d \in Calls \ {c} : snapshot'[d] = snapshot[d]
    BY <1>5 DEF Save
  <2>3. row' = row \/ row'.jar = snapshot[c]
    BY <1>5 DEF Save
  <2>4. snapshot[c].sid # 0
    BY <1>5 DEF Save
  <2> QED
    BY <2>1, <2>2, <2>3, <2>4
<1>6. ASSUME NEW c \in Calls, Send(c) \/ Accept(c) \/ Refuse(c) PROVE SavesAreComplete'
  BY <1>6, <1>q DEF Send, Accept, Refuse, Answer
<1>7. ASSUME NEW c \in Calls, Arrive(c) PROVE SavesAreComplete'
  BY <1>7, <1>q DEF Arrive
<1>8. CASE Expire
  BY <1>8 DEF Expire
<1>9. CASE Forget
  BY <1>9, <1>q DEF Forget
<1>10. ASSUME NEW p \in Procs, Crash(p) PROVE SavesAreComplete'
  BY <1>10, <1>q DEF Crash
<1>11. CASE UNCHANGED vars
  BY <1>11, <1>q DEF vars
<1> QED
  BY <1>1, <1>2, <1>3, <1>4, <1>5, <1>6, <1>7, <1>8, <1>9, <1>10, <1>11 DEF Next, Step

\* CookieSession.SavedIsComplete for every instance: a stored session has its required
\* cookie, although answers of other calls change the jar while it is exchanged.
THEOREM StoredIsComplete == Spec => []SavedIsComplete
<1>1. Init => CompleteInv
  BY TypeInit DEF Init, CompleteInv, SavesAreComplete, SavedIsComplete, NoRow
<1>2. CompleteInv => SavedIsComplete
  BY DEF CompleteInv, SavesAreComplete
<1> QED
  BY <1>1, <1>2, CompleteStep, PTL DEF Spec
------------------------------------------------------------------------------
(***************************************************************************)
(* The device is remembered                                                *)
(***************************************************************************)
\* An exchange is under its lifecycle's lock.
ExchangesAreLocked ==
  \A c \in Calls : pc[c] \in {"exchange", "exchanged", "save"} =>
    lock[Owner[c]] = c /\ target[c] # 0

\* A process knows of no revision while there is no row, but for the one it is saving.
NothingIsKnown ==
  row.rev = 0 => \A p \in Procs :
    known[p] = 0 \/ \E c \in Calls : Owner[c] = p /\ pc[c] = "save"

\* Where the device cookie is.
DeviceIsKept ==
  /\ row.rev # 0 => row.jar.dev
  /\ \A p \in Procs : seeded[p] => jar[p].dev
  /\ \A c \in Calls :
       /\ pc[c] = "exchange" => target[c] = 1 \/ jar[Owner[c]].dev
       /\ pc[c] = "exchanged" => jar[Owner[c]].dev
       /\ pc[c] = "save" => snapshot[c].dev

DeviceInv == TypeOK /\ ExchangesAreLocked /\ NothingIsKnown /\ DeviceIsKept

\* A load under a free lock: nothing is under way in the process, and the device cookie
\* of a stored session is in its jar.
LEMMA DeviceLoads ==
  ASSUME DeviceInv, NEW c \in Calls, NEW step, Load(c, step)
  PROVE  /\ row.rev = 0 => known[Owner[c]] = 0
         /\ row.rev # 0 => jar'[Owner[c]].dev
         /\ \A p \in Procs : /\ seeded'[p] => jar'[p].dev
                             /\ jar[p].dev => jar'[p].dev
         /\ \A p \in Procs : known'[p] = known[p] \/ row.rev # 0
         /\ \A d \in Calls : Owner[d] = Owner[c] =>
              pc[d] \notin {"exchange", "exchanged", "save"}
<1> DEFINE p == Owner[c]
<1>0. p \in Procs /\ row.rev \in Nat /\ known[p] \in Nat
  BY DEF DeviceInv, TypeOK
<1>1. \A d \in Calls : Owner[d] = p => pc[d] \notin {"exchange", "exchanged", "save"}
  BY DEF Load, Free, DeviceInv, ExchangesAreLocked
<1>2. row.rev = 0 => known[p] = 0
  BY <1>0, <1>1 DEF DeviceInv, NothingIsKnown
<1>3. /\ jar[p].dev => Seeded(p).dev
      /\ row.rev # 0 => Seeded(p).dev
      /\ seeded[p] => Seeded(p).dev
  BY <1>0 DEF Seeded, Poured, DeviceInv, DeviceIsKept
<1>4. /\ jar'[p] = Seeded(p) /\ \A q \in Procs \ {p} : jar'[q] = jar[q]
      /\ seeded'[p] = (seeded[p] \/ row.rev # 0)
      /\ \A q \in Procs \ {p} : seeded'[q] = seeded[q] /\ known'[q] = known[q]
      /\ known'[p] = Larger(known[p], row.rev)
  BY <1>0 DEF Load, DeviceInv, TypeOK
<1>5. row.rev = 0 => known'[p] = known[p]
  BY <1>0, <1>4 DEF Larger
<1>6. \A q \in Procs : seeded[q] => jar[q].dev
  BY DEF DeviceInv, DeviceIsKept
<1>7. row.rev # 0 => jar'[p].dev
  BY <1>3, <1>4
<1>8. ASSUME NEW q \in Procs
      PROVE  (seeded'[q] => jar'[q].dev) /\ (jar[q].dev => jar'[q].dev)
  BY <1>3, <1>4, <1>6
<1>9. \A q \in Procs : known'[q] = known[q] \/ row.rev # 0
  BY <1>4, <1>5
<1> QED
  BY <1>1, <1>2, <1>7, <1>8, <1>9

\* A step that begins no exchange, and lets no save end, loses no device cookie.
LEMMA DeviceQuiet ==
  ASSUME DeviceInv, row'.rev = row.rev, row'.jar = row.jar,
         \A p \in Procs : /\ seeded'[p] => seeded[p] \/ jar'[p].dev
                          /\ jar[p].dev => jar'[p].dev
                          /\ known'[p] = known[p] \/ row.rev # 0,
         UNCHANGED <<lock, target, snapshot>>,
         \A c \in Calls : pc'[c] = pc[c] \/ {pc'[c], pc[c]} \cap {"exchange", "exchanged", "save"} = {}
  PROVE  ExchangesAreLocked' /\ NothingIsKnown' /\ DeviceIsKept'
<1>1. \A c \in Calls : pc'[c] \in {"exchange", "exchanged", "save"} => pc'[c] = pc[c]
  OBVIOUS
<1>2. \A c \in Calls : pc[c] = "save" => pc'[c] = "save"
  OBVIOUS
<1>3. ExchangesAreLocked'
  BY <1>1 DEF DeviceInv, ExchangesAreLocked
<1>4. NothingIsKnown'
  BY <1>2 DEF DeviceInv, NothingIsKnown
<1>5. DeviceIsKept'
  <2>1. \A p \in Procs : seeded'[p] => jar'[p].dev
    BY DEF DeviceInv, DeviceIsKept
  <2>2. row'.rev # 0 => row'.jar.dev
    BY DEF DeviceInv, DeviceIsKept
  <2> QED
    BY <1>1, <2>1, <2>2 DEF DeviceInv, DeviceIsKept
<1> QED
  BY <1>3, <1>4, <1>5

\* Every step keeps the device.
LEMMA DeviceStep == DeviceInv /\ [Next]_vars => DeviceInv'
<1> SUFFICES ASSUME DeviceInv, [Next]_vars
             PROVE  ExchangesAreLocked' /\ NothingIsKnown' /\ DeviceIsKept'
  BY TypeStep DEF DeviceInv
<1>t. TypeOK
  BY DEF DeviceInv
<1> USE DEF store, process, site, attempt, history, Goto
<1>1. ASSUME NEW c \in Calls, ReuseStored(c) \/ RenewReuses(c)
      PROVE  ExchangesAreLocked' /\ NothingIsKnown' /\ DeviceIsKept'
  <2>1. PICK step \in {"resolve", "renew"} : Load(c, step)
    BY <1>1 DEF ReuseStored, RenewReuses
  <2>2. /\ UNCHANGED <<row, lock, target, snapshot>>
        /\ \A d \in Calls : pc'[d] = pc[d]
                            \/ {pc'[d], pc[d]} \cap {"exchange", "exchanged", "save"} = {}
    BY <1>1, <2>1, <1>t DEF ReuseStored, RenewReuses, Load, TypeOK
  <2> QED
    BY <2>1, <2>2, DeviceLoads, DeviceQuiet
<1>2. ASSUME NEW c \in Calls, ExchangeStored(c) \/ Renew(c)
      PROVE  ExchangesAreLocked' /\ NothingIsKnown' /\ DeviceIsKept'
  <2> DEFINE p == Owner[c]
             revision == IF row.rev # 0 THEN row.rev ELSE known[p]
  <2>1. PICK step : Load(c, step)
    BY <1>2 DEF ExchangeStored, Renew
  <2>2. BeginExchange(c)
    BY <1>2 DEF ExchangeStored, Renew
  <2>3. /\ pc'[c] = "exchange" /\ \A d \in Calls \ {c} : pc'[d] = pc[d]
        /\ lock'[p] = c /\ \A q \in Procs \ {p} : lock'[q] = lock[q]
        /\ target'[c] = revision + 1 /\ \A d \in Calls \ {c} : target'[d] = target[d]
        /\ UNCHANGED <<row, snapshot>> /\ revision \in Nat
    BY <1>t, <2>2 DEF BeginExchange, Take, TypeOK
  <2>4. /\ row.rev = 0 => revision = 0
        /\ \A d \in Calls : Owner[d] = p => pc[d] \notin {"exchange", "exchanged", "save"}
    BY <2>1, DeviceLoads
  <2>5. ExchangesAreLocked'
    <3> SUFFICES ASSUME NEW d \in Calls, pc'[d] \in {"exchange", "exchanged", "save"}
                 PROVE  lock'[Owner[d]] = d /\ target'[d] # 0
      BY DEF ExchangesAreLocked
    <3>1. CASE d = c
      BY <2>3, <3>1
    <3>2. CASE d # c
      BY <2>3, <2>4, <3>2 DEF DeviceInv, ExchangesAreLocked
    <3> QED
      BY <3>1, <3>2
  <2>6. NothingIsKnown'
    <3> SUFFICES ASSUME row.rev = 0, NEW q \in Procs
                 PROVE  known'[q] = 0 \/ \E d \in Calls : Owner[d] = q /\ pc'[d] = "save"
      BY <2>3 DEF NothingIsKnown
    <3>1. known'[q] = known[q]
      BY <2>1, DeviceLoads
    <3>2. known[q] = 0 \/ \E d \in Calls : Owner[d] = q /\ pc[d] = "save"
      BY DEF DeviceInv, NothingIsKnown
    <3>3. \A d \in Calls : pc[d] = "save" => d # c
      BY <2>4
    <3> QED
      BY <2>3, <3>1, <3>2, <3>3
  <2>7. DeviceIsKept'
    <3>1. row.rev # 0 => jar'[p].dev
      BY <2>1, DeviceLoads
    <3>2. /\ \A q \in Procs : seeded'[q] => jar'[q].dev
          /\ \A q \in Procs : jar[q].dev => jar'[q].dev
      BY <2>1, DeviceLoads
    <3>3. ASSUME NEW d \in Calls
          PROVE  /\ pc'[d] = "exchange" => target'[d] = 1 \/ jar'[Owner[d]].dev
                 /\ pc'[d] = "exchanged" => jar'[Owner[d]].dev
                 /\ pc'[d] = "save" => snapshot'[d].dev
      <4>1. CASE d = c
        BY <2>3, <2>4, <3>1, <4>1
      <4>2. CASE d # c
        BY <2>3, <3>2, <4>2 DEF DeviceInv, DeviceIsKept
      <4> QED
        BY <4>1, <4>2
    <3> QED
      BY <2>3, <3>2, <3>3 DEF DeviceInv, DeviceIsKept
  <2> QED
    BY <2>5, <2>6, <2>7
<1>3. ASSUME NEW c \in Calls, Exchanged(c)
      PROVE  ExchangesAreLocked' /\ NothingIsKnown' /\ DeviceIsKept'
  <2>1. /\ pc[c] = "exchange" /\ pc'[c] = "exchanged" /\ \A d \in Calls \ {c} : pc'[d] = pc[d]
        /\ UNCHANGED <<row, seeded, known, lock, target, snapshot>>
        /\ jar'[Owner[c]].dev /\ \A q \in Procs \ {Owner[c]} : jar'[q] = jar[q]
    BY <1>t, <1>3 DEF Exchanged, TypeOK
  <2>2. \A q \in Procs : jar[q].dev => jar'[q].dev
    BY <2>1
  <2>3. ExchangesAreLocked' /\ NothingIsKnown'
    BY <2>1 DEF DeviceInv, ExchangesAreLocked, NothingIsKnown
  <2>4. DeviceIsKept'
    BY <2>1, <2>2 DEF DeviceInv, DeviceIsKept
  <2> QED
    BY <2>3, <2>4
<1>4. ASSUME NEW c \in Calls, ExchangeEnds(c)
      PROVE  ExchangesAreLocked' /\ NothingIsKnown' /\ DeviceIsKept'
  <2>1. /\ pc[c] = "exchanged" /\ pc'[c] = "save" /\ \A d \in Calls \ {c} : pc'[d] = pc[d]
        /\ UNCHANGED <<row, jar, seeded, lock, target>>
        /\ \A q \in Procs \ {Owner[c]} : known'[q] = known[q]
        /\ snapshot'[c] = jar[Owner[c]] /\ \A d \in Calls \ {c} : snapshot'[d] = snapshot[d]
    BY <1>t, <1>4 DEF ExchangeEnds, TypeOK
  <2>2. ExchangesAreLocked'
    BY <2>1 DEF DeviceInv, ExchangesAreLocked
  <2>3. NothingIsKnown'
    <3> SUFFICES ASSUME row.rev = 0, NEW q \in Procs
                 PROVE  known'[q] = 0 \/ \E d \in Calls : Owner[d] = q /\ pc'[d] = "save"
      BY <2>1 DEF NothingIsKnown
    <3>1. CASE q = Owner[c]
      BY <2>1, <3>1
    <3>2. CASE q # Owner[c]
      BY <2>1, <3>2 DEF DeviceInv, NothingIsKnown
    <3> QED
      BY <3>1, <3>2
  <2>4. DeviceIsKept'
    BY <2>1 DEF DeviceInv, DeviceIsKept
  <2> QED
    BY <2>2, <2>3, <2>4
<1>5. ASSUME NEW c \in Calls, ExchangeFails(c)
      PROVE  ExchangesAreLocked' /\ NothingIsKnown' /\ DeviceIsKept'
  <2>1. /\ pc[c] \in {"exchange", "exchanged"} /\ pc'[c] = "failed"
        /\ \A d \in Calls \ {c} : pc'[d] = pc[d] /\ target'[d] = target[d]
        /\ \A q \in Procs \ {Owner[c]} : lock'[q] = lock[q]
        /\ UNCHANGED <<row, jar, seeded, known, snapshot>>
    BY <1>t, <1>5 DEF ExchangeFails, Release, TypeOK
  <2>2. \A d \in Calls \ {c} : Owner[d] = Owner[c] =>
          pc[d] \notin {"exchange", "exchanged", "save"}
    BY <2>1 DEF DeviceInv, ExchangesAreLocked
  <2>3. ExchangesAreLocked'
    BY <2>1, <2>2 DEF DeviceInv, ExchangesAreLocked
  <2>4. NothingIsKnown'
    BY <2>1 DEF DeviceInv, NothingIsKnown
  <2>5. DeviceIsKept'
    BY <2>1 DEF DeviceInv, DeviceIsKept
  <2> QED
    BY <2>3, <2>4, <2>5
<1>6. ASSUME NEW c \in Calls, Save(c)
      PROVE  ExchangesAreLocked' /\ NothingIsKnown' /\ DeviceIsKept'
  <2>1. /\ pc[c] = "save" /\ pc'[c] \notin {"exchange", "exchanged", "save"}
        /\ \A d \in Calls \ {c} : /\ pc'[d] = pc[d] /\ target'[d] = target[d]
                                  /\ snapshot'[d] = snapshot[d]
        /\ \A q \in Procs \ {Owner[c]} : lock'[q] = lock[q]
        /\ UNCHANGED <<jar, seeded, known>>
        /\ \/ row'.rev = target[c] /\ row'.jar = snapshot[c]
           \/ UNCHANGED row /\ row.rev # 0
    BY <1>t, <1>6 DEF Save, Release, TypeOK
  <2>2. \A d \in Calls \ {c} : Owner[d] = Owner[c] =>
          pc[d] \notin {"exchange", "exchanged", "save"}
    BY <2>1 DEF DeviceInv, ExchangesAreLocked
  <2>3. ExchangesAreLocked'
    BY <2>1, <2>2 DEF DeviceInv, ExchangesAreLocked
  <2>4. row'.rev # 0 /\ row'.jar.dev
    BY <2>1 DEF DeviceInv, ExchangesAreLocked, DeviceIsKept
  <2>5. NothingIsKnown'
    BY <2>4 DEF NothingIsKnown
  <2>6. DeviceIsKept'
    BY <2>1, <2>4 DEF DeviceInv, DeviceIsKept
  <2> QED
    BY <2>3, <2>5, <2>6
<1>7. ASSUME NEW c \in Calls, Send(c) \/ Accept(c) \/ Refuse(c)
      PROVE  ExchangesAreLocked' /\ NothingIsKnown' /\ DeviceIsKept'
  <2>1. UNCHANGED <<row, jar, seeded, known, lock, target, snapshot>>
    BY <1>7 DEF Send, Accept, Refuse, Answer
  <2>2. \A d \in Calls : pc'[d] = pc[d]
                         \/ {pc'[d], pc[d]} \cap {"exchange", "exchanged", "save"} = {}
    BY <1>t, <1>7 DEF Send, Accept, Refuse, Answer, TypeOK
  <2> QED
    BY <2>1, <2>2, DeviceQuiet
<1>8. ASSUME NEW c \in Calls, Arrive(c)
      PROVE  ExchangesAreLocked' /\ NothingIsKnown' /\ DeviceIsKept'
  <2>1. UNCHANGED <<row, seeded, known, lock, target, snapshot>>
    BY <1>8 DEF Arrive
  <2>2. \A d \in Calls : pc'[d] = pc[d]
                         \/ {pc'[d], pc[d]} \cap {"exchange", "exchanged", "save"} = {}
    BY <1>t, <1>8 DEF Arrive, TypeOK
  <2>3. \A p \in Procs : jar'[p].dev = jar[p].dev
    BY <1>t, <1>8 DEF Arrive, TypeOK, Jars
  <2> QED
    BY <2>1, <2>2, <2>3, DeviceQuiet
<1>9. CASE Expire \/ Forget
  <2>1. row'.rev = row.rev /\ row'.jar = row.jar
    BY <1>t, <1>9 DEF Expire, Forget, TypeOK
  <2>2. UNCHANGED <<jar, seeded, known, lock, target, snapshot, pc>>
    BY <1>9 DEF Expire, Forget
  <2> QED
    BY <2>1, <2>2, DeviceQuiet
<1>10. ASSUME NEW p \in Procs, Crash(p)
       PROVE  ExchangesAreLocked' /\ NothingIsKnown' /\ DeviceIsKept'
  <2>1. /\ UNCHANGED row
        /\ \A q \in Procs \ {p} : /\ jar'[q] = jar[q] /\ seeded'[q] = seeded[q]
                                  /\ known'[q] = known[q] /\ lock'[q] = lock[q]
        /\ known'[p] = 0 /\ seeded'[p] = FALSE
    BY <1>t, <1>10 DEF Crash, TypeOK
  <2>2. \A d \in Calls : Owner[d] # p =>
          pc'[d] = pc[d] /\ target'[d] = target[d] /\ snapshot'[d] = snapshot[d]
    BY <1>t, <1>10 DEF Crash, TypeOK
  <2>3. \A d \in Calls : Owner[d] = p => pc'[d] \notin {"exchange", "exchanged", "save"}
    BY <1>t, <1>10 DEF Crash, TypeOK
  <2>4. ExchangesAreLocked'
    BY <2>1, <2>2, <2>3 DEF DeviceInv, ExchangesAreLocked
  <2>5. NothingIsKnown'
    BY <2>1, <2>2 DEF DeviceInv, NothingIsKnown
  <2>6. DeviceIsKept'
    BY <2>1, <2>2, <2>3 DEF DeviceInv, DeviceIsKept
  <2> QED
    BY <2>4, <2>5, <2>6
<1>11. CASE UNCHANGED vars
  BY <1>11, DeviceQuiet DEF vars
<1> QED
  BY <1>1, <1>2, <1>3, <1>4, <1>5, <1>6, <1>7, <1>8, <1>9, <1>10, <1>11 DEF Next, Step

\* CookieSession.DeviceRemembered for every instance: an exchange of a stored session
\* carries the device cookie.
THEOREM DeviceIsRemembered == Spec => []DeviceRemembered
<1>1. Init => DeviceInv
  BY TypeInit DEF Init, DeviceInv, ExchangesAreLocked, NothingIsKnown, DeviceIsKept, NoRow
<1>2. DeviceInv => DeviceRemembered
  <2> SUFFICES ASSUME DeviceInv, NEW c \in Calls,
                      pc[c] = "exchange", row.rev # 0, target[c] = row.rev + 1
               PROVE  jar[Owner[c]].dev
    BY DEF DeviceRemembered
  <2>1. row.rev \in Nat
    BY DEF DeviceInv, TypeOK
  <2>2. target[c] # 1
    BY <2>1
  <2> QED
    BY <2>2 DEF DeviceInv, DeviceIsKept
<1> QED
  BY <1>1, <1>2, DeviceStep, PTL DEF Spec
------------------------------------------------------------------------------
(***************************************************************************)
(* A refused cookie is replaced                                            *)
(***************************************************************************)
\* Every cookie anyone holds names a session the site has made.
CookiesAreMinted ==
  /\ row.jar.sid <= minted /\ \A p \in Procs : jar[p].sid <= minted
  /\ \A c \in Calls : /\ snapshot[c].sid <= minted /\ carried[c] <= minted
                      /\ answer[c].sid <= minted
                      /\ \A s \in refused[c] : s <= minted /\ s # 0

\* A cookie that is on its way for the first time: nobody has it, nobody was refused it.
New(c) == pc[c] = "answered" /\ answer[c].sid \notin {0, carried[c]}

NewIsNowhere ==
  \A c \in Calls : New(c) =>
    LET s == answer[c].sid IN
    /\ row.jar.sid # s /\ \A p \in Procs : jar[p].sid # s
    /\ \A d \in Calls : /\ snapshot[d].sid # s /\ carried[d] # s /\ s \notin refused[d]
                        /\ d # c => answer[d].sid # s

\* A refused call is one that has used its budget; its jar has been seeded when it renews.
RefusedHasRetried ==
  \A c \in Calls :
    /\ budget[c] <= AuthRetries
    /\ refused[c] # {} /\ pc[c] # "answered" => budget[c] < AuthRetries
    /\ refused[c] # {} /\ pc[c] \in {"exchange", "exchanged", "save", "resolve", "send"} =>
         seeded[Owner[c]]

\* From the end of the exchange to the next request the jar holds another cookie.
RefusedIsGone ==
  \A c \in Calls : ~ reused[c] /\ pc[c] \in {"exchanged", "save", "resolve", "send"} =>
    jar[Owner[c]].sid \notin refused[c]

RefusedInv == /\ TypeOK /\ CookiesAreMinted /\ NewIsNowhere /\ RefusedHasRetried
              /\ RefusedIsGone

\* A cookie that is not new: somebody holds it, or was refused it.
Held(s) ==
  \/ s = 0 \/ s = row.jar.sid \/ \E p \in Procs : s = jar[p].sid
  \/ \E c \in Calls : s = snapshot[c].sid \/ s = carried[c] \/ s \in refused[c]

\* What everyone holds is held.
LEMMA HeldNow ==
  /\ Held(0) /\ Held(row.jar.sid) /\ \A p \in Procs : Held(jar[p].sid)
  /\ \A c \in Calls : /\ Held(snapshot[c].sid) /\ Held(carried[c])
                      /\ \A s \in refused[c] : Held(s)
  BY DEF Held

\* What anyone may hold after a step: an old cookie, one that was on its way to a call
\* and has arrived, or one the site has just made.
MayHold(s) ==
  \/ Held(s) \/ (\E c \in Calls : s = answer[c].sid /\ ~ New(c)')
  \/ s > minted /\ s <= minted'

\* No cookie that is on its way is held.
LEMMA NewIsNotHeld ==
  ASSUME RefusedInv, NEW s, Held(s)
  PROVE  s <= minted /\ \A c \in Calls : New(c) => answer[c].sid # s
<1>t. TypeOK
  BY DEF RefusedInv
<1>1. s <= minted
  BY <1>t DEF Held, RefusedInv, CookiesAreMinted, TypeOK
<1>2. ASSUME NEW c \in Calls, New(c) PROVE answer[c].sid # s
  BY <1>2 DEF Held, RefusedInv, NewIsNowhere, New
<1> QED
  BY <1>1, <1>2

\* A step that sends no new cookie on its way, after which everyone holds what he may.
LEMMA HeldStep ==
  ASSUME RefusedInv, TypeOK', minted' >= minted,
         MayHold(row'.jar.sid), \A p \in Procs : MayHold(jar'[p].sid),
         \A c \in Calls :
           /\ MayHold(snapshot'[c].sid) /\ MayHold(carried'[c])
           /\ \A s \in refused'[c] : MayHold(s) /\ s # 0
           /\ answer'[c].sid = answer[c].sid \/ MayHold(answer'[c].sid)
           /\ New(c)' => New(c) /\ answer'[c].sid = answer[c].sid
  PROVE  CookiesAreMinted' /\ NewIsNowhere'
<1>t. TypeOK
  BY DEF RefusedInv
<1>n. minted \in Nat /\ minted' \in Nat /\ \A c \in Calls : answer[c].sid <= minted
  BY <1>t DEF TypeOK, RefusedInv, CookiesAreMinted
<1>1. ASSUME NEW s, MayHold(s)
      PROVE  /\ s \in Nat => s <= minted'
             /\ \A c \in Calls : New(c)' => answer'[c].sid # s
  <2>1. CASE Held(s)
    <3>1. s <= minted /\ \A c \in Calls : New(c) => answer[c].sid # s
      BY <2>1, NewIsNotHeld
    <3> QED
      BY <1>n, <3>1
  <2>2. CASE \E c \in Calls : s = answer[c].sid /\ ~ New(c)'
    <3> PICK c \in Calls : s = answer[c].sid /\ ~ New(c)'
      BY <2>2
    <3>1. s <= minted
      BY <1>n
    <3>2. ASSUME NEW d \in Calls, New(d)' PROVE answer'[d].sid # s
      <4>1. d # c /\ New(d) /\ answer'[d].sid = answer[d].sid
        BY <3>2
      <4> QED
        BY <4>1 DEF RefusedInv, NewIsNowhere
    <3> QED
      BY <1>n, <3>1, <3>2
  <2>3. CASE s > minted /\ s <= minted'
    <3>1. ASSUME NEW d \in Calls, New(d)' PROVE answer'[d].sid # s
      <4>1. answer'[d].sid <= minted /\ answer'[d].sid \in Nat
        BY <1>t, <1>n, <3>1 DEF TypeOK, Answers
      <4> QED
        BY <1>n, <2>3, <4>1
    <3> QED
      BY <2>3, <3>1
  <2> QED
    BY <1>1, <2>1, <2>2, <2>3 DEF MayHold
<1>2. CookiesAreMinted'
  <2>1. /\ row'.jar.sid \in Nat /\ \A p \in Procs : jar'[p].sid \in Nat
        /\ \A c \in Calls : /\ snapshot'[c].sid \in Nat /\ carried'[c] \in Nat
                            /\ answer'[c].sid \in Nat /\ refused'[c] \subseteq Nat
    BY DEF TypeOK, Jars, Answers
  <2>2. \A c \in Calls : answer'[c].sid <= minted'
    BY <1>n, <1>1, <2>1
  <2> QED
    BY <1>1, <2>1, <2>2 DEF CookiesAreMinted
<1>3. NewIsNowhere'
  <2> SUFFICES ASSUME NEW c \in Calls, New(c)'
               PROVE  /\ row'.jar.sid # answer'[c].sid
                      /\ \A p \in Procs : jar'[p].sid # answer'[c].sid
                      /\ \A d \in Calls :
                           /\ snapshot'[d].sid # answer'[c].sid
                           /\ carried'[d] # answer'[c].sid
                           /\ answer'[c].sid \notin refused'[d]
                           /\ d # c => answer'[d].sid # answer'[c].sid
    BY DEF NewIsNowhere
  <2>1. \A d \in Calls : d # c => answer'[d].sid # answer'[c].sid
    <3> SUFFICES ASSUME NEW d \in Calls, d # c PROVE answer'[d].sid # answer'[c].sid
      OBVIOUS
    <3>1. New(c) /\ answer'[c].sid = answer[c].sid
      OBVIOUS
    <3>2. answer[d].sid # answer[c].sid
      BY <3>1 DEF RefusedInv, NewIsNowhere
    <3> QED
      BY <1>1, <3>1, <3>2
  <2> QED
    BY <1>1, <2>1
<1> QED
  BY <1>2, <1>3

\* A load pours the cookie of the row into a jar that has not been seeded, and nothing
\* into one that has.
LEMMA LoadPours ==
  ASSUME TypeOK, NEW c \in Calls, NEW step, Load(c, step)
  PROVE  /\ \A p \in Procs : /\ jar'[p].sid \in {jar[p].sid, row.jar.sid}
                             /\ seeded[p] => jar'[p] = jar[p] /\ seeded'[p]
         /\ row.rev # 0 => seeded'[Owner[c]]
<1> DEFINE p == Owner[c]
<1>1. p \in Procs /\ jar[p] \in Jars
  BY DEF TypeOK
<1>2. Seeded(p).sid \in {jar[p].sid, row.jar.sid} /\ (seeded[p] => Seeded(p) = jar[p])
  BY <1>1 DEF Seeded, Poured
<1>3. /\ jar'[p] = Seeded(p) /\ \A q \in Procs \ {p} : jar'[q] = jar[q]
      /\ seeded'[p] = (seeded[p] \/ row.rev # 0)
      /\ \A q \in Procs \ {p} : seeded'[q] = seeded[q]
  BY <1>1 DEF Load, TypeOK
<1> QED
  BY <1>1, <1>2, <1>3

\* So a load gives no call under way a cookie it was refused.
LEMMA LoadKeepsGone ==
  ASSUME RefusedInv, NEW c \in Calls, NEW step, Load(c, step),
         NEW d \in Calls, ~ reused[d], pc[d] \in {"exchanged", "save", "resolve", "send"}
  PROVE  jar'[Owner[d]].sid \notin refused[d]
<1>t. TypeOK /\ Owner[d] \in Procs
  BY DEF RefusedInv
<1>1. CASE refused[d] = {}
  BY <1>1
<1>2. CASE refused[d] # {}
  <2>1. seeded[Owner[d]]
    BY <1>2 DEF RefusedInv, RefusedHasRetried
  <2>2. jar'[Owner[d]] = jar[Owner[d]]
    BY <1>t, <2>1, LoadPours
  <2> QED
    BY <2>2 DEF RefusedInv, RefusedIsGone
<1> QED
  BY <1>1, <1>2

\* Every step keeps what is refused apart from what will be sent.
LEMMA RefusedStep == RefusedInv /\ [Next]_vars => RefusedInv'
<1> SUFFICES ASSUME RefusedInv, [Next]_vars
             PROVE  CookiesAreMinted' /\ NewIsNowhere' /\ RefusedHasRetried' /\ RefusedIsGone'
  BY TypeStep DEF RefusedInv
<1>t. TypeOK /\ TypeOK'
  BY TypeStep DEF RefusedInv
<1>n. minted \in Nat
  BY <1>t DEF TypeOK
<1>z. \A c \in Calls : \A s \in refused[c] : s # 0
  BY DEF RefusedInv, CookiesAreMinted
<1> USE DEF store, process, site, attempt, history, Goto
<1>1. ASSUME NEW c \in Calls,
             ReuseStored(c) \/ ExchangeStored(c) \/ RenewReuses(c) \/ Renew(c)
      PROVE  CookiesAreMinted' /\ NewIsNowhere' /\ RefusedHasRetried' /\ RefusedIsGone'
  <2>1. PICK step \in {"resolve", "renew"} : Load(c, step) /\ pc[c] = step
    BY <1>1 DEF ReuseStored, ExchangeStored, RenewReuses, Renew, Load
  <2>2. /\ UNCHANGED <<row, minted, snapshot, carried, answer, budget, refused>>
        /\ \A d \in Calls \ {c} : pc'[d] = pc[d] /\ reused'[d] = reused[d]
    BY <1>1, <1>t
       DEF ReuseStored, ExchangeStored, RenewReuses, Renew, BeginExchange, TypeOK
  <2>3. \/ pc[c] = "resolve" /\ pc'[c] \in {"send", "exchange"} /\ reused'[c] = reused[c]
        \/ pc[c] = "renew" /\ pc'[c] = "resolve" /\ reused'[c] /\ seeded'[Owner[c]]
        \/ pc[c] = "renew" /\ pc'[c] = "exchange" /\ seeded'[Owner[c]]
    <3>1. CASE ReuseStored(c) \/ ExchangeStored(c)
      BY <1>t, <3>1 DEF ReuseStored, ExchangeStored, BeginExchange, Load, TypeOK
    <3>2. CASE RenewReuses(c)
      BY <1>t, <3>2, LoadPours DEF RenewReuses, Load, LoadedIsValid, TypeOK
    <3>3. CASE Renew(c)
      BY <1>t, <3>3, LoadPours DEF Renew, BeginExchange, Load, TypeOK
    <3> QED
      BY <1>1, <3>1, <3>2, <3>3
  <2>4. \A p \in Procs : jar'[p].sid \in {jar[p].sid, row.jar.sid}
                         /\ (seeded[p] => seeded'[p])
    BY <1>t, <2>1, LoadPours
  <2>5. CookiesAreMinted' /\ NewIsNowhere'
    <3>1. \A d \in Calls : New(d)' => New(d)
      BY <2>2, <2>3 DEF New
    <3> QED
      BY <1>t, <1>n, <1>z, <2>2, <2>4, <3>1, HeldNow, HeldStep DEF MayHold
  <2>6. RefusedHasRetried'
    <3> SUFFICES ASSUME NEW d \in Calls, refused[d] # {}
                 PROVE  /\ pc'[d] # "answered" => budget[d] < AuthRetries
                        /\ pc'[d] \in {"exchange", "exchanged", "save", "resolve", "send"}
                             => seeded'[Owner[d]]
      BY <2>2 DEF RefusedHasRetried, RefusedInv
    <3>1. CASE d = c
      BY <2>3, <2>4, <3>1 DEF RefusedInv, RefusedHasRetried
    <3>2. CASE d # c
      BY <2>2, <2>4, <3>2 DEF RefusedInv, RefusedHasRetried
    <3> QED
      BY <3>1, <3>2
  <2>7. RefusedIsGone'
    <3> SUFFICES ASSUME NEW d \in Calls, ~ reused'[d],
                        pc'[d] \in {"exchanged", "save", "resolve", "send"}
                 PROVE  jar'[Owner[d]].sid \notin refused[d]
      BY <2>2 DEF RefusedIsGone
    <3>1. ~ reused[d] /\ pc[d] \in {"exchanged", "save", "resolve", "send"}
      BY <2>2, <2>3
    <3> QED
      BY <2>1, <3>1, LoadKeepsGone
  <2> QED
    BY <2>5, <2>6, <2>7
<1>2. ASSUME NEW c \in Calls, Exchanged(c)
      PROVE  CookiesAreMinted' /\ NewIsNowhere' /\ RefusedHasRetried' /\ RefusedIsGone'
  <2>1. /\ UNCHANGED <<row, seeded, snapshot, carried, answer, budget, refused, reused>>
        /\ pc[c] = "exchange" /\ pc'[c] = "exchanged" /\ \A d \in Calls \ {c} : pc'[d] = pc[d]
        /\ minted' = minted + 1 /\ jar'[Owner[c]].sid = minted'
        /\ \A p \in Procs \ {Owner[c]} : jar'[p] = jar[p]
    BY <1>t, <1>2 DEF Exchanged, TypeOK
  <2>2. minted' > minted
    BY <1>n, <2>1
  <2>3. CookiesAreMinted' /\ NewIsNowhere'
    <3>1. \A d \in Calls : New(d)' => New(d)
      BY <2>1 DEF New
    <3>2. MayHold(minted')
      BY <1>n, <2>1, <2>2 DEF MayHold
    <3>3. /\ MayHold(row'.jar.sid) /\ \A p \in Procs : MayHold(jar'[p].sid)
          /\ \A d \in Calls : /\ MayHold(snapshot'[d].sid) /\ MayHold(carried'[d])
                              /\ \A s \in refused'[d] : MayHold(s)
      BY <2>1, <3>2, HeldNow DEF MayHold
    <3> QED
      BY <1>t, <1>n, <1>z, <2>1, <2>2, <3>1, <3>3, HeldStep
  <2>4. RefusedHasRetried'
    BY <2>1 DEF RefusedHasRetried, RefusedInv
  <2>5. RefusedIsGone'
    <3> SUFFICES ASSUME NEW d \in Calls, ~ reused[d],
                        pc'[d] \in {"exchanged", "save", "resolve", "send"}
                 PROVE  jar'[Owner[d]].sid \notin refused[d]
      BY <2>1 DEF RefusedIsGone
    <3>1. \A s \in refused[d] : s \in Nat /\ s <= minted
      BY <1>t DEF RefusedInv, CookiesAreMinted, TypeOK
    <3>2. minted' \notin refused[d]
      BY <1>n, <2>2, <3>1
    <3>3. CASE Owner[d] = Owner[c]
      BY <2>1, <3>2, <3>3
    <3>4. CASE Owner[d] # Owner[c]
      BY <2>1, <3>4 DEF RefusedInv, RefusedIsGone
    <3> QED
      BY <3>3, <3>4
  <2> QED
    BY <2>3, <2>4, <2>5
<1>3. ASSUME NEW c \in Calls, ExchangeEnds(c)
      PROVE  CookiesAreMinted' /\ NewIsNowhere' /\ RefusedHasRetried' /\ RefusedIsGone'
  <2>1. /\ UNCHANGED <<row, jar, seeded, minted, carried, answer, budget, refused, reused>>
        /\ pc[c] = "exchanged" /\ pc'[c] = "save" /\ \A d \in Calls \ {c} : pc'[d] = pc[d]
        /\ snapshot'[c] = jar[Owner[c]] /\ \A d \in Calls \ {c} : snapshot'[d] = snapshot[d]
    BY <1>t, <1>3 DEF ExchangeEnds, TypeOK
  <2>2. CookiesAreMinted' /\ NewIsNowhere'
    <3>1. \A d \in Calls : New(d)' => New(d)
      BY <2>1 DEF New
    <3>2. \A d \in Calls : Held(snapshot'[d].sid)
      BY <2>1, HeldNow
    <3> QED
      BY <1>t, <1>n, <1>z, <2>1, <3>1, <3>2, HeldNow, HeldStep DEF MayHold
  <2>3. RefusedHasRetried' /\ RefusedIsGone'
    BY <2>1 DEF RefusedHasRetried, RefusedIsGone, RefusedInv
  <2> QED
    BY <2>2, <2>3
<1>4. ASSUME NEW c \in Calls, ExchangeFails(c)
      PROVE  CookiesAreMinted' /\ NewIsNowhere' /\ RefusedHasRetried' /\ RefusedIsGone'
  <2>1. /\ UNCHANGED <<row, jar, seeded, minted, snapshot, carried, answer>>
        /\ pc[c] # "answered" /\ pc'[c] = "failed" /\ \A d \in Calls \ {c} : pc'[d] = pc[d]
        /\ refused'[c] = {} /\ budget'[c] = 0
        /\ \A d \in Calls \ {c} : /\ refused'[d] = refused[d] /\ budget'[d] = budget[d]
                                  /\ reused'[d] = reused[d]
    BY <1>t, <1>4 DEF ExchangeFails, EndAttempts, TypeOK
  <2>2. CookiesAreMinted' /\ NewIsNowhere'
    <3>1. \A d \in Calls : (New(d)' => New(d)) /\ refused'[d] \subseteq refused[d]
      BY <2>1 DEF New
    <3> QED
      BY <1>t, <1>n, <1>z, <2>1, <3>1, HeldNow, HeldStep DEF MayHold
  <2>3. RefusedHasRetried' /\ RefusedIsGone'
    BY <2>1 DEF RefusedHasRetried, RefusedIsGone, RefusedInv
  <2> QED
    BY <2>2, <2>3
<1>5. ASSUME NEW c \in Calls, Save(c)
      PROVE  CookiesAreMinted' /\ NewIsNowhere' /\ RefusedHasRetried' /\ RefusedIsGone'
  <2>1. /\ UNCHANGED <<jar, seeded, minted, carried, answer>>
        /\ pc[c] = "save" /\ pc'[c] \in {"send", "resolve", "failed"}
        /\ \A d \in Calls \ {c} : pc'[d] = pc[d]
        /\ row'.jar \in {row.jar, snapshot[c]}
        /\ snapshot'[c] = EmptyJar /\ \A d \in Calls \ {c} : snapshot'[d] = snapshot[d]
        /\ \A d \in Calls \ {c} : /\ refused'[d] = refused[d] /\ budget'[d] = budget[d]
                                  /\ reused'[d] = reused[d]
    BY <1>t, <1>5 DEF Save, EndAttempts, TypeOK
  <2>2. \/ refused'[c] = refused[c] /\ budget'[c] = budget[c] /\ reused'[c] = reused[c]
        \/ refused'[c] = {} /\ budget'[c] = 0
    BY <1>t, <1>5 DEF Save, EndAttempts, TypeOK
  <2>3. CookiesAreMinted' /\ NewIsNowhere'
    <3>1. \A d \in Calls : (New(d)' => New(d)) /\ refused'[d] \subseteq refused[d]
      BY <2>1, <2>2 DEF New
    <3>2. Held(row'.jar.sid) /\ \A d \in Calls : Held(snapshot'[d].sid)
      BY <2>1, HeldNow DEF EmptyJar
    <3> QED
      BY <1>t, <1>n, <1>z, <2>1, <3>1, <3>2, HeldNow, HeldStep DEF MayHold
  <2>4. RefusedHasRetried'
    BY <2>1, <2>2 DEF RefusedHasRetried, RefusedInv
  <2>5. RefusedIsGone'
    BY <2>1, <2>2 DEF RefusedIsGone, RefusedInv
  <2> QED
    BY <2>3, <2>4, <2>5
<1>6. ASSUME NEW c \in Calls, Send(c)
      PROVE  CookiesAreMinted' /\ NewIsNowhere' /\ RefusedHasRetried' /\ RefusedIsGone'
  <2>1. /\ UNCHANGED <<row, jar, seeded, minted, snapshot, answer, budget, refused, reused>>
        /\ pc[c] = "send" /\ pc'[c] = "sent" /\ \A d \in Calls \ {c} : pc'[d] = pc[d]
        /\ carried'[c] = jar[Owner[c]].sid /\ \A d \in Calls \ {c} : carried'[d] = carried[d]
    BY <1>t, <1>6 DEF Send, TypeOK
  <2>2. CookiesAreMinted' /\ NewIsNowhere'
    <3>1. \A d \in Calls : New(d)' => New(d)
      BY <2>1 DEF New
    <3>2. \A d \in Calls : Held(carried'[d])
      BY <2>1, HeldNow
    <3> QED
      BY <1>t, <1>n, <1>z, <2>1, <3>1, <3>2, HeldNow, HeldStep DEF MayHold
  <2>3. RefusedHasRetried' /\ RefusedIsGone'
    BY <2>1 DEF RefusedHasRetried, RefusedIsGone, RefusedInv
  <2> QED
    BY <2>2, <2>3
<1>7. ASSUME NEW c \in Calls, Accept(c)
      PROVE  CookiesAreMinted' /\ NewIsNowhere' /\ RefusedHasRetried' /\ RefusedIsGone'
  <2>1. /\ UNCHANGED <<row, jar, seeded, snapshot, carried, budget, refused, reused>>
        /\ pc[c] = "sent" /\ pc'[c] = "answered" /\ \A d \in Calls \ {c} : pc'[d] = pc[d]
        /\ \A d \in Calls \ {c} : answer'[d] = answer[d]
        /\ \/ answer'[c].sid = carried[c] /\ minted' = minted
           \/ answer'[c].sid = minted' /\ minted' = minted + 1
    BY <1>t, <1>7 DEF Accept, Answer, TypeOK
  <2>2. CASE answer'[c].sid = carried[c] /\ minted' = minted
    <3>1. \A d \in Calls : New(d)' => New(d) /\ answer'[d] = answer[d]
      BY <2>1, <2>2 DEF New
    <3>2. CookiesAreMinted' /\ NewIsNowhere'
      BY <1>t, <1>n, <1>z, <2>1, <2>2, <3>1, HeldNow, HeldStep DEF MayHold
    <3>3. RefusedHasRetried' /\ RefusedIsGone'
      BY <2>1 DEF RefusedHasRetried, RefusedIsGone, RefusedInv
    <3> QED
      BY <3>2, <3>3
  <2>3. CASE answer'[c].sid = minted' /\ minted' = minted + 1
    <3>1. \A s : Held(s) => s <= minted
      BY NewIsNotHeld
    <3>2. minted' > minted
      BY <1>n, <2>3
    <3>3. CookiesAreMinted'
      <4>1. \A s \in Nat : s <= minted => s <= minted'
        BY <1>n, <2>3
      <4>2. /\ row.jar.sid \in Nat /\ \A p \in Procs : jar[p].sid \in Nat
            /\ \A d \in Calls : /\ snapshot[d].sid \in Nat /\ carried[d] \in Nat
                                /\ answer[d].sid \in Nat /\ refused[d] \subseteq Nat
        BY <1>t DEF TypeOK, Jars, Answers
      <4>3. \A d \in Calls : answer'[d].sid <= minted'
        BY <1>n, <2>1, <2>3, <4>1, <4>2 DEF RefusedInv, CookiesAreMinted
      <4> QED
        BY <2>1, <4>1, <4>2, <4>3 DEF RefusedInv, CookiesAreMinted
    <3>4. ~ Held(minted') /\ \A d \in Calls : answer[d].sid # minted'
      BY <1>n, <1>t, <3>1, <3>2 DEF RefusedInv, CookiesAreMinted, TypeOK, Answers
    <3>5. NewIsNowhere'
      <4> SUFFICES ASSUME NEW e \in Calls, New(e)'
                   PROVE  /\ row.jar.sid # answer'[e].sid
                          /\ \A p \in Procs : jar[p].sid # answer'[e].sid
                          /\ \A d \in Calls :
                               /\ snapshot[d].sid # answer'[e].sid
                               /\ carried[d] # answer'[e].sid
                               /\ answer'[e].sid \notin refused[d]
                               /\ d # e => answer'[d].sid # answer'[e].sid
        BY <2>1 DEF NewIsNowhere
      <4>1. CASE e = c
        BY <2>1, <2>3, <3>4, <4>1 DEF Held
      <4>2. CASE e # c
        <5>1. New(e) /\ answer'[e] = answer[e]
          BY <2>1, <4>2 DEF New
        <5>2. answer'[c].sid # answer[e].sid
          BY <2>3, <3>4
        <5> QED
          BY <2>1, <5>1, <5>2 DEF RefusedInv, NewIsNowhere
      <4> QED
        BY <4>1, <4>2
    <3>6. RefusedHasRetried' /\ RefusedIsGone'
      BY <2>1 DEF RefusedHasRetried, RefusedIsGone, RefusedInv
    <3> QED
      BY <3>3, <3>5, <3>6
  <2> QED
    BY <2>1, <2>2, <2>3
<1>8. ASSUME NEW c \in Calls, Refuse(c)
      PROVE  CookiesAreMinted' /\ NewIsNowhere' /\ RefusedHasRetried' /\ RefusedIsGone'
  <2>1. /\ UNCHANGED <<row, jar, seeded, minted, snapshot, carried, budget, reused>>
        /\ pc[c] = "sent" /\ pc'[c] = "answered" /\ \A d \in Calls \ {c} : pc'[d] = pc[d]
        /\ \A d \in Calls \ {c} : answer'[d] = answer[d] /\ refused'[d] = refused[d]
        /\ answer'[c].sid \in {0, carried[c]}
        /\ refused'[c] = refused[c] \cup ({carried[c]} \ {0})
    BY <1>t, <1>8 DEF Refuse, Answer, TypeOK
  <2>2. CookiesAreMinted' /\ NewIsNowhere'
    <3>1. \A d \in Calls : New(d)' => New(d) /\ answer'[d] = answer[d]
      BY <2>1 DEF New
    <3>2. \A d \in Calls : \A s \in refused'[d] : Held(s) /\ s # 0
      BY <1>z, <2>1, HeldNow
    <3>3. \A d \in Calls : answer'[d].sid = answer[d].sid \/ Held(answer'[d].sid)
      BY <2>1, HeldNow
    <3> QED
      BY <1>t, <1>n, <2>1, <3>1, <3>2, <3>3, HeldNow, HeldStep DEF MayHold
  <2>3. RefusedHasRetried' /\ RefusedIsGone'
    BY <2>1 DEF RefusedHasRetried, RefusedIsGone, RefusedInv
  <2> QED
    BY <2>2, <2>3
<1>9. ASSUME NEW c \in Calls, Arrive(c)
      PROVE  CookiesAreMinted' /\ NewIsNowhere' /\ RefusedHasRetried' /\ RefusedIsGone'
  <2> DEFINE p == Owner[c]
  <2>1. /\ UNCHANGED <<row, seeded, minted, snapshot>>
        /\ pc[c] = "answered" /\ pc'[c] \in {"ok", "failed", "renew"}
        /\ \A d \in Calls \ {c} : pc'[d] = pc[d]
        /\ jar'[p].sid = (IF answer[c].sid = carried[c] THEN jar[p].sid ELSE answer[c].sid)
        /\ \A q \in Procs \ {p} : jar'[q] = jar[q]
        /\ answer'[c].sid = 0 /\ carried'[c] = 0
        /\ \A d \in Calls \ {c} : answer'[d] = answer[d] /\ carried'[d] = carried[d]
    BY <1>t, <1>9 DEF Arrive, Silence, TypeOK, Jars
  <2>2. /\ \A d \in Calls \ {c} : /\ refused'[d] = refused[d] /\ budget'[d] = budget[d]
                                  /\ reused'[d] = reused[d]
        /\ \/ refused'[c] = {} /\ budget'[c] = 0
           \/ refused'[c] = refused[c] /\ budget[c] > 0 /\ budget'[c] = budget[c] - 1
    BY <1>t, <1>9 DEF Arrive, EndAttempts, TypeOK
  <2>3. CookiesAreMinted' /\ NewIsNowhere'
    <3>1. /\ ~ New(c)' /\ \A d \in Calls : New(d)' => New(d) /\ answer'[d] = answer[d]
      BY <2>1 DEF New
    <3>2. /\ \A q \in Procs : MayHold(jar'[q].sid)
      BY <2>1, <3>1, HeldNow DEF MayHold
    <3>3. \A d \in Calls : /\ Held(carried'[d]) /\ refused'[d] \subseteq refused[d]
                           /\ answer'[d].sid = answer[d].sid \/ Held(answer'[d].sid)
      BY <2>1, <2>2, HeldNow
    <3> QED
      BY <1>t, <1>n, <1>z, <2>1, <3>1, <3>2, <3>3, HeldNow, HeldStep DEF MayHold
  <2>4. RefusedHasRetried'
    <3>1. budget'[c] <= AuthRetries /\ (refused'[c] # {} => budget'[c] < AuthRetries)
      <4>1. budget[c] \in Nat /\ budget[c] <= AuthRetries /\ AuthRetries \in Nat
        BY <1>t DEF RefusedInv, RefusedHasRetried, TypeOK
      <4> QED
        BY <2>2, <4>1
    <3> QED
      BY <2>1, <2>2, <3>1 DEF RefusedHasRetried, RefusedInv
  <2>5. RefusedIsGone'
    <3> SUFFICES ASSUME NEW d \in Calls, ~ reused'[d],
                        pc'[d] \in {"exchanged", "save", "resolve", "send"}
                 PROVE  jar'[Owner[d]].sid \notin refused'[d]
      BY DEF RefusedIsGone
    <3>1. d # c /\ jar[Owner[d]].sid \notin refused[d] /\ refused'[d] = refused[d]
      BY <2>1, <2>2 DEF RefusedInv, RefusedIsGone
    <3>2. answer[c].sid # carried[c] => answer[c].sid \notin refused[d]
      BY <1>z, <2>1 DEF RefusedInv, NewIsNowhere, New
    <3> QED
      BY <2>1, <3>1, <3>2
  <2> QED
    BY <2>3, <2>4, <2>5
<1>10. CASE Expire \/ Forget
  <2>1. /\ row'.jar = row.jar
        /\ UNCHANGED <<jar, seeded, minted, pc, snapshot, carried, answer, budget, refused, reused>>
    BY <1>t, <1>10 DEF Expire, Forget, TypeOK
  <2>2. CookiesAreMinted' /\ NewIsNowhere'
    <3>1. \A d \in Calls : New(d)' => New(d)
      BY <2>1 DEF New
    <3> QED
      BY <1>t, <1>n, <1>z, <2>1, <3>1, HeldNow, HeldStep DEF MayHold
  <2>3. RefusedHasRetried' /\ RefusedIsGone'
    BY <2>1 DEF RefusedHasRetried, RefusedIsGone, RefusedInv
  <2> QED
    BY <2>2, <2>3
<1>11. ASSUME NEW p \in Procs, Crash(p)
       PROVE  CookiesAreMinted' /\ NewIsNowhere' /\ RefusedHasRetried' /\ RefusedIsGone'
  <2>1. /\ UNCHANGED <<row, minted>> /\ jar'[p].sid = 0
        /\ \A q \in Procs \ {p} : jar'[q] = jar[q] /\ seeded'[q] = seeded[q]
    BY <1>t, <1>11 DEF Crash, EmptyJar, TypeOK
  <2>2. ASSUME NEW c \in Calls
        PROVE  \/ /\ pc'[c] = "failed" /\ refused'[c] = {} /\ budget'[c] = 0
                  /\ snapshot'[c].sid = 0 /\ carried'[c] = 0 /\ answer'[c].sid = 0
               \/ /\ pc'[c] = pc[c] /\ refused'[c] = refused[c] /\ budget'[c] = budget[c]
                  /\ reused'[c] = reused[c] /\ snapshot'[c] = snapshot[c]
                  /\ carried'[c] = carried[c] /\ answer'[c] = answer[c]
                  /\ Owner[c] = p => \/ pc[c] = "ok"
                                     \/ pc[c] = "resolve" /\ ~ budget[c] < AuthRetries
    BY <1>11 DEF Crash, EmptyJar, Silence
  <2>3. CookiesAreMinted' /\ NewIsNowhere'
    <3>1. \A d \in Calls : New(d)' => New(d) /\ answer'[d] = answer[d]
      BY <2>2 DEF New
    <3>2. \A d \in Calls : /\ Held(carried'[d]) /\ Held(snapshot'[d].sid)
                           /\ refused'[d] \subseteq refused[d]
                           /\ answer'[d].sid = answer[d].sid \/ Held(answer'[d].sid)
      BY <2>2, HeldNow
    <3>3. \A q \in Procs : Held(jar'[q].sid)
      BY <2>1, HeldNow
    <3> QED
      BY <1>t, <1>n, <1>z, <2>1, <3>1, <3>2, <3>3, HeldNow, HeldStep DEF MayHold
  <2>4. RefusedHasRetried'
    <3> SUFFICES ASSUME NEW d \in Calls
                 PROVE  /\ budget'[d] <= AuthRetries
                        /\ refused'[d] # {} /\ pc'[d] # "answered" => budget'[d] < AuthRetries
                        /\ refused'[d] # {} /\ pc'[d] \in {"exchange", "exchanged", "save",
                             "resolve", "send"} => seeded'[Owner[d]]
      BY DEF RefusedHasRetried
    <3> QED
      BY <2>1, <2>2 DEF RefusedInv, RefusedHasRetried
  <2>5. RefusedIsGone'
    <3> SUFFICES ASSUME NEW d \in Calls, ~ reused'[d],
                        pc'[d] \in {"exchanged", "save", "resolve", "send"}
                 PROVE  jar'[Owner[d]].sid \notin refused'[d]
      BY DEF RefusedIsGone
    <3> QED
      BY <1>z, <2>1, <2>2 DEF RefusedInv, RefusedIsGone
  <2> QED
    BY <2>3, <2>4, <2>5
<1>12. CASE UNCHANGED vars
  <2>1. \A d \in Calls : New(d)' => New(d)
    BY <1>12 DEF vars, New
  <2>2. CookiesAreMinted' /\ NewIsNowhere'
    BY <1>t, <1>n, <1>z, <1>12, <2>1, HeldNow, HeldStep DEF MayHold, vars
  <2>3. RefusedHasRetried' /\ RefusedIsGone'
    BY <1>12 DEF RefusedHasRetried, RefusedIsGone, RefusedInv, vars
  <2> QED
    BY <2>2, <2>3
<1> QED
  BY <1>1, <1>2, <1>3, <1>4, <1>5, <1>6, <1>7, <1>8, <1>9, <1>10, <1>11, <1>12 DEF Next, Step

\* CookieSession.RefusedIsReplaced for every instance: a refused call that has renewed
\* its session never sends a cookie it was refused.
THEOREM RefusedCookieIsReplaced == Spec => RefusedIsReplaced
<1>1. Init => RefusedInv
  BY TypeInit DEF Init, RefusedInv, CookiesAreMinted, NewIsNowhere, New, RefusedHasRetried,
     RefusedIsGone, NoRow, EmptyJar, Silence
<1>2. RefusedInv /\ [Next]_vars =>
        RefusedInv' /\ [\A c \in Calls : Send(c) /\ ~reused[c] =>
                          jar[Owner[c]].sid \notin refused[c]]_vars
  <2>1. RefusedInv => \A c \in Calls : Send(c) /\ ~reused[c] =>
                        jar[Owner[c]].sid \notin refused[c]
    BY DEF RefusedInv, RefusedIsGone, Send
  <2> QED
    BY <2>1, RefusedStep
<1> QED
  BY <1>1, <1>2, PTL DEF Spec, RefusedIsReplaced
-----------------------------------------------------------------------------
(***************************************************************************)
(* The jar itself (CookieJar), for any addresses, lines, public suffixes   *)
(* and limits.                                                             *)
(***************************************************************************)
HIDE CookieAssumption
HIDE NoOneAssumption

\* A cookie the jar can hold.
Cookie ==
  [name : {l.name : l \in Lines}, value : Seq(STRING), secure : {l.secure : l \in Lines},
   domain : Seq(STRING), hostOnly : BOOLEAN,
   path : {PathOf(t, l) : t \in Targets, l \in Lines},
   expires : Int, born : Nat, used : Nat]

\* The scope of a cookie is one its setter could state.
AtHome(c) ==
  /\ c.value # <<>> /\ c.domain # <<>>
  /\ \/ c.domain = c.value
     \/ c.domain \notin PublicSuffixes /\ DomainMatches(c.value, c.domain)

OneAKey(cookies) == \A c, d \in cookies : Key(c) = Key(d) => c = d

\* A set of cookies a jar or a snapshot may be.
CookiesOK(cookies) ==
  /\ cookies \subseteq Cookie /\ IsFiniteSet(cookies) /\ OneAKey(cookies)
  /\ \A c \in cookies : AtHome(c)

JarOK(j) ==
  /\ j \in [cookies : SUBSET Cookie, tick : Nat]
  /\ CookiesOK(j.cookies)
  /\ \A c \in j.cookies : c.used <= j.tick

\* What a jar becomes when the cookies under some keys are used: the others are as they were.
Became(j, p, keys) ==
  /\ JarOK(p)
  /\ \A c \in p.cookies :
       \/ c \in j.cookies /\ Key(c) \notin keys
       \/ Key(c) \in keys /\ c.used > j.tick /\ ~ IsExpired(c, now)

\* A part of what a jar may hold is something a jar may hold.
LEMMA SubsetsAreOK ==
  ASSUME NEW S, CookiesOK(S), NEW T \in SUBSET S
  PROVE  CookiesOK(T)
<1>1. IsFiniteSet(T)
  BY FS_Subset DEF CookiesOK
<1> QED
  BY <1>1 DEF CookiesOK, OneAKey

\* Places are counted from one.
LEMMA PlaceIsPositive ==
  ASSUME NEW S, IsFiniteSet(S), S \subseteq Cookie, NEW c \in S
  PROVE  Place(c, S) \in Nat /\ Place(c, S) >= 1
<1> DEFINE B == {d \in S : d.born <= c.born}
<1>1. IsFiniteSet(B)
  BY FS_Subset
<1>2. c \in B
  BY DEF Cookie
<1>3. Cardinality(B) \in Nat
  BY <1>1, FS_CardinalityType
<1>4. B # {}
  BY <1>2
<1> HIDE DEF B
<1>5. Cardinality(B) # 0
  BY <1>1, <1>4, FS_EmptySet
<1>6. Place(c, S) = Cardinality(B)
  BY DEF Place, B
<1> QED
  BY <1>3, <1>5, <1>6

\* No place is beyond the last cookie.
LEMMA PlaceIsBounded ==
  ASSUME NEW S, IsFiniteSet(S), NEW c \in S
  PROVE  Place(c, S) <= Cardinality(S)
<1>1. {d \in S : d.born <= c.born} \subseteq S
  OBVIOUS
<1> QED
  BY <1>1, FS_Subset DEF Place

\* A cookie stays one when the jar notes its ticks.
LEMMA TicksOfCookies ==
  ASSUME NEW c \in Cookie, NEW b \in Nat, NEW u \in Nat
  PROVE  [c EXCEPT !.born = b, !.used = u] \in Cookie
<1> DEFINE names == {l.name : l \in Lines}
           flags == {l.secure : l \in Lines}
           hosts == Seq(STRING)
           paths == {PathOf(t, l) : t \in Targets, l \in Lines}
<1>1. Cookie = [name : names, value : hosts, secure : flags, domain : hosts,
                hostOnly : BOOLEAN, path : paths, expires : Int, born : Nat, used : Nat]
  BY DEF Cookie
<1> HIDE DEF names, flags, hosts, paths
<1> QED
  BY <1>1

\* Putting cookies in keeps a jar one, replaces nothing but what has their keys, and uses
\* them after everything that was used.
LEMMA PutWorks ==
  ASSUME NEW j, JarOK(j), NEW S, CookiesOK(S)
  PROVE  /\ JarOK(Put(j, S))
         /\ Put(j, S).tick >= j.tick
         /\ \A c \in Put(j, S).cookies :
              \/ c \in j.cookies /\ Key(c) \notin Keys(S)
              \/ /\ c.used > j.tick
                 /\ \E s \in S : Key(c) = Key(s) /\ c.expires = s.expires
         /\ Keys(Put(j, S).cookies) = Keys(j.cookies) \cup Keys(S)
<1> DEFINE tick(c) == j.tick + Place(c, S)
           born(c) == IF Key(c) \in Keys(j.cookies)
                      THEN (CHOOSE d \in j.cookies : Key(d) = Key(c)).born
                      ELSE tick(c)
           new(c) == [c EXCEPT !.born = born(c), !.used = tick(c)]
           old == {d \in j.cookies : Key(d) \notin Keys(S)}
           p == Put(j, S)
<1>1. p = [cookies |-> old \cup {new(c) : c \in S}, tick |-> j.tick + Cardinality(S)]
  BY DEF Put
<1>2. j.tick \in Nat /\ j.cookies \subseteq Cookie /\ IsFiniteSet(j.cookies)
  BY DEF JarOK, CookiesOK
<1>3. S \subseteq Cookie /\ IsFiniteSet(S) /\ OneAKey(S)
  BY DEF CookiesOK
<1>4. Cardinality(S) \in Nat
  BY <1>3, FS_CardinalityType
<1>5. ASSUME NEW c \in S
      PROVE  tick(c) \in Nat /\ tick(c) > j.tick /\ tick(c) <= j.tick + Cardinality(S)
  <2>1. Place(c, S) \in Nat /\ Place(c, S) >= 1
    BY <1>3, PlaceIsPositive
  <2>2. Place(c, S) <= Cardinality(S)
    BY <1>3, PlaceIsBounded
  <2> QED
    BY <1>2, <1>4, <2>1, <2>2
<1>6. ASSUME NEW c \in S PROVE born(c) \in Nat
  <2>1. CASE Key(c) \in Keys(j.cookies)
    <3>1. \E d \in j.cookies : Key(d) = Key(c)
      BY <2>1 DEF Keys
    <3> DEFINE d == CHOOSE d \in j.cookies : Key(d) = Key(c)
    <3>2. d \in j.cookies
      BY <3>1
    <3> HIDE DEF d
    <3>3. d.born \in Nat
      BY <3>2, <1>2 DEF Cookie
    <3> QED
      BY <2>1, <3>3 DEF d
  <2>2. CASE Key(c) \notin Keys(j.cookies)
    BY <2>2, <1>5
  <2> QED
    BY <2>1, <2>2
<1> HIDE DEF tick, born
<1>7. ASSUME NEW c \in S
      PROVE  /\ new(c) \in Cookie /\ Key(new(c)) = Key(c) /\ new(c).expires = c.expires
             /\ new(c).used = tick(c) /\ (AtHome(c) => AtHome(new(c)))
  <2>1. c \in Cookie /\ tick(c) \in Nat /\ born(c) \in Nat
    BY <1>3, <1>5, <1>6
  <2>2. new(c) \in Cookie
    BY <2>1, TicksOfCookies
  <2>3. /\ new(c).name = c.name /\ new(c).domain = c.domain /\ new(c).path = c.path
        /\ new(c).value = c.value /\ new(c).hostOnly = c.hostOnly
        /\ new(c).expires = c.expires /\ new(c).used = tick(c)
    BY <2>1 DEF Cookie
  <2> HIDE DEF new
  <2> QED
    BY <2>2, <2>3 DEF Key, AtHome
<1> HIDE DEF new
<1>8. p.cookies = old \cup {new(c) : c \in S} /\ p.tick = j.tick + Cardinality(S)
  BY <1>1
<1>9. p.tick \in Nat /\ p.tick >= j.tick
  BY <1>2, <1>4, <1>8
<1>10. p.cookies \subseteq Cookie
  BY <1>2, <1>7, <1>8
<1>11. IsFiniteSet(p.cookies)
  <2>1. IsFiniteSet(old)
    BY <1>2, FS_Subset
  <2>2. IsFiniteSet({new(c) : c \in S})
    <3> DEFINE f == [c \in S |-> new(c)]
    <3>1. f \in Surjection(S, {new(c) : c \in S})
      BY DEF Surjection
    <3> QED
      BY <1>3, <3>1, FS_Surjection
  <2> DEFINE fresh == {new(c) : c \in S}
  <2>3. p.cookies = old \cup fresh
    BY <1>8
  <2> HIDE DEF old, fresh, p
  <2>4. IsFiniteSet(old \cup fresh)
    BY <2>1, <2>2, FS_Union DEF fresh
  <2> QED
    BY <2>3, <2>4
<1>12. OneAKey(p.cookies)
  <2> SUFFICES ASSUME NEW c \in p.cookies, NEW d \in p.cookies, Key(c) = Key(d) PROVE c = d
    BY DEF OneAKey
  <2>1. CASE c \in old /\ d \in old
    BY <2>1 DEF JarOK, CookiesOK, OneAKey
  <2>2. ASSUME NEW s \in S, c = new(s) PROVE c = d
    <3>1. Key(d) \in Keys(S)
      BY <2>2, <1>7 DEF Keys
    <3>2. PICK u \in S : d = new(u)
      BY <3>1, <1>8
    <3>3. Key(s) = Key(u)
      BY <2>2, <3>2, <1>7
    <3>4. s = u
      BY <3>3, <1>3 DEF OneAKey
    <3> QED
      BY <2>2, <3>2, <3>4
  <2>3. ASSUME NEW u \in S, d = new(u), c \in old PROVE FALSE
    BY <2>3, <1>7 DEF Keys
  <2> QED
    BY <2>1, <2>2, <2>3, <1>8
<1>13. \A c \in p.cookies : AtHome(c)
  BY <1>7, <1>8 DEF JarOK, CookiesOK
<1>14. ASSUME NEW c \in p.cookies PROVE c.used <= p.tick
  <2>1. CASE c \in old
    <3>1. c.used <= j.tick /\ c.used \in Nat
      BY <2>1, <1>2 DEF JarOK, Cookie
    <3> QED
      BY <3>1, <1>2, <1>9
  <2>2. ASSUME NEW s \in S, c = new(s) PROVE c.used <= p.tick
    <3>1. c.used = tick(s) /\ tick(s) <= j.tick + Cardinality(S)
      BY <2>2, <1>5, <1>7
    <3> QED
      BY <3>1, <1>8
  <2> QED
    BY <2>1, <2>2, <1>8
<1>15. JarOK(p)
  <2>1. p \in [cookies : SUBSET Cookie, tick : Nat]
    <3>1. p = [cookies |-> p.cookies, tick |-> p.tick]
      BY <1>1
    <3> HIDE DEF p
    <3> QED
      BY <1>9, <1>10, <3>1
  <2> HIDE DEF p
  <2> QED
    BY <2>1, <1>10, <1>11, <1>12, <1>13, <1>14 DEF JarOK, CookiesOK
<1>16. ASSUME NEW c \in p.cookies
       PROVE  \/ c \in j.cookies /\ Key(c) \notin Keys(S)
              \/ /\ c.used > j.tick
                 /\ \E s \in S : Key(c) = Key(s) /\ c.expires = s.expires
  BY <1>5, <1>7, <1>8
<1>17. Keys(p.cookies) = Keys(j.cookies) \cup Keys(S)
  <2>1. ASSUME NEW c \in p.cookies PROVE Key(c) \in Keys(j.cookies) \cup Keys(S)
    BY <1>7, <1>8 DEF Keys
  <2>2. ASSUME NEW s \in S PROVE Key(s) \in Keys(p.cookies)
    <3>1. new(s) \in p.cookies /\ Key(new(s)) = Key(s)
      BY <1>7, <1>8
    <3> HIDE DEF p
    <3> QED
      BY <3>1 DEF Keys
  <2>3. ASSUME NEW d \in j.cookies PROVE Key(d) \in Keys(p.cookies) \cup Keys(S)
    <3>1. CASE Key(d) \notin Keys(S)
      <4>1. d \in p.cookies
        BY <3>1, <1>8
      <4> HIDE DEF p
      <4> QED
        BY <4>1 DEF Keys
    <3> QED
      BY <3>1
  <2> HIDE DEF p
  <2>4. Keys(S) \subseteq Keys(p.cookies)
    BY <2>2 DEF Keys
  <2>5. Keys(p.cookies) \subseteq Keys(j.cookies) \cup Keys(S)
    BY <2>1 DEF Keys
  <2>6. Keys(j.cookies) \subseteq Keys(p.cookies) \cup Keys(S)
    BY <2>3 DEF Keys
  <2> QED
    BY <2>4, <2>5, <2>6
<1> HIDE DEF p
<1> QED
  BY <1>9, <1>15, <1>16, <1>17 DEF p

\* What a line says of the scope of a cookie is one scope, or nothing.
LEMMA ScopeIsHome ==
  ASSUME NEW t \in Targets, NEW l \in Lines
  PROVE  /\ \E S : Scope(t.host, l.domain) \subseteq {S}
         /\ \A s \in Scope(t.host, l.domain) :
              /\ s.domain \in Seq(STRING) /\ s.hostOnly \in BOOLEAN
              /\ AtHome(CookieOf(t, l, s))
<1> DEFINE host == t.host
           domain == l.domain
<1>1. host \in Seq(STRING) /\ host # <<>> /\ domain \in Seq(STRING)
  BY JarAssumption DEF JarAssumption
<1>2. CASE domain \in {<<>>, host}
  <2> DEFINE S == [domain |-> host, hostOnly |-> domain = <<>>]
  <2>1. Scope(host, domain) = {S}
    BY <1>2 DEF Scope
  <2>2. S.domain = host /\ S.hostOnly \in BOOLEAN
    OBVIOUS
  <2>3. CookieOf(t, l, S).domain = host /\ CookieOf(t, l, S).value = host
    BY <2>2 DEF CookieOf
  <2> HIDE DEF S
  <2>4. AtHome(CookieOf(t, l, S))
    BY <1>1, <2>3 DEF AtHome
  <2> QED
    BY <1>1, <2>1, <2>2, <2>4
<1>3. CASE domain \notin {<<>>, host}
  <2> DEFINE S == [domain |-> domain, hostOnly |-> FALSE]
  <2>1. Scope(host, domain) =
          {s \in {S} : domain \notin PublicSuffixes /\ DomainMatches(host, domain)}
    BY <1>3 DEF Scope
  <2>2. S.domain = domain /\ S.hostOnly = FALSE
    OBVIOUS
  <2>3. /\ CookieOf(t, l, S).domain = domain /\ CookieOf(t, l, S).value = host
        /\ CookieOf(t, l, S).hostOnly = FALSE
    BY <2>2 DEF CookieOf
  <2> HIDE DEF S
  <2>4. domain \notin PublicSuffixes /\ DomainMatches(host, domain)
          => AtHome(CookieOf(t, l, S))
    BY <1>1, <1>3, <2>3 DEF AtHome
  <2> HIDE DEF host, domain
  <2>5. /\ Scope(host, domain) \subseteq {S}
        /\ Scope(host, domain) # {} =>
             domain \notin PublicSuffixes /\ DomainMatches(host, domain)
    BY <2>1
  <2> QED
    BY <1>1, <2>2, <2>4, <2>5 DEF host, domain
<1> QED
  BY <1>2, <1>3

\* The cookies a line sets, one or none.
LEMMA LineIsOK ==
  ASSUME now \in Nat, NEW t \in Targets, NEW l \in Lines
  PROVE  LET S == {CookieOf(t, l, s) : s \in Scope(t.host, l.domain)}
         IN  /\ CookiesOK(S)
             /\ Keys(S) = LineKeys(t, l)
             /\ l.life # 0 => \A c \in S : ~ IsExpired(c, now)
<1> DEFINE scopes == Scope(t.host, l.domain)
           S == {CookieOf(t, l, s) : s \in scopes}
<1>1. ASSUME NEW s \in scopes
      PROVE  /\ CookieOf(t, l, s) \in Cookie /\ AtHome(CookieOf(t, l, s))
             /\ Key(CookieOf(t, l, s)) = <<l.name, s.domain, PathOf(t, l)>>
             /\ l.life # 0 => ~ IsExpired(CookieOf(t, l, s), now)
  <2>1. s.domain \in Seq(STRING) /\ s.hostOnly \in BOOLEAN /\ AtHome(CookieOf(t, l, s))
    BY ScopeIsHome
  <2>2. t.host \in Seq(STRING) /\ l.life \in Nat \cup {Never}
    BY JarAssumption DEF JarAssumption
  <2> DEFINE at == IF l.life = Never THEN Never ELSE now + l.life
             path == PathOf(t, l)
  <2>3. at \in Int /\ (l.life # 0 => at = Never \/ at > now)
    BY <2>2 DEF Never
  <2>4. path \in {PathOf(u, m) : u \in Targets, m \in Lines}
    OBVIOUS
  <2>5. CookieOf(t, l, s) =
          [name |-> l.name, value |-> t.host, secure |-> l.secure, domain |-> s.domain,
           hostOnly |-> s.hostOnly, path |-> path, expires |-> at, born |-> 0, used |-> 0]
    BY DEF CookieOf
  <2>6. l.name \in {m.name : m \in Lines} /\ l.secure \in {m.secure : m \in Lines}
    OBVIOUS
  <2> HIDE DEF at, path
  <2>7. CookieOf(t, l, s) \in Cookie
    <3> DEFINE names == {m.name : m \in Lines}
               flags == {m.secure : m \in Lines}
               hosts == Seq(STRING)
               paths == {PathOf(u, m) : u \in Targets, m \in Lines}
    <3>1. Cookie = [name : names, value : hosts, secure : flags, domain : hosts,
                    hostOnly : BOOLEAN, path : paths, expires : Int, born : Nat, used : Nat]
      BY DEF Cookie
    <3>2. /\ l.name \in names /\ l.secure \in flags /\ path \in paths
          /\ t.host \in hosts /\ s.domain \in hosts
      BY <2>1, <2>2, <2>4, <2>6
    <3> HIDE DEF names, flags, hosts, paths
    <3> QED
      BY <2>1, <2>3, <2>5, <3>1, <3>2
  <2>8. Key(CookieOf(t, l, s)) = <<l.name, s.domain, path>>
    BY <2>5 DEF Key
  <2>9. l.life # 0 => ~ IsExpired(CookieOf(t, l, s), now)
    <3>1. CookieOf(t, l, s).expires = at
      BY <2>5
    <3> QED
      BY <2>3, <3>1 DEF IsExpired, Never
  <2> QED
    BY <2>1, <2>7, <2>8, <2>9 DEF path
<1>2. PICK x : scopes \subseteq {x}
  BY ScopeIsHome
<1>3. S \subseteq {CookieOf(t, l, x)}
  BY <1>2
<1>4. IsFiniteSet(S)
  <2>1. IsFiniteSet({CookieOf(t, l, x)})
    BY FS_Singleton
  <2> HIDE DEF S
  <2> QED
    BY <1>3, <2>1, FS_Subset
<1>5. OneAKey(S)
  BY <1>3 DEF OneAKey
<1>6. S \subseteq Cookie /\ \A c \in S : AtHome(c) /\ (l.life # 0 => ~ IsExpired(c, now))
  BY <1>1
<1>7. Keys(S) = LineKeys(t, l)
  BY <1>1 DEF Keys, LineKeys
<1> HIDE DEF S
<1>8. CookiesOK(S)
  BY <1>4, <1>5, <1>6 DEF CookiesOK
<1> QED
  BY <1>6, <1>7, <1>8 DEF S

\* A line touches the cookie it names, or takes it out.
LEMMA StoreLineWorks ==
  ASSUME now \in Nat, NEW j, JarOK(j), NEW t \in Targets, NEW l \in Lines
  PROVE  LET p == StoreLine(j, t, l)
         IN  /\ Became(j, p, LineKeys(t, l)) /\ p.tick >= j.tick
             /\ \A k \in Keys(j.cookies) :
                  k \in Keys(p.cookies) \/ (l.life = 0 /\ k \in LineKeys(t, l))
<1> DEFINE S == {CookieOf(t, l, s) : s \in Scope(t.host, l.domain)}
           p == StoreLine(j, t, l)
<1>1. ASSUME l.life = 0
      PROVE  /\ Became(j, p, LineKeys(t, l)) /\ p.tick >= j.tick
             /\ \A k \in Keys(j.cookies) :
                  k \in Keys(p.cookies) \/ (l.life = 0 /\ k \in LineKeys(t, l))
  <2>1. /\ j.cookies \subseteq Cookie /\ j.tick \in Nat
        /\ j = [cookies |-> j.cookies, tick |-> j.tick]
    BY DEF JarOK
  <2> DEFINE left == {c \in j.cookies : Key(c) \notin LineKeys(t, l)}
  <2>2. p = [j EXCEPT !.cookies = left]
    BY <1>1 DEF StoreLine
  <2>3. left \in SUBSET j.cookies
    OBVIOUS
  <2>4. p = [cookies |-> left, tick |-> j.tick]
    BY <2>1, <2>2
  <2>5. CookiesOK(left)
    BY <2>3, SubsetsAreOK DEF JarOK
  <2>6. \A c \in left : c \in j.cookies /\ Key(c) \notin LineKeys(t, l)
    OBVIOUS
  <2>7. \A k \in Keys(j.cookies) : k \in Keys(left) \/ k \in LineKeys(t, l)
    BY DEF Keys
  <2> HIDE DEF left, p
  <2>8. p.cookies = left /\ p.tick = j.tick
    BY <2>4
  <2>9. JarOK(p)
    BY <2>1, <2>3, <2>4, <2>5, <2>8 DEF JarOK
  <2>10. Became(j, p, LineKeys(t, l))
    BY <2>6, <2>8, <2>9 DEF Became
  <2>11. p.tick >= j.tick
    BY <2>1, <2>8
  <2>12. \A k \in Keys(j.cookies) :
           k \in Keys(p.cookies) \/ (l.life = 0 /\ k \in LineKeys(t, l))
    BY <1>1, <2>7, <2>8
  <2> QED
    BY <2>10, <2>11, <2>12
<1>2. ASSUME l.life # 0
      PROVE  /\ Became(j, p, LineKeys(t, l)) /\ p.tick >= j.tick
             /\ \A k \in Keys(j.cookies) :
                  k \in Keys(p.cookies) \/ (l.life = 0 /\ k \in LineKeys(t, l))
  <2>1. p = Put(j, S)
    BY <1>2 DEF StoreLine
  <2>2. CookiesOK(S) /\ Keys(S) = LineKeys(t, l) /\ \A c \in S : ~ IsExpired(c, now)
    BY <1>2, LineIsOK
  <2> HIDE DEF S, p
  <2>0. CookiesOK(S)
    BY <2>2
  <2> DEFINE r == Put(j, S)
  <2>3. /\ JarOK(p) /\ p.tick >= j.tick
        /\ \A c \in p.cookies :
              \/ c \in j.cookies /\ Key(c) \notin Keys(S)
              \/ /\ c.used > j.tick
                 /\ \E s \in S : Key(c) = Key(s) /\ c.expires = s.expires
        /\ Keys(p.cookies) = Keys(j.cookies) \cup Keys(S)
    <3>1. /\ JarOK(r) /\ r.tick >= j.tick
          /\ \A c \in r.cookies :
                \/ c \in j.cookies /\ Key(c) \notin Keys(S)
                \/ /\ c.used > j.tick
                   /\ \E s \in S : Key(c) = Key(s) /\ c.expires = s.expires
          /\ Keys(r.cookies) = Keys(j.cookies) \cup Keys(S)
      BY <2>0, PutWorks
    <3>2. p = r
      BY <2>1
    <3> HIDE DEF r
    <3> QED
      BY <3>1, <3>2
  <2>4. ASSUME NEW c \in p.cookies, NEW s \in S, Key(c) = Key(s), c.expires = s.expires
        PROVE  Key(c) \in LineKeys(t, l) /\ ~ IsExpired(c, now)
    <3>1. Key(s) \in Keys(S)
      BY DEF Keys
    <3>2. ~ IsExpired(s, now)
      BY <2>2
    <3> QED
      BY <2>2, <2>4, <3>1, <3>2 DEF IsExpired
  <2>5. Became(j, p, LineKeys(t, l))
    BY <2>2, <2>3, <2>4 DEF Became
  <2>6. \A k \in Keys(j.cookies) :
           k \in Keys(p.cookies) \/ (l.life = 0 /\ k \in LineKeys(t, l))
    BY <2>3
  <2> QED
    BY <2>3, <2>5, <2>6
<1>3. /\ Became(j, p, LineKeys(t, l)) /\ p.tick >= j.tick
      /\ \A k \in Keys(j.cookies) :
           k \in Keys(p.cookies) \/ (l.life = 0 /\ k \in LineKeys(t, l))
  BY <1>1, <1>2
<1> QED
  BY <1>3

-----------------------------------------------------------------------------
\* The last of some numbers up to n is one of them.
LEMMA MaxIsThere ==
  ASSUME NEW n \in Nat, NEW T \in SUBSET (1..n), T # {}
  PROVE  Max(T) \in T
<1> DEFINE B == {n - x : x \in T}
           R == OpToRel(<, Nat)
<1>1. B \subseteq Nat /\ B # {}
  <2>1. ASSUME NEW x \in T PROVE n - x \in Nat /\ n - x \in B
    OBVIOUS
  <2> QED
    BY <2>1
<1>2. PICK y \in B : \A z \in B : ~ (<<z, y>> \in R)
  BY <1>1, NatLessThanWellFounded, WFMin
<1>3. PICK x \in T : y = n - x
  BY <1>2
<1>4. ASSUME NEW z \in T PROVE x >= z
  <2>1. n - z \in B
    OBVIOUS
  <2>2. n - z \in Nat /\ n - x \in Nat
    OBVIOUS
  <2>3. ~ (n - z < n - x)
    BY <1>2, <1>3, <2>1, <2>2 DEF OpToRel
  <2> QED
    BY <2>3
<1>5. \E m \in T : \A z \in T : m >= z
  BY <1>4
<1>6. (CHOOSE m \in T : \A z \in T : m >= z) \in T
  BY <1>5
<1> QED
  BY <1>6 DEF Max

\* The jars a response leads to, by the lines that were taken in.
Takes(j, t, lines, f) ==
  f = [T \in SUBSET DOMAIN lines |->
         IF T = {} THEN j ELSE LET x == Max(T) IN StoreLine(f[T \ {x}], t, lines[x])]

\* Taking the lines of a response one after the other is a function of those taken.
LEMMA LinesAreTaken ==
  ASSUME NEW j, NEW t, NEW n \in Nat, NEW lines, DOMAIN lines = 1..n
  PROVE  \E f : Takes(j, t, lines, f)
<1> DEFINE D == DOMAIN lines
           Next1(f, T) == IF T = {} THEN j
                         ELSE LET x == Max(T) IN StoreLine(f[T \ {x}], t, lines[x])
           Upto(f, m) == /\ f = [T \in SUBSET D |-> f[T]]
                         /\ \A T \in SUBSET D : Cardinality(T) <= m => f[T] = Next1(f, T)
           Bad == {m \in Nat : ~ \E f : Upto(f, m)}
           R == OpToRel(<, Nat)
<1>1. \A T \in SUBSET D : IsFiniteSet(T) /\ Cardinality(T) \in Nat /\ Cardinality(T) <= n
  <2>1. IsFiniteSet(1..n) /\ Cardinality(1..n) = n
    BY FS_Interval
  <2> QED
    BY <2>1, FS_Subset, FS_CardinalityType
<1>2. ASSUME NEW T \in SUBSET D, T # {}
      PROVE  /\ Max(T) \in T /\ T \ {Max(T)} \in SUBSET D
             /\ Cardinality(T \ {Max(T)}) = Cardinality(T) - 1
  <2>1. Max(T) \in T
    BY <1>2, MaxIsThere
  <2>2. IsFiniteSet(T)
    BY <1>1
  <2> QED
    BY <2>1, <2>2, FS_RemoveElement
<1>3. Bad = {}
  <2> SUFFICES ASSUME Bad # {} PROVE FALSE
    OBVIOUS
  <2>1. PICK m \in Bad : \A z \in Bad : ~ (<<z, m>> \in R)
    BY NatLessThanWellFounded, WFMin
  <2>0. m \in Nat
    OBVIOUS
  <2>2. CASE m = 0
    <3> DEFINE f == [T \in SUBSET D |-> j]
    <3>1. \A T \in SUBSET D : Cardinality(T) <= 0 => T = {}
      BY <1>1, FS_EmptySet
    <3>2. Upto(f, 0)
      BY <3>1
    <3> QED
      BY <2>1, <2>2, <3>2
  <2>3. CASE m # 0
    <3>1. m - 1 \in Nat /\ <<m - 1, m>> \in R
      BY <2>1, <2>3 DEF OpToRel
    <3>2. PICK f : Upto(f, m - 1)
      BY <2>1, <3>1
    <3> DEFINE g == [T \in SUBSET D |-> IF Cardinality(T) = m THEN Next1(f, T) ELSE f[T]]
    <3>3. ASSUME NEW T \in SUBSET D, Cardinality(T) <= m PROVE g[T] = Next1(g, T)
      <4>0. Cardinality(T) <= m
        BY <3>3
      <4>1. g[T] = Next1(f, T)
        <5>1. CASE Cardinality(T) = m
          BY <5>1
        <5>2. CASE Cardinality(T) # m
          <6>1. Cardinality(T) <= m - 1
            BY <1>1, <2>0, <4>0, <5>2
          <6>2. f[T] = Next1(f, T)
            BY <3>2, <6>1
          <6> QED
            BY <5>2, <6>2
        <5> QED
          BY <5>1, <5>2
      <4>2. CASE T # {}
        <5> DEFINE x == Max(T)
        <5>1. /\ T \ {x} \in SUBSET D
              /\ Cardinality(T \ {x}) = Cardinality(T) - 1
          BY <1>2, <4>2
        <5>2. Cardinality(T \ {x}) # m
          BY <1>1, <2>0, <4>0, <5>1
        <5> HIDE DEF x
        <5>3. g[T \ {x}] = f[T \ {x}]
          BY <5>1, <5>2
        <5>4. Next1(f, T) = Next1(g, T)
          BY <4>2, <5>3 DEF x
        <5> QED
          BY <4>1, <5>4
      <4> QED
        BY <4>1, <4>2
    <3>4. Upto(g, m)
      BY <3>3
    <3> QED
      BY <2>1, <3>4
  <2> QED
    BY <2>2, <2>3
<1>4. PICK f : Upto(f, n)
  BY <1>3
<1>5. \A T \in SUBSET D : f[T] = Next1(f, T)
  BY <1>1, <1>4
<1>6. f = [T \in SUBSET D |-> Next1(f, T)]
  BY <1>4, <1>5
<1> QED
  BY <1>6 DEF Takes

\* The keys some of the lines name, and those that some of them take out.
KeysOf(t, lines, T) == UNION {LineKeys(t, lines[i]) : i \in T}
GoneOf(t, lines, T) == UNION {LineKeys(t, lines[i]) : i \in {i \in T : lines[i].life = 0}}

\* What a jar is after some of the lines.
AfterLines(j, p, t, lines, T) ==
  /\ Became(j, p, KeysOf(t, lines, T)) /\ p.tick >= j.tick
  /\ \A k \in Keys(j.cookies) : k \in Keys(p.cookies) \cup GoneOf(t, lines, T)

\* One line more: what it names is used or gone, and the rest is as after the others.
LEMMA OneMoreLine ==
  ASSUME now \in Nat, NEW j, JarOK(j), NEW t \in Targets,
         NEW T, NEW x \in T, NEW lines,
         lines[x] \in Lines, NEW q, AfterLines(j, q, t, lines, T \ {x})
  PROVE  AfterLines(j, StoreLine(q, t, lines[x]), t, lines, T)
<1> DEFINE p == StoreLine(q, t, lines[x])
           K == LineKeys(t, lines[x])
           U(V) == KeysOf(t, lines, V)
           G(V) == GoneOf(t, lines, V)
<1>1. /\ JarOK(q) /\ Became(j, q, U(T \ {x})) /\ q.tick >= j.tick
      /\ \A k \in Keys(j.cookies) : k \in Keys(q.cookies) \cup G(T \ {x})
  BY DEF AfterLines, Became
<1>2. /\ Became(q, p, K) /\ p.tick >= q.tick
      /\ \A k \in Keys(q.cookies) :
            k \in Keys(p.cookies) \/ (lines[x].life = 0 /\ k \in K)
  BY <1>1, StoreLineWorks
<1>3. U(T) = U(T \ {x}) \cup K
  BY DEF KeysOf
<1>4. G(T \ {x}) \subseteq G(T) /\ (lines[x].life = 0 => K \subseteq G(T))
  BY DEF GoneOf
<1>5. j.tick \in Nat /\ q.tick \in Nat /\ p.tick \in Nat
  BY <1>1, <1>2 DEF JarOK, Became
<1> HIDE DEF p, K, U, G
<1>6. p.tick >= j.tick
  BY <1>1, <1>2, <1>5
<1>7. ASSUME NEW c \in p.cookies
      PROVE  \/ c \in j.cookies /\ Key(c) \notin U(T)
             \/ Key(c) \in U(T) /\ c.used > j.tick /\ ~ IsExpired(c, now)
  <2>1. CASE c \in q.cookies /\ Key(c) \notin K
    <3>1. \/ c \in j.cookies /\ Key(c) \notin U(T \ {x})
          \/ Key(c) \in U(T \ {x}) /\ c.used > j.tick /\ ~ IsExpired(c, now)
      BY <1>1, <2>1 DEF Became
    <3> QED
      BY <1>3, <2>1, <3>1
  <2>2. CASE Key(c) \in K /\ c.used > q.tick /\ ~ IsExpired(c, now)
    <3>1. c.used \in Nat
      BY <1>2 DEF Became, JarOK, Cookie
    <3>2. c.used > j.tick
      BY <1>1, <1>5, <2>2, <3>1
    <3> QED
      BY <1>3, <2>2, <3>2
  <2> QED
    BY <1>2, <2>1, <2>2 DEF Became
<1>8. Became(j, p, U(T))
  BY <1>2, <1>7 DEF Became
<1>9. \A k \in Keys(j.cookies) : k \in Keys(p.cookies) \cup G(T)
  BY <1>1, <1>2, <1>4
<1>10. AfterLines(j, p, t, lines, T)
  BY <1>6, <1>8, <1>9 DEF AfterLines, U, G
<1> QED
  BY <1>10 DEF p

\* A response uses the keys its lines name, and takes out those some line removes.
LEMMA ResponseWorks ==
  ASSUME now \in Nat, NEW j, JarOK(j), NEW t \in Targets,
         NEW n \in Nat, NEW lines \in [1..n -> Lines]
  PROVE  AfterLines(j, FoldLeft(LAMBDA acc, line : StoreLine(acc, t, line), j, lines),
                    t, lines, 1..n)
<1> DEFINE D == DOMAIN lines
           f == CHOOSE f : Takes(j, t, lines, f)
           Bad == {T \in SUBSET D : ~ AfterLines(j, f[T], t, lines, T)}
           R == StrictSubsetOrdering(D)
<1>1. D = 1..n
  OBVIOUS
<1>2. Takes(j, t, lines, f)
  BY LinesAreTaken
<1> HIDE DEF f
<1>3. IsFiniteSet(D)
  BY FS_Interval
<1>4. Bad = {}
  <2> SUFFICES ASSUME Bad # {} PROVE FALSE
    OBVIOUS
  <2>1. Bad \subseteq FiniteSubsetsOf(D)
    BY <1>3, FS_Subset DEF FiniteSubsetsOf
  <2>2. PICK T \in Bad : \A V \in Bad : ~ (<<V, T>> \in R)
    BY <2>1, FS_StrictSubsetOrderingWellFounded, WFMin
  <2>3. T \in SUBSET D /\ ~ AfterLines(j, f[T], t, lines, T)
    OBVIOUS
  <2>4. CASE T = {}
    <3>1. f[T] = j
      BY <1>2, <2>3, <2>4 DEF Takes
    <3>2. Became(j, j, {})
      BY DEF Became
    <3>3. KeysOf(t, lines, T) = {}
      BY <2>4 DEF KeysOf
    <3>4. j.tick >= j.tick
      BY DEF JarOK
    <3>5. AfterLines(j, j, t, lines, T)
      BY <3>2, <3>3, <3>4 DEF AfterLines
    <3> QED
      BY <2>3, <3>1, <3>5
  <2>5. CASE T # {}
    <3> DEFINE x == Max(T)
    <3>1. x \in T
      BY <1>1, <2>3, <2>5, MaxIsThere
    <3>2. f[T] = StoreLine(f[T \ {x}], t, lines[x])
      BY <1>2, <2>3, <2>5 DEF Takes
    <3> HIDE DEF x
    <3>3. T \ {x} \in SUBSET D /\ <<T \ {x}, T>> \in R
      BY <2>3, <3>1 DEF StrictSubsetOrdering
    <3>4. AfterLines(j, f[T \ {x}], t, lines, T \ {x})
      BY <2>2, <3>3
    <3>5. lines[x] \in Lines
      BY <2>3, <3>1
    <3>6. AfterLines(j, StoreLine(f[T \ {x}], t, lines[x]), t, lines, T)
      BY <3>1, <3>4, <3>5, OneMoreLine
    <3> QED
      BY <2>3, <3>2, <3>6
  <2> QED
    BY <2>4, <2>5
<1>5. AfterLines(j, f[D], t, lines, D)
  BY <1>4
<1>6. FoldLeft(LAMBDA acc, line : StoreLine(acc, t, line), j, lines) = f[D]
  BY DEF FoldLeft, MapThenFoldSet, Takes, f
<1> QED
  BY <1>1, <1>5, <1>6

-----------------------------------------------------------------------------
\* Where only so many of a set stay, one that goes was used before one that stays.
LEMMA LeastUsedGo ==
  ASSUME NEW S, S \subseteq Cookie, IsFiniteSet(S), NEW room \in Nat, NEW c \in S, NEW q \in S,
         ~ (Cardinality(UsedAfter(c, S)) < room), Cardinality(UsedAfter(q, S)) < room
  PROVE  c.used < q.used
<1>1. c.used \in Nat /\ q.used \in Nat /\ \A d \in S : d.used \in Nat
  BY DEF Cookie
<1>2. SUFFICES ASSUME c.used >= q.used PROVE FALSE
  BY <1>1
<1>3. UsedAfter(c, S) \subseteq UsedAfter(q, S)
  BY <1>1, <1>2 DEF UsedAfter
<1>4. IsFiniteSet(UsedAfter(q, S))
  <2>1. UsedAfter(q, S) \in SUBSET S
    BY DEF UsedAfter
  <2> QED
    BY <2>1, FS_Subset
<1>5. /\ IsFiniteSet(UsedAfter(c, S))
      /\ Cardinality(UsedAfter(c, S)) <= Cardinality(UsedAfter(q, S))
  BY <1>3, <1>4, FS_Subset
<1>6. Cardinality(UsedAfter(c, S)) \in Nat /\ Cardinality(UsedAfter(q, S)) \in Nat
  BY <1>4, <1>5, FS_CardinalityType
<1> QED
  BY <1>5, <1>6

\* A jar that lost cookies is a jar.
LEMMA SmallerJarsAreOK ==
  ASSUME NEW j, JarOK(j), NEW T \in SUBSET j.cookies
  PROVE  JarOK([j EXCEPT !.cookies = T]) /\ [j EXCEPT !.cookies = T].cookies = T
         /\ [j EXCEPT !.cookies = T].tick = j.tick
<1>1. /\ j.cookies \subseteq Cookie /\ j.tick \in Nat
      /\ j = [cookies |-> j.cookies, tick |-> j.tick]
  BY DEF JarOK
<1> DEFINE p == [j EXCEPT !.cookies = T]
<1>2. p = [cookies |-> T, tick |-> j.tick]
  BY <1>1
<1>3. CookiesOK(T)
  BY SubsetsAreOK DEF JarOK
<1> HIDE DEF p
<1>4. p.cookies = T /\ p.tick = j.tick /\ p \in [cookies : SUBSET Cookie, tick : Nat]
  BY <1>1, <1>2
<1>5. JarOK(p)
  BY <1>3, <1>4 DEF JarOK
<1> QED
  BY <1>4, <1>5 DEF p

\* What an eviction takes from a jar has expired, or was used before everything it leaves
\* under the same domain.
LEMMA EvictWorks ==
  ASSUME NEW p, JarOK(p)
  PROVE  /\ JarOK(Evict(p)) /\ Evict(p).tick = p.tick
         /\ Evict(p).cookies \subseteq p.cookies
         /\ \A c \in p.cookies \ Evict(p).cookies :
              \/ IsExpired(c, now)
              \/ \A q \in Evict(p).cookies : q.domain = c.domain => c.used < q.used
<1> DEFINE live == Live(p.cookies)
           near(c) == {d \in live : d.domain = c.domain}
           trimmed == {c \in live : Cardinality(UsedAfter(c, near(c))) < MaxPerDomain}
           left == {c \in trimmed : Cardinality(UsedAfter(c, trimmed)) < MaxCookies}
<1>1. Evict(p) = [p EXCEPT !.cookies = left]
  BY DEF Evict
<1>2. live \subseteq p.cookies /\ \A c \in p.cookies \ live : IsExpired(c, now)
  BY DEF Live
<1>3. trimmed \subseteq live /\ left \subseteq trimmed
  OBVIOUS
<1>4. p.cookies \subseteq Cookie /\ IsFiniteSet(p.cookies)
  BY DEF JarOK, CookiesOK
<1>5. MaxPerDomain \in Nat /\ MaxCookies \in Nat
  BY JarAssumption DEF JarAssumption
<1>6. /\ live \subseteq Cookie /\ IsFiniteSet(live)
      /\ trimmed \subseteq Cookie /\ IsFiniteSet(trimmed)
  <2> HIDE DEF live, trimmed
  <2> QED
    BY <1>2, <1>3, <1>4, FS_Subset
<1>7. ASSUME NEW c \in live \ trimmed, NEW q \in left, q.domain = c.domain
      PROVE  c.used < q.used
  <2>1. near(q) = near(c)
    BY <1>7
  <2>2. q \in trimmed
    OBVIOUS
  <2>3. /\ ~ (Cardinality(UsedAfter(c, near(c))) < MaxPerDomain)
        /\ Cardinality(UsedAfter(q, near(q))) < MaxPerDomain
    BY <1>3, <2>2
  <2>4. c \in near(c) /\ q \in near(c) /\ near(c) \in SUBSET live
    BY <1>3, <1>7, <2>2
  <2> HIDE DEF live, near, trimmed, left
  <2>5. near(c) \subseteq Cookie /\ IsFiniteSet(near(c))
    BY <1>6, <2>4, FS_Subset
  <2>6. Cardinality(UsedAfter(q, near(c))) < MaxPerDomain
    BY <2>1, <2>3
  <2> QED
    BY <1>5, <2>3, <2>4, <2>5, <2>6, LeastUsedGo
<1>8. ASSUME NEW c \in trimmed \ left, NEW q \in left PROVE c.used < q.used
  <2>1. /\ ~ (Cardinality(UsedAfter(c, trimmed)) < MaxCookies)
        /\ Cardinality(UsedAfter(q, trimmed)) < MaxCookies
        /\ q \in trimmed /\ c \in trimmed
    OBVIOUS
  <2> HIDE DEF trimmed, left
  <2> QED
    BY <1>5, <1>6, <2>1, LeastUsedGo
<1> HIDE DEF live, trimmed, left
<1>9. left \in SUBSET p.cookies
  BY <1>2, <1>3
<1>10. JarOK(Evict(p)) /\ Evict(p).tick = p.tick /\ Evict(p).cookies = left
  BY <1>1, <1>9, SmallerJarsAreOK
<1>11. ASSUME NEW c \in p.cookies \ left
       PROVE  IsExpired(c, now) \/ \A q \in left : q.domain = c.domain => c.used < q.used
  BY <1>2, <1>7, <1>8
<1> QED
  BY <1>9, <1>10, <1>11

-----------------------------------------------------------------------------
\* What has expired leaves a jar.
LEMMA DropWorks ==
  ASSUME NEW j, JarOK(j)
  PROVE  /\ Became(j, DropExpired(j), {}) /\ DropExpired(j).cookies = Live(j.cookies)
         /\ DropExpired(j).tick = j.tick
<1>1. Live(j.cookies) \in SUBSET j.cookies
  BY DEF Live
<1> DEFINE live == Live(j.cookies)
<1>2. DropExpired(j) = [j EXCEPT !.cookies = live]
  BY DEF DropExpired
<1> HIDE DEF live
<1>3. /\ JarOK(DropExpired(j)) /\ DropExpired(j).cookies = live
      /\ DropExpired(j).tick = j.tick
  BY <1>1, <1>2, SmallerJarsAreOK DEF live
<1>4. \A c \in live : c \in j.cookies
  BY <1>1 DEF live
<1> QED
  BY <1>3, <1>4 DEF Became, live

\* A jar that lost more is still what it became.
LEMMA EvictedBecame ==
  ASSUME NEW j, NEW p, NEW U, Became(j, p, U)
  PROVE  Became(j, Evict(p), U)
  BY EvictWorks DEF Became

\* Cookies that are alive go into a jar.
LEMMA PutBecame ==
  ASSUME NEW j, JarOK(j), NEW S, CookiesOK(S), \A c \in S : ~ IsExpired(c, now)
  PROVE  /\ Became(j, Put(j, S), Keys(S))
         /\ Keys(Put(j, S).cookies) = Keys(j.cookies) \cup Keys(S)
<1> DEFINE p == Put(j, S)
<1>1. /\ JarOK(p)
      /\ \A c \in p.cookies :
            \/ c \in j.cookies /\ Key(c) \notin Keys(S)
            \/ /\ c.used > j.tick
               /\ \E s \in S : Key(c) = Key(s) /\ c.expires = s.expires
      /\ Keys(p.cookies) = Keys(j.cookies) \cup Keys(S)
  BY PutWorks
<1> HIDE DEF p
<1>2. ASSUME NEW c \in p.cookies, NEW s \in S, Key(c) = Key(s), c.expires = s.expires
      PROVE  Key(c) \in Keys(S) /\ ~ IsExpired(c, now)
  <2>1. Key(s) \in Keys(S) /\ ~ IsExpired(s, now)
    BY DEF Keys
  <2> QED
    BY <1>2, <2>1 DEF IsExpired
<1>3. Became(j, p, Keys(S))
  BY <1>1, <1>2 DEF Became
<1> QED
  BY <1>1, <1>3 DEF p

\* A request uses the cookies it carries.
LEMMA SelectedBecame ==
  ASSUME NEW j, JarOK(j), NEW t
  PROVE  /\ Became(j, Selected(j, t), Keys(Chosen(j, t)))
         /\ Keys(Live(j.cookies)) \subseteq Keys(Selected(j, t).cookies)
<1> DEFINE live == DropExpired(j)
           S == Chosen(j, t)
           p == Put(live, S)
<1>1. S \in SUBSET j.cookies /\ \A c \in S : ~ IsExpired(c, now)
  BY DEF Chosen, Live
<1>2. CookiesOK(S)
  BY <1>1, SubsetsAreOK DEF JarOK
<1>3. Became(j, live, {}) /\ live.cookies = Live(j.cookies) /\ live.tick = j.tick
  BY DropWorks
<1> HIDE DEF live, S
<1>4. Became(live, p, Keys(S)) /\ Keys(p.cookies) = Keys(live.cookies) \cup Keys(S)
  BY <1>1, <1>2, <1>3, PutBecame DEF Became
<1> HIDE DEF p
<1>5. Became(j, p, Keys(S))
  BY <1>3, <1>4 DEF Became
<1>6. Selected(j, t) = p
  BY DEF Selected, p, S, live
<1> QED
  BY <1>3, <1>4, <1>5, <1>6 DEF S

\* A snapshot holds what is alive.
LEMMA SnapshotIsOK ==
  ASSUME NEW j, JarOK(j)
  PROVE  CookiesOK(Snapshot(j))
<1> DEFINE live == Live(j.cookies)
           at(c) == Place(c, live)
           new(c) == [c EXCEPT !.born = at(c), !.used = 0]
           S == {new(c) : c \in live}
<1>1. live \in SUBSET j.cookies
  BY DEF Live
<1>2. CookiesOK(live)
  BY <1>1, SubsetsAreOK DEF JarOK
<1> HIDE DEF live
<1>3. live \subseteq Cookie /\ IsFiniteSet(live) /\ OneAKey(live) /\ \A c \in live : AtHome(c)
  BY <1>2 DEF CookiesOK
<1>4. ASSUME NEW c \in live
      PROVE  new(c) \in Cookie /\ Key(new(c)) = Key(c) /\ AtHome(new(c))
  <2>1. at(c) \in Nat
    BY <1>3, PlaceIsPositive
  <2>2. c \in Cookie
    BY <1>3
  <2> HIDE DEF at
  <2>3. new(c) \in Cookie
    BY <2>1, <2>2, TicksOfCookies
  <2>4. /\ new(c).name = c.name /\ new(c).domain = c.domain /\ new(c).path = c.path
        /\ new(c).value = c.value /\ new(c).hostOnly = c.hostOnly
    BY <2>2 DEF Cookie
  <2> HIDE DEF new
  <2> QED
    BY <1>3, <2>3, <2>4 DEF Key, AtHome
<1> HIDE DEF new
<1>5. S \subseteq Cookie /\ \A c \in S : AtHome(c)
  BY <1>4
<1>6. IsFiniteSet(S)
  <2> DEFINE f == [c \in live |-> new(c)]
  <2>1. f \in Surjection(live, S)
    BY DEF Surjection
  <2> QED
    BY <1>3, <2>1, FS_Surjection
<1>7. OneAKey(S)
  BY <1>3, <1>4 DEF OneAKey
<1>8. Snapshot(j) = S
  BY DEF Snapshot, S, new, at, live
<1> HIDE DEF S
<1> QED
  BY <1>5, <1>6, <1>7, <1>8 DEF CookiesOK

\* Everything in the jar and in the snapshot is scoped as its setter could scope it.
JarInv == JarOK(held) /\ CookiesOK(saved) /\ now \in Nat /\ steps \in Nat

\* The order of uses is that of the calls that made them.
UseInv ==
  /\ lastUse \in [Keys(held.cookies) -> Nat]
  /\ \A k \in Keys(held.cookies) : lastUse[k] <= steps
  /\ \A c, d \in held.cookies : c.used < d.used => lastUse[Key(c)] <= lastUse[Key(d)]

\* A call keeps the order of uses: what it used is the newest.
LEMMA UseKept ==
  ASSUME JarInv, UseInv, NEW j \in {held, Empty}, NEW U, Became(j, held', U), Used(U),
         steps' = steps + 1
  PROVE  UseInv'
<1>1. \A c \in j.cookies : c \in held.cookies /\ c.used <= j.tick
  BY DEF JarInv, JarOK, Empty
<1>2. j.tick \in Nat /\ steps \in Nat
  BY DEF JarInv, JarOK, Empty
<1>3. \A c \in held'.cookies :
        /\ c.used \in Nat
        /\ \/ c \in held.cookies /\ c.used <= j.tick /\ Key(c) \notin U
           \/ Key(c) \in U /\ c.used > j.tick
  <2>1. held'.cookies \subseteq Cookie
    BY DEF Became, JarOK
  <2> QED
    BY <1>1, <2>1 DEF Became, Cookie
<1>4. lastUse' = [k \in Keys(held'.cookies) |-> IF k \in U THEN steps' ELSE lastUse[k]]
  BY DEF Used
<1>5. ASSUME NEW c \in held'.cookies
      PROVE  /\ lastUse'[Key(c)] \in Nat /\ lastUse'[Key(c)] <= steps'
             /\ Key(c) \in U => lastUse'[Key(c)] = steps'
             /\ Key(c) \notin U => /\ c \in held.cookies
                                   /\ lastUse'[Key(c)] = lastUse[Key(c)]
  <2>1. Key(c) \in Keys(held'.cookies)
    BY DEF Keys
  <2>2. lastUse'[Key(c)] = IF Key(c) \in U THEN steps' ELSE lastUse[Key(c)]
    BY <1>4, <2>1
  <2>3. CASE Key(c) \in U
    BY <1>2, <2>2, <2>3
  <2>4. CASE Key(c) \notin U
    <3>1. c \in held.cookies
      BY <1>3, <2>4
    <3>2. Key(c) \in Keys(held.cookies)
      BY <3>1 DEF Keys
    <3>3. lastUse[Key(c)] \in Nat /\ lastUse[Key(c)] <= steps
      BY <3>2 DEF UseInv
    <3> QED
      BY <1>2, <2>2, <2>4, <3>1, <3>3
  <2> QED
    BY <2>3, <2>4
<1>6. ASSUME NEW c \in held'.cookies, NEW d \in held'.cookies, c.used < d.used
      PROVE  lastUse'[Key(c)] <= lastUse'[Key(d)]
  <2>1. CASE Key(d) \in U
    BY <1>5, <2>1
  <2>2. CASE Key(d) \notin U
    <3>1. d \in held.cookies /\ d.used <= j.tick
      BY <1>3, <2>2
    <3>2. Key(c) \notin U
      BY <1>2, <1>3, <1>6, <3>1
    <3>3. c \in held.cookies /\ lastUse'[Key(c)] = lastUse[Key(c)]
      BY <1>5, <3>2
    <3>4. lastUse'[Key(d)] = lastUse[Key(d)]
      BY <1>5, <2>2
    <3> QED
      BY <1>6, <3>1, <3>3, <3>4 DEF UseInv
  <2> QED
    BY <2>1, <2>2
<1>7. lastUse' \in [Keys(held'.cookies) -> Nat]
      /\ \A k \in Keys(held'.cookies) : lastUse'[k] <= steps'
  <2>1. \A k \in Keys(held'.cookies) : \E c \in held'.cookies : k = Key(c)
    BY DEF Keys
  <2>2. \A k \in Keys(held'.cookies) : lastUse'[k] \in Nat /\ lastUse'[k] <= steps'
    BY <1>5, <2>1
  <2>3. lastUse' = [k \in Keys(held'.cookies) |-> lastUse'[k]]
    BY <1>4
  <2> QED
    BY <2>2, <2>3
<1>8. /\ lastUse' \in [Keys(held'.cookies) -> Nat]
      /\ \A k \in Keys(held'.cookies) : lastUse'[k] <= steps'
      /\ \A c, d \in held'.cookies : c.used < d.used => lastUse'[Key(c)] <= lastUse'[Key(d)]
  BY <1>6, <1>7
<1> QED
  BY <1>8 DEF UseInv, Keys, Key

\* What a full jar gives up was used before all that stays under its domain.
LEMMA GivenUpWasOld ==
  ASSUME JarInv, UseInv, NEW p, NEW U,
         Became(held, p, U), held' = Evict(p), Used(U),
         steps' = steps + 1,
         NEW k \in Keys(held.cookies), k \in Keys(p.cookies),
         k \notin Keys(held'.cookies)
  PROVE  \/ Expired(k)
         \/ \A q \in Keys(held'.cookies) : q[2] = k[2] => lastUse[k] <= lastUse'[q]
<1>1. PICK c \in p.cookies : k = Key(c)
  BY DEF Keys
<1>2. c \notin held'.cookies
  BY <1>1 DEF Keys
<1>3. /\ held'.cookies \subseteq p.cookies
      /\ \/ IsExpired(c, now)
         \/ \A q \in held'.cookies : q.domain = c.domain => c.used < q.used
  BY <1>1, <1>2, EvictWorks DEF Became
<1>4. \/ c \in held.cookies /\ Key(c) \notin U
      \/ Key(c) \in U /\ c.used > held.tick /\ ~ IsExpired(c, now)
  BY DEF Became
<1>5. CASE IsExpired(c, now)
  BY <1>1, <1>4, <1>5 DEF Expired
<1>6. ASSUME \A q \in held'.cookies : q.domain = c.domain => c.used < q.used,
             NEW q \in Keys(held'.cookies), q[2] = k[2]
      PROVE  lastUse[k] <= lastUse'[q]
  <2>1. PICK d \in held'.cookies : q = Key(d)
    BY DEF Keys
  <2>2. d.domain = c.domain
    BY <1>1, <1>6, <2>1 DEF Key
  <2>3. c.used < d.used /\ d \in p.cookies
    BY <1>3, <1>6, <2>2
  <2>4. lastUse'[q] = IF q \in U THEN steps' ELSE lastUse[q]
    BY DEF Used
  <2>5. CASE q \in U
    <3>1. lastUse[k] \in Nat /\ lastUse[k] <= steps
      BY DEF UseInv
    <3> QED
      BY <2>4, <2>5, <3>1 DEF JarInv
  <2>6. CASE q \notin U
    <3>1. d \in held.cookies
      BY <2>1, <2>3, <2>6 DEF Became
    <3>2. d.used <= held.tick /\ d.used \in Nat /\ c.used \in Nat /\ held.tick \in Nat
      BY <3>1 DEF JarInv, JarOK, Became, Cookie
    <3>3. c \in held.cookies
      BY <1>4, <2>3, <3>2
    <3> QED
      BY <1>1, <2>1, <2>3, <2>4, <2>6, <3>1, <3>3 DEF UseInv
  <2> QED
    BY <2>5, <2>6
<1> QED
  BY <1>3, <1>5, <1>6

-----------------------------------------------------------------------------
\* What the jar becomes in each call.
LEMMA StoreBecomes ==
  ASSUME JarInv, NEW t \in Targets, NEW ls \in Responses
  PROVE  LET p == FoldLeft(LAMBDA acc, line : StoreLine(acc, t, line), held, ls)
         IN  /\ Became(held, p, UNION {LineKeys(t, ls[i]) : i \in DOMAIN ls})
             /\ Stored(held, t, ls) = Evict(p)
             /\ \A k \in Keys(held.cookies) :
                  \/ k \in Keys(p.cookies)
                  \/ \E i \in DOMAIN ls : ls[i].life = 0 /\ k \in LineKeys(t, ls[i])
<1>1. PICK n \in Nat : ls \in [1..n -> Lines]
  <2>1. ASSUME NEW l \in Lines, ls = <<l>> PROVE ls \in [1..1 -> Lines]
    BY <2>1
  <2>2. ASSUME NEW l \in Lines, NEW m \in Lines, ls = <<l, m>> PROVE ls \in [1..2 -> Lines]
    BY <2>2
  <2>3. CASE ls \in {<<l>> : l \in Lines}
    BY <2>1, <2>3
  <2>4. CASE ls \in {<<l, m>> : l, m \in Lines}
    <3>1. \E l, m \in Lines : ls = <<l, m>>
      BY <2>4
    <3> QED
      BY <2>2, <3>1
  <2> QED
    BY <2>3, <2>4 DEF Responses
<1> DEFINE p == FoldLeft(LAMBDA acc, line : StoreLine(acc, t, line), held, ls)
<1>2. DOMAIN ls = 1..n
  BY <1>1
<1>3. AfterLines(held, p, t, ls, 1..n)
  BY <1>1, ResponseWorks DEF JarInv
<1>4. Stored(held, t, ls) = Evict(p)
  BY DEF Stored
<1> HIDE DEF p
<1>5. Became(held, p, UNION {LineKeys(t, ls[i]) : i \in DOMAIN ls})
  BY <1>2, <1>3 DEF AfterLines, KeysOf
<1>6. \A k \in Keys(held.cookies) :
        \/ k \in Keys(p.cookies)
        \/ \E i \in DOMAIN ls : ls[i].life = 0 /\ k \in LineKeys(t, ls[i])
  BY <1>2, <1>3 DEF AfterLines, GoneOf
<1> QED
  BY <1>4, <1>5, <1>6 DEF p

\* A snapshot that is merged in uses those of its cookies that are alive.
LEMMA LoadBecomes ==
  ASSUME JarInv, NEW j, JarOK(j)
  PROVE  /\ Became(j, Put(j, Live(saved)), Keys(Live(saved)))
         /\ Keys(j.cookies) \subseteq Keys(Put(j, Live(saved)).cookies)
         /\ Loaded(j, saved) = Evict(Put(j, Live(saved)))
<1>1. Live(saved) \in SUBSET saved /\ \A c \in Live(saved) : ~ IsExpired(c, now)
  BY DEF Live
<1>2. CookiesOK(Live(saved))
  BY <1>1, SubsetsAreOK DEF JarInv
<1> QED
  BY <1>1, <1>2, PutBecame DEF Loaded

\* The jar of a new process, and a snapshot of nothing.
LEMMA EmptyIsOK == JarOK(Empty) /\ CookiesOK({})
<1>1. CookiesOK({})
  BY FS_EmptySet DEF CookiesOK, OneAKey
<1> QED
  BY <1>1 DEF JarOK, Empty

\* In every step but that of the clock the jar uses some cookies and forgets others.
LEMMA CallsBecome ==
  ASSUME JarInv, JarNext, UNCHANGED now
  PROVE  \/ UNCHANGED jarVars
         \/ /\ steps' = steps + 1
            /\ saved' = saved \/ CookiesOK(saved')
            /\ \E U : \E j \in {held, Empty} : Became(j, held', U) /\ Used(U)
<1>1. ASSUME NEW t \in Targets, NEW ls \in Responses, Store(t, ls)
      PROVE  \E U : Became(held, held', U) /\ Used(U)
  <2> DEFINE U == UNION {LineKeys(t, ls[i]) : i \in DOMAIN ls}
             p == FoldLeft(LAMBDA acc, line : StoreLine(acc, t, line), held, ls)
  <2>1. Became(held, p, U) /\ Stored(held, t, ls) = Evict(p)
    BY StoreBecomes
  <2>2. held' = Stored(held, t, ls) /\ Used(U)
    BY <1>1 DEF Store
  <2> HIDE DEF U, p
  <2>3. Became(held, Evict(p), U)
    BY <2>1, EvictedBecame
  <2> QED
    BY <2>1, <2>2, <2>3
<1>2. ASSUME NEW t \in Targets, Select(t)
      PROVE  \E U : Became(held, held', U) /\ Used(U)
  <2>1. Became(held, Selected(held, t), Keys(Chosen(held, t)))
    BY SelectedBecame DEF JarInv
  <2>2. held' = Selected(held, t) /\ Used(Keys(Chosen(held, t)))
    BY <1>2 DEF Select
  <2> QED
    BY <2>1, <2>2
<1>3. ASSUME TakeSnapshot
      PROVE  CookiesOK(saved') /\ \E U : Became(held, held', U) /\ Used(U)
  <2>1. held' = DropExpired(held) /\ Used({}) /\ saved' = Snapshot(held)
    BY <1>3 DEF TakeSnapshot
  <2>2. Became(held, DropExpired(held), {}) /\ CookiesOK(Snapshot(held))
    BY DropWorks, SnapshotIsOK DEF JarInv
  <2> QED
    BY <2>1, <2>2
<1>4. ASSUME NEW j \in {held, Empty}, LoadState(j)
      PROVE  \E U : Became(j, held', U) /\ Used(U)
  <2> DEFINE p == Put(j, Live(saved))
  <2>1. JarOK(j)
    BY EmptyIsOK DEF JarInv
  <2>2. Became(j, p, Keys(Live(saved))) /\ Loaded(j, saved) = Evict(p)
    BY <2>1, LoadBecomes
  <2>3. held' = Loaded(j, saved) /\ Used(Keys(Live(saved)))
    BY <1>4 DEF LoadState
  <2> HIDE DEF p
  <2>4. Became(j, Evict(p), Keys(Live(saved)))
    BY <2>2, EvictedBecame
  <2> QED
    BY <2>2, <2>3, <2>4
<1>5. ASSUME Tick PROVE FALSE
  BY <1>5 DEF Tick, JarInv
<1> QED
  BY <1>1, <1>2, <1>3, <1>4, <1>5 DEF JarNext, Store, Select, TakeSnapshot, LoadState, Call

\* What is in the jar and in the snapshot is scoped rightly, and uses are in the order of calls.
THEOREM JarIsRight == JarSpec => [](JarInv /\ UseInv)
<1>1. JarInit => JarInv /\ UseInv
  <2> SUFFICES ASSUME JarInit PROVE JarInv /\ UseInv
    OBVIOUS
  <2>1. JarInv
    BY EmptyIsOK DEF JarInit, JarInv
  <2>2. held.cookies = {} /\ lastUse = <<>>
    BY DEF JarInit, Empty
  <2>3. Keys(held.cookies) = {}
    BY <2>2 DEF Keys
  <2>4. lastUse \in [{} -> Nat]
    BY <2>2
  <2> QED
    BY <2>1, <2>2, <2>3, <2>4 DEF UseInv
<1>2. JarInv /\ UseInv /\ [JarNext]_jarVars => (JarInv /\ UseInv)'
  <2> SUFFICES ASSUME JarInv, UseInv, [JarNext]_jarVars PROVE JarInv' /\ UseInv'
    OBVIOUS
  <2>1. CASE UNCHANGED jarVars
    BY <2>1 DEF jarVars, JarInv, UseInv
  <2>2. CASE Tick
    <3>1. now' \in Nat /\ UNCHANGED <<held, saved, steps, lastUse>>
      BY <2>2 DEF Tick, JarInv
    <3> QED
      BY <3>1 DEF JarInv, UseInv
  <2>3. CASE JarNext /\ UNCHANGED now /\ ~ UNCHANGED jarVars
    <3>1. /\ steps' = steps + 1
          /\ saved' = saved \/ CookiesOK(saved')
          /\ \E U : \E j \in {held, Empty} : Became(j, held', U) /\ Used(U)
      BY <2>3, CallsBecome
    <3>2. JarInv'
      BY <2>3, <3>1 DEF JarInv, Became
    <3>3. UseInv'
      BY <3>1, UseKept
    <3> QED
      BY <3>2, <3>3
  <2>4. CASE JarNext /\ ~ UNCHANGED now
    BY <2>2, <2>4 DEF JarNext, Store, Select, TakeSnapshot, LoadState
  <2> QED
    BY <2>1, <2>3, <2>4
<1> QED
  BY <1>1, <1>2, PTL DEF JarSpec

\* A value goes only to hosts that share a site with the one that set it, whatever
\* responses, snapshots, merges and evictions came in between (_scope and _belongs).
THEOREM CookiesStayHome == JarSpec => []StaysHome
<1>1. JarInv => StaysHome
  <2> SUFFICES ASSUME JarInv, NEW t \in Targets, NEW c \in Chosen(held, t)
               PROVE  SameSite(c.value, t.host)
    BY DEF StaysHome
  <2>1. c \in held.cookies /\ Belongs(c, t)
    BY DEF Chosen, Live
  <2>2. c \in Cookie /\ AtHome(c)
    BY <2>1 DEF JarInv, JarOK, CookiesOK
  <2>3. c.value \in Seq(STRING) /\ c.domain \in Seq(STRING) /\ c.hostOnly \in BOOLEAN
    BY <2>2 DEF Cookie
  <2>4. CASE c.hostOnly /\ c.domain = c.value
    BY <2>1, <2>4 DEF Belongs, SameSite
  <2>5. CASE ~ (c.hostOnly /\ c.domain = c.value)
    <3>1. /\ DomainMatches(t.host, c.domain)
          /\ c.domain \notin PublicSuffixes \/ c.domain = c.value
      <4>1. Len(c.domain) \in Nat
        BY <2>3, LenProperties
      <4>2. IsPrefix(c.domain, c.domain)
        BY <4>1 DEF IsPrefix
      <4> QED
        BY <2>1, <2>2, <2>5, <4>2 DEF Belongs, DomainMatches, AtHome
    <3>2. /\ Len(c.domain) \in 1..Len(c.value)
          /\ SubSeq(c.value, 1, Len(c.domain)) = c.domain
      <4>1. Len(c.domain) \in Nat \ {0} /\ Len(c.value) \in Nat \ {0}
        BY <2>2, <2>3, EmptySeq DEF AtHome
      <4>2. SubSeq(c.domain, 1, Len(c.domain)) = c.domain
        BY <2>3, SubSeqFull
      <4>3. c.domain = c.value \/ IsPrefix(c.domain, c.value)
        BY <2>2 DEF AtHome, DomainMatches
      <4> QED
        BY <4>1, <4>2, <4>3 DEF IsPrefix
    <3> QED
      BY <3>1, <3>2 DEF SameSite
  <2> QED
    BY <2>4, <2>5
<1> QED
  BY <1>1, JarIsRight, PTL

\* What a full jar gives up under a domain was sent or set no later than what it keeps
\* there, for any limits and any responses that store, replace and remove (_evict).
THEOREM RecentStays == JarSpec => RecentIsKept
<1>1. JarInv /\ UseInv /\ [JarNext]_jarVars =>
        [\A k \in Keys(held.cookies) \ Keys(held'.cookies) :
           \/ Expired(k) \/ TakenOut(k) \/ held' = Loaded(Empty, saved)
           \/ \A q \in Keys(held'.cookies) :
                q[2] = k[2] => lastUse[k] <= lastUse'[q]]_jarVars
  <2> SUFFICES ASSUME JarInv, UseInv, JarNext,
                      NEW k \in Keys(held.cookies), k \notin Keys(held'.cookies),
                      ~ Expired(k), ~ TakenOut(k), held' # Loaded(Empty, saved)
               PROVE  \A q \in Keys(held'.cookies) : q[2] = k[2] => lastUse[k] <= lastUse'[q]
    BY DEF jarVars
  <2>1. k \in Keys(Live(held.cookies))
    BY DEF Expired, Keys, Live
  <2>2. ASSUME NEW t \in Targets, NEW ls \in Responses, Store(t, ls)
        PROVE  \A q \in Keys(held'.cookies) : q[2] = k[2] => lastUse[k] <= lastUse'[q]
    <3> DEFINE U == UNION {LineKeys(t, ls[i]) : i \in DOMAIN ls}
               p == FoldLeft(LAMBDA acc, line : StoreLine(acc, t, line), held, ls)
    <3>1. /\ Became(held, p, U) /\ Stored(held, t, ls) = Evict(p)
          /\ \/ k \in Keys(p.cookies)
             \/ \E i \in DOMAIN ls : ls[i].life = 0 /\ k \in LineKeys(t, ls[i])
      BY StoreBecomes
    <3>2. held' = Stored(held, t, ls) /\ Used(U) /\ steps' = steps + 1
      BY <2>2 DEF Store, Call
    <3>3. k \in Keys(p.cookies)
      BY <3>1, <3>2 DEF TakenOut
    <3> HIDE DEF U, p
    <3> QED
      BY <3>1, <3>2, <3>3, GivenUpWasOld
  <2>3. ASSUME NEW t \in Targets, Select(t) PROVE FALSE
    BY <2>1, <2>3, SelectedBecame DEF Select, JarInv
  <2>4. ASSUME TakeSnapshot PROVE FALSE
    BY <2>1, <2>4, DropWorks DEF TakeSnapshot, JarInv
  <2>5. ASSUME LoadState(held)
        PROVE  \A q \in Keys(held'.cookies) : q[2] = k[2] => lastUse[k] <= lastUse'[q]
    <3> DEFINE U == Keys(Live(saved))
               p == Put(held, Live(saved))
    <3>1. Became(held, p, U) /\ Loaded(held, saved) = Evict(p) /\ k \in Keys(p.cookies)
      BY LoadBecomes DEF JarInv
    <3>2. held' = Loaded(held, saved) /\ Used(U) /\ steps' = steps + 1
      BY <2>5 DEF LoadState, Call
    <3> HIDE DEF U, p
    <3> QED
      BY <3>1, <3>2, GivenUpWasOld
  <2>6. ASSUME LoadState(Empty) PROVE FALSE
    BY <2>6 DEF LoadState
  <2>7. ASSUME Tick PROVE FALSE
    BY <2>7 DEF Tick
  <2> QED
    BY <2>2, <2>3, <2>4, <2>5, <2>6, <2>7 DEF JarNext
<1> QED
  BY <1>1, JarIsRight, PTL DEF JarSpec, RecentIsKept
================================================================================
