---------------------------- MODULE CookieSession ----------------------------
(***************************************************************************)
(* A session that a site keeps in cookies (eazy_sdk/auth/session.py with   *)
(* bind_cookies, executor.py): the jar of each process, the row in which   *)
(* revision and jar snapshot are saved together, calls that send what the  *)
(* jar holds and store whatever a response sets, in the order of arrival.  *)
(*                                                                         *)
(* The site has one required cookie, whose value names a server session,   *)
(* and one device cookie it sets at the first sign-in.  SessionLifecycle   *)
(* has the same lock and store for sessions a request carries itself.      *)
(***************************************************************************)
EXTENDS Naturals, FiniteSets

CONSTANTS
  Procs,       \* processes (one Identity and one jar each) over one store
  Calls,       \* protected calls
  Owner,       \* the process of each call
  AuthRetries, \* auth budget of a call
  Rolls,       \* the site may replace the cookie in any answer
  Crashes,     \* bound on crashes, for TLC
  MaxSids      \* bound on server sessions, for TLC

ASSUME CookieAssumption ==
  /\ Owner \in [Calls -> Procs]
  /\ {AuthRetries, Crashes, MaxSids} \subseteq Nat /\ Rolls \in BOOLEAN

NoOne == "noone"
ASSUME NoOneAssumption == NoOne \notin Calls

VARIABLES
  row,      \* the stored session: revision (0: none), snapshot, value still valid
  jar,      \* CookieJar of each process: sid (0: none) and dev
  seeded,   \* _seeded
  known,    \* _revision
  lock,     \* holder of each lifecycle's lock
  alive,    \* server sessions the site accepts
  minted,   \* the newest server session
  pc,       \* where each call is
  rev,      \* the revision a call's attempt was resolved to
  target,   \* the revision an exchange will be saved under
  snapshot, \* the jar's snapshot a save is about to write
  carried,  \* the sid the last request of a call carried
  answer,   \* the answer on its way to a call
  budget,   \* auth retries left
  refused,  \* history: the sids a call under way was refused with
  reused,   \* history: a call renewed by reusing a newer revision than its own
  crashes   \* crashes so far (bounds the model)

store == <<row>>
process == <<jar, seeded, known, lock>>
site == <<alive, minted>>
attempt == <<rev, target, snapshot, carried, answer, budget>>
history == <<refused, reused, crashes>>
vars == <<row, jar, seeded, known, lock, alive, minted, pc, rev, target, snapshot,
          carried, answer, budget, refused, reused, crashes>>

EmptyJar == [sid |-> 0, dev |-> FALSE]
NoRow == [rev |-> 0, jar |-> EmptyJar, valid |-> FALSE]
Silence == [status |-> "none", sid |-> 0]
Larger(m, n) == IF m > n THEN m ELSE n
Goto(c, step) == pc' = [pc EXCEPT ![c] = step]
Free(c) == lock[Owner[c]] = NoOne
Take(c) == lock' = [lock EXCEPT ![Owner[c]] = c]
Release(c) == lock' = [lock EXCEPT ![Owner[c]] = NoOne]

\* What a call that has ended needed.
EndAttempts(c) ==
  /\ rev' = [rev EXCEPT ![c] = 0] /\ budget' = [budget EXCEPT ![c] = 0]
  /\ refused' = [refused EXCEPT ![c] = {}] /\ reused' = [reused EXCEPT ![c] = FALSE]

Init ==
  /\ row = NoRow
  /\ jar = [p \in Procs |-> EmptyJar] /\ seeded = [p \in Procs |-> FALSE]
  /\ known = [p \in Procs |-> 0] /\ lock = [p \in Procs |-> NoOne]
  /\ alive = {} /\ minted = 0
  /\ pc = [c \in Calls |-> "resolve"]
  /\ rev = [c \in Calls |-> 0] /\ target = [c \in Calls |-> 0]
  /\ snapshot = [c \in Calls |-> EmptyJar]
  /\ carried = [c \in Calls |-> 0] /\ answer = [c \in Calls |-> Silence]
  /\ budget = [c \in Calls |-> AuthRetries]
  /\ refused = [c \in Calls |-> {}] /\ reused = [c \in Calls |-> FALSE]
  /\ crashes = 0
------------------------------------------------------------------------------
(***************************************************************************)
(* Under the lock                                                          *)
(***************************************************************************)

\* CookieJar.load: a loaded cookie replaces the one under the same key.
Poured(j, snap) ==
  [sid |-> IF snap.sid # 0 THEN snap.sid ELSE j.sid, dev |-> j.dev \/ snap.dev]

\* A fault: only a session that is still valid is poured into the jar.
SeededFromValid(p) == IF seeded[p] \/ row.rev = 0 \/ ~row.valid THEN jar[p] ELSE Poured(jar[p], row.jar)

\* _seed: a stored snapshot goes into the jar once, whether its session is valid or not.
Seeded(p) == IF seeded[p] \/ row.rev = 0 THEN jar[p] ELSE Poured(jar[p], row.jar)

\* store.load under the lock, with what resolve and refresh_revision do at once.
Load(c, step) ==
  LET p == Owner[c] IN
  /\ pc[c] = step /\ Free(c)
  /\ jar' = [jar EXCEPT ![p] = Seeded(p)]
  /\ seeded' = [seeded EXCEPT ![p] = @ \/ row.rev # 0]
  /\ known' = [known EXCEPT ![p] = Larger(@, row.rev)]

\* _valid of the loaded session: it validates, and the required cookie is alive.
LoadedIsValid(c) == row.rev # 0 /\ row.valid /\ Seeded(Owner[c]).sid # 0

\* resolve() reuses the stored session.
ReuseStored(c) ==
  /\ Load(c, "resolve") /\ LoadedIsValid(c)
  /\ rev' = [rev EXCEPT ![c] = row.rev]
  /\ Goto(c, "send")
  /\ UNCHANGED <<store, lock, site, target, snapshot, carried, answer, budget, history>>

\* An exchange begins: refresh of the stored session, or acquire without one.
BeginExchange(c) ==
  /\ Take(c) /\ Goto(c, "exchange")
  /\ target' = [target EXCEPT ![c] = (IF row.rev # 0 THEN row.rev ELSE known[Owner[c]]) + 1]
  /\ UNCHANGED <<store, site, snapshot, carried, answer, budget, history>>

\* resolve() does, and the call has no revision until the new session is saved.
ExchangeStored(c) ==
  Load(c, "resolve") /\ ~LoadedIsValid(c) /\ BeginExchange(c) /\ rev' = [rev EXCEPT ![c] = 0]

\* refresh_revision after a rejection: a newer valid session is reused ...
RenewReuses(c) ==
  /\ Load(c, "renew") /\ LoadedIsValid(c) /\ row.rev > rev[c]
  /\ reused' = [reused EXCEPT ![c] = TRUE]
  /\ Goto(c, "resolve")
  /\ UNCHANGED <<store, lock, site, attempt, refused, crashes>>

\* A fault: the revision that was rejected is taken for a newer one.
RenewKeeps(c) ==
  /\ Load(c, "renew") /\ LoadedIsValid(c)
  /\ Goto(c, "resolve")
  /\ UNCHANGED <<store, lock, site, attempt, history>>

\* ... and the rejected one is exchanged.
Renew(c) ==
  /\ Load(c, "renew") /\ row.rev # 0
  /\ ~(LoadedIsValid(c) /\ row.rev > rev[c])
  /\ BeginExchange(c) /\ UNCHANGED rev

\* The site's answer to an exchange is stored in the jar, like that to any call.  It
\* may or may not end the sessions before it.
Exchanged(c) ==
  /\ pc[c] = "exchange" /\ minted < MaxSids
  /\ minted' = minted + 1
  /\ alive' \in {alive \cup {minted'}, {minted'}}
  /\ jar' = [jar EXCEPT ![Owner[c]] = [sid |-> minted', dev |-> TRUE]]
  /\ Goto(c, "exchanged")
  /\ UNCHANGED <<store, seeded, known, lock, attempt, history>>

\* A fault: what the jar holds is saved without looking for the required cookie.
ExchangeEndsUnchecked(c) ==
  /\ pc[c] = "exchanged"
  /\ snapshot' = [snapshot EXCEPT ![c] = jar[Owner[c]]]
  /\ known' = [known EXCEPT ![Owner[c]] = Larger(@, target[c])]
  /\ Goto(c, "save")
  /\ UNCHANGED <<store, jar, seeded, lock, site, rev, target, carried, answer, budget, history>>

\* _refuse_incomplete and the snapshot of _save: no other task runs between them.
ExchangeEnds(c) ==
  /\ pc[c] = "exchanged" /\ jar[Owner[c]].sid # 0
  /\ snapshot' = [snapshot EXCEPT ![c] = jar[Owner[c]]]
  /\ known' = [known EXCEPT ![Owner[c]] = Larger(@, target[c])]
  /\ Goto(c, "save")
  /\ UNCHANGED <<store, jar, seeded, lock, site, rev, target, carried, answer, budget, history>>

\* The service raises, or the required cookie is gone again.
ExchangeFails(c) ==
  /\ \/ pc[c] = "exchange"
     \/ pc[c] = "exchanged" /\ jar[Owner[c]].sid = 0
  /\ Release(c) /\ Goto(c, "failed")
  /\ target' = [target EXCEPT ![c] = 0] /\ EndAttempts(c)
  /\ UNCHANGED <<store, jar, seeded, known, site, snapshot, carried, answer, crashes>>

\* The store compares and swaps: the revision follows that of the row, or there is none.
\* resolve() returns what it saved; after a renewal the next attempt resolves again.
Save(c) ==
  /\ pc[c] = "save" /\ Release(c)
  /\ \/ /\ row.rev \in {0, target[c] - 1}
        /\ row' = [rev |-> target[c], jar |-> snapshot[c], valid |-> TRUE]
        /\ IF rev[c] = 0 THEN Goto(c, "send") /\ rev' = [rev EXCEPT ![c] = target[c]]
                         ELSE Goto(c, "resolve") /\ UNCHANGED rev
        /\ UNCHANGED <<budget, refused, reused>>
     \/ /\ row.rev \notin {0, target[c] - 1}
        /\ Goto(c, "failed") /\ EndAttempts(c) /\ UNCHANGED row
  /\ target' = [target EXCEPT ![c] = 0] /\ snapshot' = [snapshot EXCEPT ![c] = EmptyJar]
  /\ UNCHANGED <<jar, seeded, known, site, carried, answer, crashes>>
------------------------------------------------------------------------------
(***************************************************************************)
(* Attempts                                                                *)
(***************************************************************************)

\* The Cookie header is built when the attempt is prepared, from the jar as it is then.
Send(c) ==
  /\ pc[c] = "send"
  /\ carried' = [carried EXCEPT ![c] = jar[Owner[c]].sid]
  /\ Goto(c, "sent")
  /\ UNCHANGED <<store, process, site, rev, target, snapshot, answer, budget, history>>

Answer(c, status, sid) ==
  /\ answer' = [answer EXCEPT ![c] = [status |-> status, sid |-> sid]]
  /\ Goto(c, "answered")
  /\ UNCHANGED <<store, process, rev, target, snapshot, carried, budget, crashes>>

\* The site accepts the cookie, and may replace it ...
Accept(c) ==
  /\ pc[c] = "sent" /\ carried[c] \in alive
  /\ \/ Answer(c, "ok", carried[c]) /\ UNCHANGED <<site, refused, reused>>
     \/ /\ Rolls /\ minted < MaxSids
        /\ minted' = minted + 1
        /\ alive' = (alive \ {carried[c]}) \cup {minted'}
        /\ Answer(c, "ok", minted') /\ UNCHANGED <<refused, reused>>

\* ... or refuses it, and may tell the client to remove it.
Refuse(c) ==
  /\ pc[c] = "sent" /\ carried[c] \notin alive
  /\ \E sid \in {0, carried[c]} : Answer(c, "refused", sid)
  /\ refused' = [refused EXCEPT ![c] = @ \cup ({carried[c]} \ {0})]
  /\ UNCHANGED <<site, reused>>

\* The answer arrives: its cookies are stored before it is decided upon.  It sets
\* the cookie if the value is new to the site's answer, removes it, or leaves it.
Arrive(c) ==
  LET a == answer[c] p == Owner[c] IN
  /\ pc[c] = "answered"
  /\ jar' = [jar EXCEPT ![p].sid = IF a.sid = carried[c] THEN @ ELSE a.sid]
  /\ answer' = [answer EXCEPT ![c] = Silence] /\ carried' = [carried EXCEPT ![c] = 0]
  /\ \/ a.status = "ok" /\ Goto(c, "ok") /\ EndAttempts(c)
     \/ a.status = "refused" /\ budget[c] = 0 /\ Goto(c, "failed") /\ EndAttempts(c)
     \/ /\ a.status = "refused" /\ budget[c] > 0 /\ Goto(c, "renew")
        /\ budget' = [budget EXCEPT ![c] = @ - 1] /\ UNCHANGED <<rev, refused, reused>>
  /\ UNCHANGED <<store, seeded, known, lock, site, target, snapshot, crashes>>
------------------------------------------------------------------------------
\* The session expires by its own rule; the site forgets a server session.
Expire == row.valid /\ row' = [row EXCEPT !.valid = FALSE]
          /\ UNCHANGED <<process, site, pc, attempt, history>>
Forget == alive # {} /\ (\E s \in alive : alive' = alive \ {s})
          /\ UNCHANGED <<store, process, minted, pc, attempt, history>>

\* A process dies with its jar and the calls it has begun, and starts again.
Crash(p) ==
  LET Dies(c) == Owner[c] = p /\ (pc[c] # "resolve" \/ budget[c] < AuthRetries) /\ pc[c] # "ok"
      Lost(f, none) == [c \in Calls |-> IF Dies(c) THEN none ELSE f[c]]
  IN
  /\ crashes < Crashes /\ crashes' = crashes + 1
  /\ jar' = [jar EXCEPT ![p] = EmptyJar] /\ seeded' = [seeded EXCEPT ![p] = FALSE]
  /\ known' = [known EXCEPT ![p] = 0] /\ lock' = [lock EXCEPT ![p] = NoOne]
  /\ pc' = Lost(pc, "failed") /\ rev' = Lost(rev, 0) /\ target' = Lost(target, 0)
  /\ snapshot' = Lost(snapshot, EmptyJar) /\ carried' = Lost(carried, 0)
  /\ answer' = Lost(answer, Silence)
  /\ refused' = Lost(refused, {}) /\ reused' = Lost(reused, FALSE)
  /\ budget' = Lost(budget, 0)
  /\ UNCHANGED <<store, site>>

Step(c) ==
  \/ ReuseStored(c) \/ ExchangeStored(c) \/ RenewReuses(c) \/ Renew(c)
  \/ Exchanged(c) \/ ExchangeEnds(c) \/ ExchangeFails(c) \/ Save(c)
  \/ Send(c) \/ Accept(c) \/ Refuse(c) \/ Arrive(c)

Next == (\E c \in Calls : Step(c)) \/ Expire \/ Forget \/ (\E p \in Procs : Crash(p))

Spec == Init /\ [][Next]_vars
------------------------------------------------------------------------------
(***************************************************************************)
(* Properties                                                              *)
(***************************************************************************)
\* The session in the store is usable by a process that has nothing else: it was
\* saved with its required cookie, whatever answers of other calls arrived meanwhile.
SavedIsComplete == row.rev # 0 => row.jar.sid # 0

\* A call that was refused renews the session by an exchange and then carries another
\* cookie, whatever answers of other calls arrive between, late ones included.  (One
\* that finds a newer revision than its own reuses it without asking which cookie was
\* refused: the header was built from the jar, and may have been that revision's.)
RefusedIsReplaced ==
  [][\A c \in Calls : Send(c) /\ ~reused[c] => jar[Owner[c]].sid \notin refused[c]]_vars

\* The site recognises the device: once a sign-in was saved, every later exchange
\* carries the device cookie, in any process, after any crash.
DeviceRemembered ==
  \A c \in Calls : pc[c] = "exchange" /\ row.rev # 0 /\ target[c] = row.rev + 1 =>
    jar[Owner[c]].dev
==============================================================================
