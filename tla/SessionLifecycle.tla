--------------------------- MODULE SessionLifecycle ---------------------------
(***************************************************************************)
(* Sessions of protected calls (eazy_sdk/auth): each SessionLifecycle      *)
(* signs in, refreshes and saves a session under its lock; lifecycles of   *)
(* several clients or processes share one SessionStore; a call whose       *)
(* session the server rejects refreshes it and tries again.                *)
(*                                                                         *)
(* A session is the number of the token the server minted for it.  Every   *)
(* action is what one task does between two awaits.  Cookies, and          *)
(* SessionProvider.refresh with a session chosen by the caller, are left   *)
(* out.                                                                    *)
(***************************************************************************)
EXTENDS Integers

CONSTANTS
  Calls,         \* protected calls and adoptions
  Adopters,      \* those that hand over a session of a finished registration
  Idempotent,    \* those whose operation may be replayed
  Lifecycles,    \* SessionLifecycle objects that share the store
  Owner,         \* Owner[c]: the lifecycle a call belongs to
  Cas,           \* TRUE: SqlSessionStore; FALSE: MemorySessionStore
  Signers,       \* lifecycles given credentials= and an acquire service
  Seeded,        \* lifecycles given session=
  HasRefresh,    \* the auth service defines refresh
  AuthRetries,   \* options.auth_retries
  MaxTokens,     \* bound on the tokens the server mints, for TLC
  ServiceFails,  \* acquire and refresh may raise, or return an invalid session
  StoreFails,    \* store.save may raise
  Invalidates,   \* the application may call store.invalidate
  Restarts       \* processes may die and start again, callers be cancelled

ASSUME SessionAssumption ==
  /\ Adopters \subseteq Calls /\ Idempotent \subseteq Calls
  /\ Owner \in [Calls -> Lifecycles]
  /\ Cas \in BOOLEAN /\ HasRefresh \in BOOLEAN
  /\ Signers \subseteq Lifecycles /\ Seeded \subseteq Lifecycles
  /\ Signers \cap Seeded = {}
  /\ AuthRetries \in Nat /\ MaxTokens \in Nat \ {0}
  /\ ServiceFails \in BOOLEAN /\ StoreFails \in BOOLEAN
  /\ Invalidates \in BOOLEAN /\ Restarts \in BOOLEAN

NoOne == "noone"

ASSUME NoOneAssumption == NoOne \notin Calls

VARIABLES
  store,    \* the stored row: its revision, token, and whether it is active
  known,    \* SessionLifecycle._revision
  lock,     \* holder of SessionLifecycle._lock
  minted,   \* tokens the server has minted
  expired,  \* tokens that no longer pass validate()
  revoked,  \* tokens the server answers with 401
  pc,       \* where each call is suspended
  mode,     \* what a call goes back to once its session is saved
  held,     \* the stored session a call uses, or is exchanging
  fresh,    \* the token about to be saved
  target,   \* the revision it is about to be saved under
  seen,     \* history: revision of the row when the call last loaded it
  budget,   \* AttemptBudgets.auth
  verdict   \* history: how the call ended

vars == <<store, known, lock, minted, expired, revoked, pc, mode, held, fresh,
          target, seen, budget, verdict>>

server == <<minted, expired, revoked>>
exchange == <<fresh, target>>

Larger(m, n) == IF m > n THEN m ELSE n

\* The session given as session= was minted before the client started.
InitialToken == 1

Valid(t) == t \notin expired
Row == [rev |-> store.rev, token |-> store.token]
MyLock(c) == lock[Owner[c]]
Release(c) == lock' = [lock EXCEPT ![Owner[c]] = NoOne]
Goto(c, step) == pc' = [pc EXCEPT ![c] = step]

End(c, v) == Goto(c, "done") /\ verdict' = [verdict EXCEPT ![c] = v]
------------------------------------------------------------------------------
Init ==
  /\ store = [rev |-> 0, token |-> 0, active |-> FALSE]
  /\ known = [l \in Lifecycles |-> 0]
  /\ lock = [l \in Lifecycles |-> NoOne]
  /\ minted = InitialToken /\ expired = {} /\ revoked = {}
  /\ pc = [c \in Calls |-> IF c \in Adopters THEN "adopt" ELSE "resolve"]
  /\ mode = pc
  /\ held = [c \in Calls |-> [rev |-> 0, token |-> 0]]
  /\ fresh = [c \in Calls |-> 0]
  /\ target = [c \in Calls |-> 0]
  /\ seen = [c \in Calls |-> 0]
  /\ budget = [c \in Calls |-> AuthRetries]
  /\ verdict = [c \in Calls |-> "none"]

(***************************************************************************)
(* Under the lock                                                          *)
(***************************************************************************)

\* store.load under the lock; a stored session raises the known revision.
Load(c, step) ==
  /\ pc[c] = step /\ MyLock(c) = NoOne
  /\ seen' = [seen EXCEPT ![c] = store.rev]
  /\ known' = IF store.active
              THEN [known EXCEPT ![Owner[c]] = Larger(@, store.rev)] ELSE known

\* refresh() is asked to exchange the stored session.
BeginRefresh(c, step) ==
  /\ lock' = [lock EXCEPT ![Owner[c]] = c]
  /\ held' = [held EXCEPT ![c] = Row]
  /\ mode' = [mode EXCEPT ![c] = step]
  /\ Goto(c, "refreshing")
  /\ UNCHANGED <<store, server, exchange, budget, verdict>>

\* The session is about to be saved as the successor of a revision.
SaveAfter(c, t, revision) ==
  /\ fresh' = [fresh EXCEPT ![c] = t]
  /\ target' = [target EXCEPT ![c] = revision + 1]
  /\ known' = [known EXCEPT ![Owner[c]] = Larger(@, revision + 1)]
  /\ Goto(c, "saving")

\* load, then _save_next at once: its revision follows the known one.
LoadAndSave(c, step, t) ==
  /\ pc[c] = step /\ MyLock(c) = NoOne
  /\ seen' = [seen EXCEPT ![c] = store.rev]
  /\ SaveAfter(c, t, IF store.active THEN Larger(known[Owner[c]], store.rev)
                     ELSE known[Owner[c]])
  /\ lock' = [lock EXCEPT ![Owner[c]] = c]
  /\ mode' = [mode EXCEPT ![c] = step]

\* resolve() finds a valid session in the store.
ReuseStored(c) ==
  /\ Load(c, "resolve")
  /\ store.active /\ Valid(store.token)
  /\ held' = [held EXCEPT ![c] = Row]
  /\ Goto(c, "send")
  /\ UNCHANGED <<store, lock, server, mode, exchange, budget, verdict>>

RefreshStored(c) ==
  /\ Load(c, "resolve")
  /\ store.active /\ ~Valid(store.token) /\ HasRefresh
  /\ BeginRefresh(c, "resolve")

\* Nothing in the store can be used or refreshed.
NothingStored == store.active => ~Valid(store.token) /\ ~HasRefresh

SaveInitial(c) ==
  /\ NothingStored /\ Owner[c] \in Seeded /\ Valid(InitialToken)
  /\ LoadAndSave(c, "resolve", InitialToken)
  /\ UNCHANGED <<store, server, held, budget, verdict>>

BeginAcquire(c) ==
  /\ Load(c, "resolve")
  /\ NothingStored /\ Owner[c] \in Signers
  /\ lock' = [lock EXCEPT ![Owner[c]] = c]
  /\ mode' = [mode EXCEPT ![c] = "resolve"]
  /\ Goto(c, "acquiring")
  /\ UNCHANGED <<store, server, held, exchange, budget, verdict>>

RequireCredentials(c) ==
  /\ Load(c, "resolve")
  /\ NothingStored
  /\ Owner[c] \notin Signers
  /\ Owner[c] \in Seeded => ~Valid(InitialToken)
  /\ End(c, "credentials")
  /\ UNCHANGED <<store, lock, server, mode, held, exchange, budget>>

\* Registration hands over a session the server has just minted.
BeginAdopt(c) ==
  /\ minted < MaxTokens /\ minted' = minted + 1
  /\ LoadAndSave(c, "adopt", minted')
  /\ UNCHANGED <<store, expired, revoked, held, budget, verdict>>

\* The session handed over fails validation.
AdoptRefused(c) ==
  /\ ServiceFails \/ minted >= MaxTokens
  /\ pc[c] = "adopt" /\ MyLock(c) = NoOne
  /\ End(c, "error")
  /\ UNCHANGED <<store, known, lock, server, mode, held, exchange, seen, budget>>

\* acquire() returns a new session.
Acquired(c) ==
  /\ pc[c] = "acquiring" /\ minted < MaxTokens
  /\ minted' = minted + 1
  /\ SaveAfter(c, minted', known[Owner[c]])
  /\ UNCHANGED <<store, lock, expired, revoked, mode, held, seen, budget, verdict>>

\* refresh() returns a new session, saved under the successor of the revision
\* it was exchanged for.
Refreshed(c) ==
  /\ pc[c] = "refreshing" /\ minted < MaxTokens
  /\ minted' = minted + 1
  /\ SaveAfter(c, minted', held[c].rev)
  /\ UNCHANGED <<store, lock, expired, revoked, mode, held, seen, budget, verdict>>

\* A fault: an exception leaves the lock taken.
ServiceRaisesLocked(c) ==
  /\ ServiceFails \/ minted >= MaxTokens
  /\ pc[c] \in {"acquiring", "refreshing"}
  /\ End(c, "error")
  /\ UNCHANGED <<store, known, lock, server, mode, held, exchange, seen, budget>>

\* acquire() or refresh() raises, or returns what fails validation.
ServiceRaises(c) ==
  /\ ServiceFails \/ minted >= MaxTokens
  /\ pc[c] \in {"acquiring", "refreshing"}
  /\ Release(c)
  /\ End(c, "error")
  /\ UNCHANGED <<store, known, server, mode, held, exchange, seen, budget>>

\* A fault: the database accepts any revision that does not go back.
AcceptsWithoutCas(c) == target[c] >= store.rev

\* What the store's own check lets through.
Accepts(c) ==
  IF Cas THEN store.rev \in {0, target[c] - 1}
  ELSE ~store.active \/ target[c] >= store.rev

Saved(c) ==
  /\ pc[c] = "saving" /\ Accepts(c)
  /\ store' = [rev |-> target[c], token |-> fresh[c], active |-> TRUE]
  /\ Release(c)
  /\ \/ mode[c] = "resolve"                   \* the attempt sends it
        /\ held' = [held EXCEPT ![c] = [rev |-> target[c], token |-> fresh[c]]]
        /\ Goto(c, "send") /\ UNCHANGED verdict
     \/ mode[c] = "renew"                     \* the next attempt resolves anew
        /\ Goto(c, "resolve") /\ UNCHANGED <<held, verdict>>
     \/ mode[c] = "adopt"
        /\ End(c, "ok") /\ UNCHANGED held
  /\ UNCHANGED <<known, server, mode, exchange, seen, budget>>

\* SessionRevisionError: the row has moved since the load, or it has not.
SaveRefused(c) ==
  /\ pc[c] = "saving" /\ ~Accepts(c)
  /\ Release(c)
  /\ End(c, IF store.rev = seen[c] THEN "refused" ELSE "conflict")
  /\ UNCHANGED <<store, known, server, mode, held, exchange, seen, budget>>

SaveRaises(c) ==
  /\ StoreFails /\ pc[c] = "saving"
  /\ Release(c)
  /\ End(c, "error")
  /\ UNCHANGED <<store, known, server, mode, held, exchange, seen, budget>>

(***************************************************************************)
(* The attempts of a call                                                  *)
(***************************************************************************)
Answered(c) ==
  /\ pc[c] = "send" /\ held[c].token \notin revoked
  /\ End(c, "ok")
  /\ UNCHANGED <<store, known, lock, server, mode, held, exchange, seen, budget>>

\* 401: refresh and replay while the budget lasts.
Rejected(c) ==
  /\ pc[c] = "send" /\ held[c].token \in revoked
  /\ IF budget[c] > 0 /\ HasRefresh
     THEN IF c \in Idempotent
          THEN /\ Goto(c, "renew")
               /\ budget' = [budget EXCEPT ![c] = @ - 1]
               /\ UNCHANGED verdict
          ELSE End(c, "unsafe") /\ UNCHANGED budget
     ELSE End(c, "rejected") /\ UNCHANGED budget
  /\ UNCHANGED <<store, known, lock, server, mode, held, exchange, seen>>

\* refresh_revision: the session has been invalidated, or the store has gone
\* back ...
RenewEnds(c) ==
  /\ Load(c, "renew")
  /\ store.active => store.rev < held[c].rev
  /\ End(c, IF store.active THEN "older" ELSE "credentials")
  /\ UNCHANGED <<store, lock, server, mode, held, exchange, budget>>

\* ... or another call has already replaced it ...
RenewReuses(c) ==
  /\ Load(c, "renew") /\ store.active
  /\ store.rev > held[c].rev /\ Valid(store.token)
  /\ Goto(c, "resolve")
  /\ UNCHANGED <<store, lock, server, mode, held, exchange, budget, verdict>>

\* A fault: whoever was rejected refreshes, without looking at the revision.
RenewAlways(c) ==
  /\ Load(c, "renew") /\ store.active
  /\ BeginRefresh(c, "renew")

\* ... or it is still the one the server rejected, or no better.
Renew(c) ==
  /\ Load(c, "renew") /\ store.active
  /\ store.rev >= held[c].rev
  /\ store.rev = held[c].rev \/ ~Valid(store.token)
  /\ BeginRefresh(c, "renew")

(***************************************************************************)
(* What the environment does                                               *)
(***************************************************************************)
Cancel(c) ==
  /\ Restarts /\ pc[c] # "done"
  /\ lock' = IF MyLock(c) = c THEN [lock EXCEPT ![Owner[c]] = NoOne] ELSE lock
  /\ End(c, "cancelled")
  /\ UNCHANGED <<store, known, server, mode, held, exchange, seen, budget>>

\* The process of a lifecycle dies with its calls; a database keeps the row.
Restart(l) ==
  /\ Restarts /\ Cas /\ known[l] # 0
  /\ known' = [known EXCEPT ![l] = 0]
  /\ lock' = [lock EXCEPT ![l] = NoOne]
  /\ LET dead == {c \in Calls : Owner[c] = l /\ pc[c] \notin {"resolve", "adopt", "done"}}
     IN  /\ pc' = [c \in Calls |-> IF c \in dead THEN "done" ELSE pc[c]]
         /\ verdict' = [c \in Calls |-> IF c \in dead THEN "cancelled" ELSE verdict[c]]
  /\ UNCHANGED <<store, server, mode, held, exchange, seen, budget>>

\* store.invalidate: the SQL store keeps an inactive row under a new revision.
Invalidate ==
  /\ Invalidates /\ store.active
  /\ store' = IF Cas THEN [store EXCEPT !.rev = @ + 1, !.active = FALSE]
              ELSE [rev |-> 0, token |-> 0, active |-> FALSE]
  /\ UNCHANGED <<known, lock, server, pc, mode, held, exchange, seen, budget, verdict>>

Expire(t) ==
  /\ t \notin expired
  /\ expired' = expired \cup {t}
  /\ UNCHANGED <<store, known, lock, minted, revoked, pc, mode, held, exchange,
                 seen, budget, verdict>>

Revoke(t) ==
  /\ t \notin revoked
  /\ revoked' = revoked \cup {t}
  /\ UNCHANGED <<store, known, lock, minted, expired, pc, mode, held, exchange,
                 seen, budget, verdict>>

------------------------------------------------------------------------------
Locked(c) ==
  \/ ReuseStored(c) \/ RefreshStored(c) \/ SaveInitial(c) \/ BeginAcquire(c)
  \/ RequireCredentials(c) \/ BeginAdopt(c) \/ AdoptRefused(c)
  \/ RenewEnds(c) \/ RenewReuses(c) \/ Renew(c)

Step(c) ==
  \/ Locked(c)
  \/ Acquired(c) \/ Refreshed(c) \/ ServiceRaises(c)
  \/ Saved(c) \/ SaveRefused(c) \/ SaveRaises(c)
  \/ Answered(c) \/ Rejected(c)

Next ==
  \/ \E c \in Calls : Step(c) \/ Cancel(c)
  \/ \E l \in Lifecycles : Restart(l)
  \/ \E t \in 1..minted : Expire(t) \/ Revoke(t)
  \/ Invalidate

Spec == Init /\ [][Next]_vars

(***************************************************************************)
(* asyncio.Lock is granted in order, so a waiting call gets it; services,  *)
(* the store and the server answer or raise.                               *)
(***************************************************************************)
Fairness == \A c \in Calls : WF_vars(Step(c)) /\ SF_vars(Locked(c))

FairSpec == Spec /\ Fairness
------------------------------------------------------------------------------
Steps == {"resolve", "adopt", "renew", "acquiring", "refreshing", "saving",
          "send", "done"}

TypeOK ==
  /\ store \in [rev : Nat, token : Nat, active : BOOLEAN]
  /\ known \in [Lifecycles -> Nat]
  /\ lock \in [Lifecycles -> Calls \cup {NoOne}]
  /\ minted \in Nat /\ expired \subseteq Nat /\ revoked \subseteq Nat
  /\ pc \in [Calls -> Steps]
  /\ mode \in [Calls -> {"resolve", "adopt", "renew"}]
  /\ held \in [Calls -> [rev : Nat, token : Nat]]
  /\ fresh \in [Calls -> Nat] /\ target \in [Calls -> Nat] /\ seen \in [Calls -> Nat]
  /\ budget \in [Calls -> Nat]
  /\ verdict \in [Calls -> {"none", "ok", "error", "credentials", "conflict",
                            "refused", "older", "rejected", "unsafe", "cancelled"}]

\* A revision names one session: whoever holds a revision, in whatever process,
\* holds the same token.  refresh_revision compares nothing else.
RevisionNamesSession ==
  /\ \A c, d \in Calls : held[c].rev = held[d].rev => held[c].token = held[d].token
  /\ \A c \in Calls : held[c].rev = store.rev => held[c].token = store.token

\* A burst of rejected calls refreshes once: refresh() is never spent on a
\* session that is neither expired nor rejected by the server.
NoNeedlessRefresh ==
  \A c \in Calls : pc[c] = "refreshing" => held[c].token \in expired \cup revoked

\* One exchange with the auth service per lifecycle, however many callers wait,
\* until its result is saved.
SingleFlight ==
  \A c, d \in Calls : c # d /\ Owner[c] = Owner[d] =>
    ~ /\ pc[c] \in {"acquiring", "refreshing", "saving"}
      /\ pc[d] \in {"acquiring", "refreshing", "saving"}

\* A session refreshed after a rejection replaces the session it was exchanged
\* for, and nothing else: not a newer one, and not one that the application has
\* invalidated since.
RefreshReplacesItsSource ==
  [][\A c \in Calls :
       pc[c] = "saving" /\ mode[c] = "renew" /\ pc'[c] = "resolve" =>
         store = [rev |-> held[c].rev, token |-> held[c].token, active |-> TRUE]]_vars

\* Every call returns, whatever fails and however often it is rejected.
CallsReturn == \A c \in Calls : <>(pc[c] = "done")
==============================================================================
