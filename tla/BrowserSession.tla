--------------------------- MODULE BrowserSession ---------------------------
(***************************************************************************)
(* The session of a browser context (plugins/browser session.py), shared   *)
(* by the tabs of the context and, through a store of revisions, by the    *)
(* contexts of an account; and the client that runs an operation, renews   *)
(* the session when the site refuses it and runs it again (client.py).     *)
(*                                                                         *)
(* A session is a server session, named by a number; 0 stands for none.    *)
(* Within one object the lifecycle's own lock is only taken under its lock,*)
(* so there is one lock.  SessionLifecycle has the core's lifecycle.       *)
(***************************************************************************)
EXTENDS Naturals

CONSTANTS
  Contexts,    \* browser contexts, with one BrowserSession each
  Calls,       \* operations of clients
  Home,        \* the context of a client's tab
  AuthRetries, \* config.auth_retries
  MaxSids      \* bound on server sessions, for TLC

ASSUME BrowserAssumption ==
  /\ Home \in [Calls -> Contexts]
  /\ {AuthRetries, MaxSids} \subseteq Nat

VARIABLES
  row,     \* the stored session: its revision (0: none) and its sid
  cookie,  \* the sid in the cookies of each context
  applied, \* applied: the revision the context is known to hold (0: None)
  known,   \* lifecycle._revision
  busy,    \* the lock of each BrowserSession is held
  alive,   \* the sessions the site accepts
  expired, \* the sessions whose cookie is over, or within the leeway of it
  minted,  \* the newest session
  at,      \* where each call is
  rev,     \* the revision a call runs under
  got,     \* the sid or the revision a call has read under the lock
  budget,  \* retries left
  carried, \* the sid an operation under way went out with
  unsure,  \* history: what the context holds and what is applied came apart
  dropped  \* history: the store has dropped a session

stored == <<row, known, dropped>>
context == <<cookie, applied, unsure>>
site == <<alive, expired, minted>>
call == <<rev, got, budget, carried>>
tabVars == <<row, cookie, applied, known, busy, alive, expired, minted, at, rev, got,
          budget, carried, unsure, dropped>>

Reach(c, step) == at' = [at EXCEPT ![c] = step]
Take(c) == ~busy[Home[c]] /\ busy' = [busy EXCEPT ![Home[c]] = TRUE]
Release(c) == busy' = [busy EXCEPT ![Home[c]] = FALSE]
Larger(m, n) == IF m > n THEN m ELSE n

\* BrowserLogin.validate: the required cookie is there and alive with leeway.
Valid(sid) == sid # 0 /\ sid \notin expired

\* A context comes empty, or with the storage_state of an earlier session.
TabsInit ==
  /\ row = [rev |-> 0, sid |-> 0]
  /\ cookie \in [Contexts -> {0, 1}]
  /\ applied = [k \in Contexts |-> 0] /\ known = [k \in Contexts |-> 0]
  /\ busy = [k \in Contexts |-> FALSE] /\ unsure = [k \in Contexts |-> FALSE] /\ dropped = FALSE
  /\ alive = {1} /\ expired = {} /\ minted = 1
  /\ at = [c \in Calls |-> "ensure"]
  /\ rev = [c \in Calls |-> 0] /\ got = [c \in Calls |-> 0]
  /\ budget = [c \in Calls |-> AuthRetries] /\ carried = [c \in Calls |-> 0]
------------------------------------------------------------------------------
(***************************************************************************)
(* ensure                                                                  *)
(***************************************************************************)

\* _apply with the record's revision; ensure or renew returns it.
Apply(c, revision) ==
  /\ applied' = [applied EXCEPT ![Home[c]] = revision]
  /\ rev' = [rev EXCEPT ![c] = revision]

\* ensure: the object has put a session into its context before.
AlreadyApplied(c) ==
  /\ at[c] = "ensure" /\ ~busy[Home[c]] /\ applied[Home[c]] # 0
  /\ rev' = [rev EXCEPT ![c] = applied[Home[c]]]
  /\ Reach(c, "run")
  /\ UNCHANGED <<stored, context, busy, site, got, budget, carried>>

\* A fault: ensure looks into the context without the lock.
LookUnlocked(c) ==
  /\ at[c] = "ensure" /\ applied[Home[c]] = 0
  /\ busy' = [busy EXCEPT ![Home[c]] = TRUE]
  /\ Reach(c, "export")
  /\ UNCHANGED <<stored, context, site, call>>

\* ensure asks the page for its state ...
Look(c) ==
  /\ at[c] = "ensure" /\ applied[Home[c]] = 0
  /\ Take(c) /\ Reach(c, "export")
  /\ UNCHANGED <<stored, context, site, call>>

\* ... which is a session, or is not.
Export(c) ==
  /\ at[c] = "export"
  /\ got' = [got EXCEPT ![c] = cookie[Home[c]]]
  /\ Reach(c, IF Valid(got'[c]) THEN "adopt" ELSE "resolve")
  /\ UNCHANGED <<stored, context, busy, site, rev, budget, carried>>

\* _adopt_context: a valid stored session lends its revision; the context keeps its own.
AdoptStored(c) ==
  /\ at[c] = "adopt" /\ row.rev # 0 /\ Valid(row.sid)
  /\ Apply(c, row.rev) /\ Release(c) /\ Reach(c, "run")
  /\ UNCHANGED <<stored, cookie, unsure, site, got, budget, carried>>

\* _adopt_context with nothing valid in the store: lifecycle.adopt() saves what was
\* exported, under the revision after the newest it knows.
AdoptOwn(c) ==
  /\ at[c] = "adopt" /\ ~(row.rev # 0 /\ Valid(row.sid))
  /\ IF Valid(got[c])
     THEN /\ known' = [known EXCEPT ![Home[c]] = Larger(@, row.rev) + 1]
          /\ rev' = [rev EXCEPT ![c] = known'[Home[c]]]
          /\ Reach(c, "save") /\ UNCHANGED <<busy, context>>
     ELSE Release(c) /\ Reach(c, "failed") /\ UNCHANGED <<known, context, rev>>
  /\ UNCHANGED <<row, dropped, site, got, budget, carried>>
------------------------------------------------------------------------------
(***************************************************************************)
(* The lifecycle: load, sign in, save                                      *)
(***************************************************************************)

\* A fault: a stored session is applied without its cookies.
ReuseWithoutPut(c) ==
  /\ \/ at[c] = "resolve"
     \/ at[c] = "refresh" /\ row.rev > rev[c]
  /\ row.rev # 0 /\ Valid(row.sid)
  /\ known' = [known EXCEPT ![Home[c]] = Larger(@, row.rev)]
  /\ Apply(c, row.rev)
  /\ Release(c) /\ Reach(c, "run")
  /\ UNCHANGED <<row, dropped, cookie, unsure, site, got, budget, carried>>

\* resolve() or refresh_revision() returns the stored session: it is applied, and its
\* cookies are put into the context.
Reuse(c) ==
  /\ \/ at[c] = "resolve"
     \/ at[c] = "refresh" /\ row.rev > rev[c]
  /\ row.rev # 0 /\ Valid(row.sid)
  /\ known' = [known EXCEPT ![Home[c]] = Larger(@, row.rev)]
  /\ Apply(c, row.rev)
  /\ got' = [got EXCEPT ![c] = row.sid]
  /\ Reach(c, "put")
  /\ UNCHANGED <<row, dropped, busy, cookie, unsure, site, budget, carried>>

Put(c) ==
  /\ at[c] = "put"
  /\ cookie' = [cookie EXCEPT ![Home[c]] = got[c]]
  /\ unsure' = [unsure EXCEPT ![Home[c]] = FALSE]
  /\ Release(c) /\ Reach(c, "run")
  /\ UNCHANGED <<stored, applied, site, call>>

\* add_cookies raises or is cancelled after the revision was applied.
PutFails(c) ==
  /\ at[c] = "put"
  /\ unsure' = [unsure EXCEPT ![Home[c]] = TRUE]
  /\ Release(c) /\ Reach(c, "failed")
  /\ UNCHANGED <<stored, applied, cookie, site, call>>

\* Otherwise the lifecycle signs in: acquire without a stored session, refresh with one.
\* (refresh_revision without one is caught, and resolve() signs in.)
SignIn(c) ==
  /\ at[c] \in {"resolve", "refresh"}
  /\ ~(row.rev # 0 /\ Valid(row.sid) /\ (at[c] = "resolve" \/ row.rev > rev[c]))
  /\ row.rev = 0 \/ at[c] = "resolve" \/ row.rev >= rev[c]
  /\ known' = [known EXCEPT ![Home[c]] = Larger(@, row.rev)]
  /\ rev' = [rev EXCEPT ![c] = (IF row.rev # 0 THEN row.rev ELSE known'[Home[c]]) + 1]
  /\ Reach(c, "login")
  /\ UNCHANGED <<row, dropped, busy, context, site, got, budget, carried>>

\* The stored revision is older than the one that was refused.
Backwards(c) ==
  /\ at[c] = "refresh" /\ row.rev # 0 /\ row.rev < rev[c]
  /\ known' = [known EXCEPT ![Home[c]] = Larger(@, row.rev)]
  /\ Release(c) /\ Reach(c, "failed")
  /\ UNCHANGED <<row, dropped, context, site, call>>

\* The site sets the new session's cookie in the context; older sessions may end.
SignedIn(c) ==
  /\ at[c] = "login" /\ minted < MaxSids
  /\ minted' = minted + 1
  /\ alive' \in {alive \cup {minted'}, {minted'}}
  /\ cookie' = [cookie EXCEPT ![Home[c]] = minted']
  /\ unsure' = [unsure EXCEPT ![Home[c]] = TRUE]
  /\ got' = [got EXCEPT ![c] = minted']
  /\ Reach(c, "save")
  /\ UNCHANGED <<stored, applied, busy, expired, rev, budget, carried>>

\* The sign-in fails, before or after the site has set a cookie.
SignInFails(c) ==
  /\ \/ at[c] = "login"
     \/ at[c] = "save" /\ unsure[Home[c]]
  /\ Release(c) /\ Reach(c, "failed")
  /\ UNCHANGED <<stored, context, site, call>>

\* The lifecycle counts the revision, and the store compares and swaps; the record is
\* applied only when it was saved.
Save(c) ==
  /\ at[c] = "save"
  /\ Release(c)
  /\ known' = [known EXCEPT ![Home[c]] = Larger(@, rev[c])]
  /\ \/ /\ row.rev \in {0, rev[c] - 1}
        /\ row' = [rev |-> rev[c], sid |-> got[c]]
        /\ applied' = [applied EXCEPT ![Home[c]] = rev[c]]
        /\ unsure' = [unsure EXCEPT ![Home[c]] = FALSE]
        /\ Reach(c, "run")
     \/ /\ row.rev \notin {0, rev[c] - 1}
        /\ Reach(c, "failed") /\ UNCHANGED <<row, applied, unsure>>
  /\ UNCHANGED <<dropped, cookie, site, call>>
------------------------------------------------------------------------------
(***************************************************************************)
(* _run_in_session                                                         *)
(***************************************************************************)

Run(c) ==
  /\ at[c] = "run"
  /\ carried' = [carried EXCEPT ![c] = cookie[Home[c]]]
  /\ Reach(c, "running")
  /\ UNCHANGED <<stored, context, busy, site, rev, got, budget>>

Done(c) ==
  /\ at[c] = "running" /\ carried[c] \in alive
  /\ carried' = [carried EXCEPT ![c] = 0] /\ Reach(c, "done")
  /\ UNCHANGED <<stored, context, busy, site, rev, got, budget>>

\* A refusal that the login declares as the end of the session.
Refused(c) ==
  /\ at[c] = "running" /\ carried[c] \notin alive
  /\ carried' = [carried EXCEPT ![c] = 0]
  /\ IF budget[c] = 0 THEN Reach(c, "failed") /\ UNCHANGED budget
     ELSE Reach(c, "renew") /\ budget' = [budget EXCEPT ![c] = @ - 1]
  /\ UNCHANGED <<stored, context, busy, site, rev, got>>

\* renew: another tab has renewed the session of the context ...
Renewed(c) ==
  /\ at[c] = "renew" /\ ~busy[Home[c]] /\ applied[Home[c]] > rev[c]
  /\ rev' = [rev EXCEPT ![c] = applied[Home[c]]]
  /\ Reach(c, "run")
  /\ UNCHANGED <<stored, context, busy, site, got, budget, carried>>

\* ... or it is refreshed.
Renew(c) ==
  /\ at[c] = "renew" /\ applied[Home[c]] <= rev[c]
  /\ Take(c) /\ Reach(c, "refresh")
  /\ UNCHANGED <<stored, context, site, call>>

\* From outside: a session dies at the site, its cookie runs out, the store drops it.
Forget == \E s \in alive : alive' = alive \ {s}
          /\ UNCHANGED <<stored, context, busy, expired, minted, at, call>>
Expire == \E s \in 1..minted \ expired : expired' = expired \cup {s}
          /\ UNCHANGED <<stored, context, busy, alive, minted, at, call>>
Invalidate == row.rev # 0 /\ row' = [rev |-> 0, sid |-> 0] /\ dropped' = TRUE
              /\ UNCHANGED <<context, known, busy, site, at, call>>

TabStep(c) ==
  \/ AlreadyApplied(c) \/ Look(c) \/ Export(c) \/ AdoptStored(c) \/ AdoptOwn(c)
  \/ Reuse(c) \/ Put(c) \/ PutFails(c) \/ SignIn(c) \/ Backwards(c)
  \/ SignedIn(c) \/ SignInFails(c) \/ Save(c)
  \/ Run(c) \/ Done(c) \/ Refused(c) \/ Renewed(c) \/ Renew(c)

TabsNext == (\E c \in Calls : TabStep(c)) \/ Forget \/ Expire \/ Invalidate

TabsSpec == TabsInit /\ [][TabsNext]_tabVars
------------------------------------------------------------------------------
(***************************************************************************)
(* Properties                                                              *)
(***************************************************************************)
\* An operation runs in a context that was given a session, whoever else failed or was
\* cancelled there; unless putting a session into it failed, when it counts as given.
AppliedIsThere == \A c \in Calls : at[c] = "run" /\ ~unsure[Home[c]] => cookie[Home[c]] # 0

\* A sign-in that replaces a session of its context which the site still accepts.
Replaces(c) == SignIn(c) /\ ~unsure[Home[c]] /\ cookie[Home[c]] \in alive \ expired

\* One sign-in per context and per loss of its session: whatever tabs are refused at
\* once, none signs in over a session the site still accepts, unless the cookie's own
\* time is over, an earlier renewal there failed half-way, or the store dropped a record.
SignInReplacesDead == [][\A c \in Calls : ~dropped => ~Replaces(c)]_tabVars
==============================================================================
