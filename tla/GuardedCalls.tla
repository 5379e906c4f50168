----------------------------- MODULE GuardedCalls -----------------------------
(***************************************************************************)
(* Calls of one client (eazy_sdk/clients): each makes attempts while its   *)
(* budgets last, and the calls share the solutions of protection           *)
(* challenges (captcha, clearance cookies) that guards keep in the         *)
(* runtime, with one lock per cache key.                                   *)
(*                                                                         *)
(* A solution is its generation number.  Every action is what one call     *)
(* does between two awaits; clients on several threads interleave no       *)
(* finer, as far as this state goes.  Sessions are in SessionLifecycle;    *)
(* before-call policies and the data of requests and responses are left    *)
(* out.                                                                    *)
(***************************************************************************)
EXTENDS Integers, FiniteSets, FiniteSetsExt

CONSTANTS
  Calls,
  Idempotent,    \* calls whose operation is idempotent
  Replayable,    \* calls for which _ensure_replay_allowed has its proof
  Guards,        \* challenge policies
  Mode,          \* Mode[g]: persistence of the solutions of a guard
  MaxReplays,    \* MaxReplays[g]: replay budget of a guard
  Keys,          \* what challenge_identity makes of a challenge ...
  Asks,          \* ... and Asks[g]: those of the challenges of a guard
  Identities,    \* transport identities (proxy, User-Agent, impersonation) ...
  MayHave,       \* ... and MayHave[c]: those the attempts of a call may have
  Allowance,     \* Allowance[c]: transport_retries, auth_retries, max_redirects
  Proposals,     \* Proposals[c]: the replays its middleware may propose
  Closes,        \* the client may be closed under its calls
  MaxSolutions   \* bound on the solutions, for TLC

ASSUME GuardedAssumption ==
  /\ Idempotent \subseteq Calls /\ Replayable \subseteq Calls
  /\ Mode \in [Guards -> {"shared", "call", "match"}]
  /\ MaxReplays \in [Guards -> Nat]
  /\ Asks \in [Guards -> SUBSET Keys]
  /\ Identities # {} /\ MayHave \in [Calls -> (SUBSET Identities) \ {{}}]
  /\ Allowance \in [Calls -> [transport : Nat, auth : Nat, redirect : Nat]]
  /\ Proposals \in [Calls -> Nat]
  /\ Closes \in BOOLEAN
  /\ MaxSolutions \in Nat

ASSUME GuardsAreFew == IsFiniteSet(Guards)

VARIABLES
  cache,     \* runtime._protection_state: per guard and key a solution, or 0
  solved,    \* runtime._protection_generation
  bound,     \* the transport identity a solution was acquired under
  expired,   \* solutions past their expiry
  closed,    \* close_protection_session has cleared the cache and the locks
  pc,        \* where each call is suspended
  run        \* the _AttemptRun of each call:
             \*   number, budget, replays  AttemptState and its budgets left
             \*   identity, used   of the attempt: its transport identity and
             \*                    the solutions it carries
             \*   local            call_states, the call's own solutions
             \*   applied          applied_shared, the last shared ones
             \*   job              guard, key and lock entry of a challenge
             \*   free             history: attempts proposed by middleware
             \*   refused          history: solutions it was challenged with

shared == <<cache, solved, bound, expired, closed>>
vars == <<shared, pc, run>>

SumOf(counts) == MapThenSumSet(LAMBDA g : counts[g], DOMAIN counts)

\* A fault: guards' replays are not part of the limit.
HardLimitWithoutReplays(c) == 1 + SumOf(Allowance[c])

\* The attempts a call may make at all.
HardLimit(c) == 1 + SumOf(Allowance[c]) + SumOf(MaxReplays)

None == [g \in Guards |-> 0]
AnyIdentity(c) == CHOOSE i \in MayHave[c] : TRUE

Fresh(c) ==
  [number |-> 1, budget |-> Allowance[c], replays |-> MaxReplays,
   identity |-> AnyIdentity(c), used |-> None, local |-> None, applied |-> None,
   job |-> <<>>, free |-> 0, refused |-> {}]

Init ==
  /\ cache = [g \in Guards |-> [k \in Keys |-> 0]]
  /\ solved = 0
  /\ bound = [s \in 1..MaxSolutions |-> CHOOSE i \in Identities : TRUE]
  /\ expired = {} /\ closed = FALSE
  /\ pc = [c \in Calls |-> "prepare"]
  /\ run = [c \in Calls |-> Fresh(c)]

Goto(c, step, state) ==
  pc' = [pc EXCEPT ![c] = step] /\ run' = [run EXCEPT ![c] = state]

\* The call returns or raises: nothing is left of it.
End(c) == Goto(c, "done", Fresh(c))

\* execute() goes on with the next attempt, if there may be one.
Again(c, state) ==
  IF state.number <= HardLimit(c)
  THEN Goto(c, "prepare", [state EXCEPT !.identity = AnyIdentity(c), !.used = None,
                                        !.job = <<>>])
  ELSE Goto(c, "limit", [Fresh(c) EXCEPT !.free = state.free])
------------------------------------------------------------------------------
(***************************************************************************)
(* Preparing an attempt                                                    *)
(***************************************************************************)

\* A solution acquired under another identity, or expired, is not reused.
Good(s, i) == s # 0 /\ s \notin expired /\ bound[s] = i

\* _find_shared_state: the newest good solution of a guard, whatever its key ...
Newest(g, i) == Max({0} \cup {s \in {cache[g][k] : k \in Keys} : Good(s, i)})

\* ... and what it leaves in the cache.
Pruned(g, i) ==
  [k \in Keys |-> IF Mode[g] # "shared" \/ Good(cache[g][k], i) THEN cache[g][k] ELSE 0]

\* A fault: the call's own solution is kept when its identity changes.
OwnUnchecked(c, g, i) == run[c].local[g]

\* The call's own solution, as long as the identity is the one it is bound to.
Own(c, g, i) ==
  IF run[c].local[g] # 0 /\ bound[run[c].local[g]] = i THEN run[c].local[g] ELSE 0

Carried(c, g, i) ==
  IF Own(c, g, i) # 0 THEN Own(c, g, i)
  ELSE IF Mode[g] = "shared" THEN Newest(g, i) ELSE 0

\* The shared solution a guard is known to have applied last.
Applied(c, g, i) ==
  IF Mode[g] = "shared" /\ Newest(g, i) # 0 /\ Carried(c, g, i) = Newest(g, i)
  THEN Newest(g, i) ELSE run[c].applied[g]

\* _prepare: contributed headers decide the identity, then _managed_values.
Prepare(c, i) ==
  /\ pc[c] = "prepare"
  /\ cache' = [g \in Guards |-> Pruned(g, i)]
  /\ Goto(c, "send", [run[c] EXCEPT
       !.identity = i,
       !.used = [g \in Guards |-> Carried(c, g, i)],
       !.applied = [g \in Guards |-> Applied(c, g, i)],
       !.local = [g \in Guards |-> IF Mode[g] = "match" THEN 0 ELSE Own(c, g, i)]])
  /\ UNCHANGED <<solved, bound, expired, closed>>

\* A dependency, the session, the body or a private binding fails.
PrepareFails(c) == pc[c] = "prepare" /\ End(c) /\ UNCHANGED shared

(***************************************************************************)
(* The decision over an outcome                                            *)
(***************************************************************************)
NextAttempt(c) == [run[c] EXCEPT !.number = @ + 1]

Spending(c, name) == [NextAttempt(c) EXCEPT !.budget[name] = @ - 1]

\* A policy repeats the attempt on its own budget, middleware on nobody's.
Repeat(c, name) == Again(c, Spending(c, name))
RepeatForFree(c) == Again(c, [NextAttempt(c) EXCEPT !.free = @ + 1])

MayPropose(c) == run[c].free < Proposals[c]

Left(c, name) == run[c].budget[name] > 0

Responding(c) == pc[c] = "send" /\ UNCHANGED shared

Answered(c) == Responding(c) /\ End(c)

\* The handler raises; middleware may propose to repeat the attempt.
TransportError(c, proposed) ==
  /\ Responding(c)
  /\ IF c \notin Idempotent \/ ~(Left(c, "transport") \/ proposed) THEN End(c)
     ELSE IF Left(c, "transport") THEN Repeat(c, "transport")
     ELSE RepeatForFree(c)

\* Middleware answers the response with RetryAttempt.
MiddlewareRetry(c) ==
  /\ MayPropose(c) /\ Responding(c)
  /\ IF c \in Idempotent THEN RepeatForFree(c) ELSE End(c)

\* A retryable status; without budget the response is the answer.
RetryStatus(c) ==
  /\ Responding(c)
  /\ Left(c, "transport") /\ run[c].number < HardLimit(c)
  /\ IF c \in Idempotent THEN Repeat(c, "transport") ELSE End(c)

\* A redirect without budget raises.
Redirected(c) ==
  /\ Responding(c)
  /\ IF Left(c, "redirect") THEN Repeat(c, "redirect") ELSE End(c)

\* A 401 or a reauth case, with a session that can be refreshed.
SessionRejected(c) ==
  /\ Responding(c)
  /\ Left(c, "auth") /\ run[c].number < HardLimit(c)
  /\ IF c \in Idempotent THEN Goto(c, "refresh", Spending(c, "auth")) ELSE End(c)

RefreshReturns(c) == pc[c] = "refresh" /\ Again(c, run[c]) /\ UNCHANGED shared

RefreshRaises(c) == pc[c] = "refresh" /\ End(c) /\ UNCHANGED shared

(***************************************************************************)
(* Challenges                                                              *)
(***************************************************************************)

\* A guard's signal matches the response: its challenge, of some key.  What the
\* attempt carried for the guard is refused.
Challenged(c, g, k) ==
  /\ Responding(c)
  /\ IF run[c].replays[g] > 0 /\ c \in Replayable
     THEN Goto(c, IF Mode[g] = "shared" THEN "wait" ELSE "solve",
               [NextAttempt(c) EXCEPT
                  !.replays[g] = @ - 1,
                  !.refused = @ \cup ({run[c].used[g]} \ {0}),
                  !.local = IF Mode[g] = "shared" THEN @ ELSE [@ EXCEPT ![g] = 0],
                  !.used = None, !.job = <<g, k, closed>>])
     ELSE End(c)

Guard(c) == run[c].job[1]
Key(c) == run[c].job[2]

\* A fault: an entry that anyone else uses is taken for a lock that is held.
LockUnused(c) ==
  \A d \in Calls \ {c} : pc[d] \in {"wait", "solve"} => run[d].job # run[c].job

LockFree(c) == \A d \in Calls : pc[d] = "solve" => run[d].job # run[c].job

\* A fault: only the challenge's own key is cleared, not the solution refused.
KeptAnyway(c) == cache[Guard(c)]

\* The cache of the guard without the solution the server has refused.
Kept(c) ==
  [k \in Keys |-> IF cache[Guard(c)][k] = run[c].applied[Guard(c)] THEN 0
                  ELSE cache[Guard(c)][k]]

\* The call goes on with a solution, shared or its own.
GoOnWith(c, s, isShared) ==
  Again(c, [run[c] EXCEPT
    !.local[Guard(c)] = s,
    !.applied = IF isShared THEN [@ EXCEPT ![Guard(c)] = s] ELSE @])

\* Under the lock: another call has solved it meanwhile.
ReuseSolution(c) ==
  /\ pc[c] = "wait" /\ LockFree(c)
  /\ Good(Kept(c)[Key(c)], run[c].identity)
  /\ cache' = [cache EXCEPT ![Guard(c)] = Kept(c)]
  /\ GoOnWith(c, Kept(c)[Key(c)], TRUE)
  /\ UNCHANGED <<solved, bound, expired, closed>>

\* A fault: whoever gets the lock solves.
BeginSolveAnyway(c) ==
  /\ pc[c] = "wait"
  /\ cache' = [cache EXCEPT ![Guard(c)] = Kept(c)]
  /\ Goto(c, "solve", run[c])
  /\ UNCHANGED <<solved, bound, expired, closed>>

BeginSolve(c) ==
  /\ pc[c] = "wait" /\ LockFree(c)
  /\ ~Good(Kept(c)[Key(c)], run[c].identity)
  /\ cache' = [cache EXCEPT ![Guard(c)] = [Kept(c) EXCEPT ![Key(c)] = 0]]
  /\ Goto(c, "solve", run[c])
  /\ UNCHANGED <<solved, bound, expired, closed>>

\* The solver returns a solution that applies to the request; it is shared
\* unless its expiry has passed, or it has none and should.
Solved(c, shareable) ==
  /\ pc[c] = "solve" /\ solved < MaxSolutions
  /\ shareable => Mode[Guard(c)] = "shared"
  /\ solved' = solved + 1
  /\ bound' = [bound EXCEPT ![solved'] = run[c].identity]
  /\ cache' = IF shareable THEN [cache EXCEPT ![Guard(c)][Key(c)] = solved']
              ELSE cache
  /\ GoOnWith(c, solved', shareable)
  /\ UNCHANGED <<expired, closed>>

\* The solver raises, or its solution does not apply.
SolveFails(c) == pc[c] = "solve" /\ End(c) /\ UNCHANGED shared

(***************************************************************************)
(* What the application and time do                                        *)
(***************************************************************************)
Cancel(c) == pc[c] \notin {"done", "limit"} /\ End(c) /\ UNCHANGED shared

Forget(guards) ==
  cache' = [g \in Guards |-> IF g \in guards THEN [k \in Keys |-> 0] ELSE cache[g]]

\* client.invalidate_protection, for one guard.
Invalidate(g) == Forget({g}) /\ UNCHANGED <<solved, bound, expired, closed, pc, run>>

\* The client closes: the cache and the locks are cleared, calls in flight go on.
Close ==
  /\ Closes /\ ~closed /\ closed' = TRUE
  /\ Forget(Guards)
  /\ UNCHANGED <<solved, bound, expired, pc, run>>

\* Expiry is only looked at in the cache.
Expire(s) ==
  /\ s \notin expired /\ \E g \in Guards, k \in Keys : cache[g][k] = s
  /\ expired' = expired \cup {s}
  /\ UNCHANGED <<cache, solved, bound, closed, pc, run>>
------------------------------------------------------------------------------
Step(c) ==
  \/ \E i \in MayHave[c] : Prepare(c, i)
  \/ PrepareFails(c)
  \/ Answered(c)
  \/ \E proposed \in {FALSE, MayPropose(c)} : TransportError(c, proposed)
  \/ MiddlewareRetry(c) \/ RetryStatus(c) \/ Redirected(c)
  \/ SessionRejected(c) \/ RefreshReturns(c) \/ RefreshRaises(c)
  \/ \E g \in Guards : \E k \in Asks[g] : Challenged(c, g, k)
  \/ ReuseSolution(c) \/ BeginSolve(c)
  \/ \E shareable \in BOOLEAN : Solved(c, shareable)
  \/ SolveFails(c)

Next ==
  \/ \E c \in Calls : Step(c) \/ Cancel(c)
  \/ \E g \in Guards : Invalidate(g)
  \/ Close
  \/ \E s \in 1..solved : Expire(s)

Spec == Init /\ [][Next]_vars

\* Handlers and solvers answer or raise; a lock that is free is polled.
FairSpec == Spec /\ \A c \in Calls : WF_vars(Step(c))
------------------------------------------------------------------------------
Steps == {"prepare", "send", "refresh", "wait", "solve", "done", "limit"}
Solutions == 0..MaxSolutions

Runs ==
  [number : Nat, budget : [transport : Nat, auth : Nat, redirect : Nat],
   replays : [Guards -> Nat], identity : Identities, used : [Guards -> Solutions],
   local : [Guards -> Solutions], applied : [Guards -> Solutions],
   job : {<<>>} \cup (Guards \X Keys \X BOOLEAN), free : Nat,
   refused : SUBSET Solutions]

\* A call ends for want of attempts only if middleware has spent them: its own
\* policies' budgets always fit the hard limit, so no challenge is solved, no
\* session refreshed and no redirect followed for an attempt that never comes.
LimitNeedsMiddleware ==
  \A c \in Calls : pc[c] = "limit" => run[c].free > 0

\* A solution is only sent under the transport identity it was acquired under,
\* though the identity may change from one attempt to the next.
SolutionsKeepIdentity ==
  \A c \in Calls, g \in Guards :
    pc[c] = "send" /\ run[c].used[g] # 0 => bound[run[c].used[g]] = run[c].identity

Cached(g) == {cache[g][k] : k \in Keys}

\* A solution the call has been challenged with is gone: the replay never carries it
\* again, and no other call finds it in the cache, under whatever key.
RefusedIsGone ==
  \A c \in Calls, g \in Guards :
    /\ pc[c] = "send" => run[c].used[g] \notin run[c].refused
    /\ pc[c] # "wait" => run[c].refused \cap Cached(g) = {}

\* While the client is open, calls challenged at once wait for one solution:
\* one call solves a key, and only while the cache has nothing for it.
OneSolver ==
  \A c \in Calls :
    pc[c] = "solve" /\ Mode[Guard(c)] = "shared" /\ ~closed =>
      /\ cache[Guard(c)][Key(c)] = 0
      /\ \A d \in Calls \ {c} : pc[d] = "solve" => run[d].job # run[c].job

\* Every call returns.
CallsReturn == \A c \in Calls : <>(pc[c] \in {"done", "limit"})
==============================================================================
