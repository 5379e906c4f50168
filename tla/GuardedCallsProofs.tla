-------------------------- MODULE GuardedCallsProofs --------------------------
(***************************************************************************)
(* Proofs about GuardedCalls, for any calls, guards, keys, identities and  *)
(* budgets; and about two algorithms a call depends on: the order of its   *)
(* dependencies (DependencyOrder), for any declarations, and the reading   *)
(* of a list by pages (Pagination), for any lists, strategies and limits.  *)
(***************************************************************************)
EXTENDS GuardedCalls, DependencyOrder, Pagination, FiniteSetTheorems, SequenceTheorems,
        WellFoundedInduction, TLAPS

\* A set of numbers has a least member.
LEMMA MinIsThere ==
  ASSUME NEW S \in SUBSET Nat, S # {}
  PROVE  Min(S) \in S /\ \A y \in S : Min(S) =< y
<1>1. PICK x \in S : \A y \in S : ~(<<y, x>> \in OpToRel(<, Nat))
  BY NatLessThanWellFounded, WFMin
<1>2. \A y \in S : ~(y < x)
  BY <1>1 DEF OpToRel
<1>3. \A y \in S : x =< y
  BY <1>2
<1> QED
  BY <1>3 DEF Min

\* A set of numbers with a bound has a greatest one.
LEMMA MaxIsThere ==
  ASSUME NEW n \in Nat, NEW S \in SUBSET (0..n), S # {}
  PROVE  Max(S) \in S
<1> DEFINE T == {n - x : x \in S}
<1>1. \A x \in S : n - x \in Nat
  OBVIOUS
<1>2. T \in SUBSET Nat /\ T # {}
  BY <1>1
<1>3. Min(T) \in T /\ \A y \in T : Min(T) =< y
  BY <1>2, MinIsThere
<1>4. PICK x \in S : Min(T) = n - x
  BY <1>3
<1>5. \A y \in S : n - x =< n - y
  BY <1>3, <1>4
<1>6. \A y \in S : x >= y
  BY <1>5
<1> QED
  BY <1>6 DEF Max

USE GuardedAssumption

TypeOK ==
  /\ solved \in Nat /\ solved <= MaxSolutions
  /\ cache \in [Guards -> [Keys -> 0..solved]]
  /\ bound \in [1..MaxSolutions -> Identities]
  /\ closed \in BOOLEAN
  /\ pc \in [Calls -> Steps] /\ run \in [Calls -> Runs]
  /\ \A c \in Calls : pc[c] \in {"wait", "solve"} => run[c].job \in Guards \X Keys \X BOOLEAN

\* The other calls stay where they are.
Others(c) == \A d \in Calls \ {c} : pc'[d] = pc[d] /\ run'[d] = run[d]

\* A state of a call has the solutions of another.
SameSolutions(a, b) ==
  a.used = b.used /\ a.local = b.local /\ a.applied = b.applied /\ a.refused = b.refused
------------------------------------------------------------------------------
(***************************************************************************)
(* The operators                                                           *)
(***************************************************************************)

\* The number of no solution.
LEMMA ZeroIsNone == 0 \in Solutions
  BY DEF GuardedAssumption, Solutions

\* What a call begins with.
LEMMA FreshIs ==
  ASSUME NEW c \in Calls
  PROVE  /\ Fresh(c) \in Runs /\ Fresh(c).local = None /\ Fresh(c).applied = None
         /\ Fresh(c).used = None /\ Fresh(c).refused = {} /\ Fresh(c).identity \in Identities
         /\ None \in [Guards -> Solutions] /\ AnyIdentity(c) \in Identities
<1>1. AnyIdentity(c) \in Identities
  <2>1. MayHave[c] # {} /\ MayHave[c] \subseteq Identities
    BY DEF GuardedAssumption
  <2> QED
    BY <2>1 DEF AnyIdentity
<1>2. None \in [Guards -> Solutions]
  BY DEF None, Solutions
<1> QED
  BY <1>1, <1>2 DEF Fresh, Runs

\* The next attempt has one number more, and is the last one otherwise.
LEMMA NextAttemptIs ==
  ASSUME TypeOK, NEW c \in Calls
  PROVE  /\ NextAttempt(c) \in Runs /\ SameSolutions(NextAttempt(c), run[c])
         /\ NextAttempt(c).budget = run[c].budget /\ NextAttempt(c).free = run[c].free
<1> DEFINE s == run[c]
<1>1. s \in Runs
  BY DEF TypeOK
<1>2. NextAttempt(c) = [s EXCEPT !.number = s.number + 1]
  BY DEF NextAttempt
<1>3. SameSolutions(NextAttempt(c), run[c]) <=> SameSolutions(NextAttempt(c), s)
  OBVIOUS
<1>4. NextAttempt(c).budget = run[c].budget <=> NextAttempt(c).budget = s.budget
  OBVIOUS
<1>5. NextAttempt(c).free = run[c].free <=> NextAttempt(c).free = s.free
  OBVIOUS
<1> HIDE DEF s
<1>6. s.number + 1 \in Nat
  BY <1>1 DEF Runs
<1>7. NextAttempt(c) \in Runs
  BY <1>1, <1>2, <1>6 DEF Runs
<1>8. SameSolutions(NextAttempt(c), s)
  BY <1>1, <1>2 DEF Runs, SameSolutions
<1>9. NextAttempt(c).budget = s.budget /\ NextAttempt(c).free = s.free
  BY <1>1, <1>2 DEF Runs
<1> QED
  BY <1>3, <1>4, <1>5, <1>7, <1>8, <1>9

\* Spending a budget that is left keeps it a budget.
LEMMA SpendingIs ==
  ASSUME TypeOK, NEW c \in Calls, NEW name \in {"transport", "auth", "redirect"}, Left(c, name)
  PROVE  Spending(c, name) \in Runs /\ SameSolutions(Spending(c, name), run[c])
<1> DEFINE a == NextAttempt(c)
           b == [a.budget EXCEPT ![name] = a.budget[name] - 1]
<1>1. a \in Runs /\ SameSolutions(a, run[c]) /\ a.budget = run[c].budget
  BY NextAttemptIs
<1>2. a.budget[name] \in Nat /\ a.budget[name] > 0
  BY <1>1 DEF Runs, Left
<1>3. b \in [transport : Nat, auth : Nat, redirect : Nat]
  <2>1. a.budget \in [transport : Nat, auth : Nat, redirect : Nat] /\ a.budget[name] - 1 \in Nat
    BY <1>1, <1>2 DEF Runs
  <2> HIDE DEF a
  <2>2. CASE name = "transport"
    BY <2>1, <2>2
  <2>3. CASE name = "auth"
    BY <2>1, <2>3
  <2>4. CASE name = "redirect"
    BY <2>1, <2>4
  <2> QED
    BY <2>2, <2>3, <2>4
<1>4. Spending(c, name) = [a EXCEPT !.budget = b]
  BY DEF Spending
<1> HIDE DEF a, b
<1> QED
  BY <1>1, <1>3, <1>4 DEF Runs, SameSolutions

\* Going to a step with a state is just that.
LEMMA GotoIs ==
  ASSUME TypeOK, NEW c \in Calls, NEW step \in Steps, NEW s \in Runs, Goto(c, step, s)
  PROVE  /\ pc' \in [Calls -> Steps] /\ run' \in [Calls -> Runs] /\ Others(c)
         /\ pc'[c] = step /\ run'[c] = s
  BY DEF Goto, Others, TypeOK

\* A call that ends has nothing left.
LEMMA EndIs ==
  ASSUME TypeOK, NEW c \in Calls, End(c)
  PROVE  /\ pc' \in [Calls -> Steps] /\ run' \in [Calls -> Runs] /\ Others(c)
         /\ pc'[c] = "done" /\ run'[c] = Fresh(c)
  BY FreshIs, GotoIs DEF End, Steps

\* A call that goes on to the next attempt keeps its solutions, or has ended with none.
LEMMA AgainIs ==
  ASSUME TypeOK, NEW c \in Calls, NEW state \in Runs, Again(c, state)
  PROVE  /\ pc' \in [Calls -> Steps] /\ run' \in [Calls -> Runs] /\ Others(c)
         /\ pc'[c] \in {"prepare", "limit"} /\ run'[c].used = None
         /\ \/ /\ run'[c].local = state.local /\ run'[c].applied = state.applied
               /\ run'[c].refused = state.refused
            \/ run'[c].local = None /\ run'[c].applied = None /\ run'[c].refused = {}
<1>f. None \in [Guards -> Solutions] /\ AnyIdentity(c) \in Identities
  BY FreshIs
<1>1. CASE state.number <= HardLimit(c)
  <2> DEFINE s == [state EXCEPT !.identity = AnyIdentity(c), !.used = None, !.job = <<>>]
  <2>1. Goto(c, "prepare", s)
    BY <1>1 DEF Again
  <2>2. /\ s \in Runs /\ s.used = None /\ s.local = state.local /\ s.applied = state.applied
        /\ s.refused = state.refused
    BY <1>f DEF Runs
  <2> HIDE DEF s
  <2> QED
    BY GotoIs, <2>1, <2>2 DEF Steps
<1>2. CASE ~(state.number <= HardLimit(c))
  <2> DEFINE s == [Fresh(c) EXCEPT !.free = state.free]
  <2>1. Goto(c, "limit", s)
    BY <1>2 DEF Again
  <2>2. /\ s \in Runs /\ s.used = None /\ s.local = None /\ s.applied = None
        /\ s.refused = {}
    BY FreshIs DEF Runs
  <2> HIDE DEF s
  <2> QED
    BY GotoIs, <2>1, <2>2 DEF Steps
<1> QED
  BY <1>1, <1>2
------------------------------------------------------------------------------
(***************************************************************************)
(* The steps of a call                                                     *)
(***************************************************************************)

\* A step that leaves the cache alone, after which the call is in no attempt: it goes on
\* after a response with the solutions it has, or has nothing left.
Moves(c) ==
  /\ UNCHANGED shared /\ Others(c)
  /\ pc'[c] \in {"prepare", "limit", "refresh", "done"}
  /\ \/ /\ pc[c] \in {"send", "refresh"}
        /\ run'[c].local = run[c].local /\ run'[c].applied = run[c].applied
        /\ run'[c].refused = run[c].refused
     \/ run'[c].local = None /\ run'[c].applied = None /\ run'[c].refused = {}

\* A challenge that the call means to answer.
Accepted(c, g, k) ==
  /\ pc[c] = "send" /\ UNCHANGED shared /\ run[c].replays[g] > 0
  /\ Goto(c, IF Mode[g] = "shared" THEN "wait" ELSE "solve",
          [NextAttempt(c) EXCEPT
             !.replays[g] = @ - 1,
             !.refused = @ \cup ({run[c].used[g]} \ {0}),
             !.local = IF Mode[g] = "shared" THEN @ ELSE [@ EXCEPT ![g] = 0],
             !.used = None, !.job = <<g, k, closed>>])

\* Ending is a move.
LEMMA EndMoves ==
  ASSUME TypeOK, NEW c \in Calls, End(c), UNCHANGED shared
  PROVE  Moves(c) /\ pc' \in [Calls -> Steps] /\ run' \in [Calls -> Runs]
  BY EndIs, FreshIs DEF Moves

\* So is going on with the next attempt.
LEMMA AgainMoves ==
  ASSUME TypeOK, NEW c \in Calls, pc[c] \in {"send", "refresh"}, UNCHANGED shared,
         NEW state \in Runs, SameSolutions(state, run[c]), Again(c, state)
  PROVE  Moves(c) /\ pc' \in [Calls -> Steps] /\ run' \in [Calls -> Runs]
  BY AgainIs DEF Moves, SameSolutions

\* So is spending a budget on it, or proposing it.
LEMMA RepeatMoves ==
  ASSUME TypeOK, NEW c \in Calls, pc[c] = "send", UNCHANGED shared,
         \/ \E name \in {"transport", "auth", "redirect"} : Left(c, name) /\ Repeat(c, name)
         \/ RepeatForFree(c)
  PROVE  Moves(c) /\ pc' \in [Calls -> Steps] /\ run' \in [Calls -> Runs]
<1>1. CASE \E name \in {"transport", "auth", "redirect"} : Left(c, name) /\ Repeat(c, name)
  BY <1>1, SpendingIs, AgainMoves DEF Repeat
<1>2. CASE RepeatForFree(c)
  <2> DEFINE a == NextAttempt(c)
             s == [a EXCEPT !.free = @ + 1]
  <2>1. a \in Runs /\ SameSolutions(a, run[c])
    BY NextAttemptIs
  <2>2. Again(c, s)
    BY <1>2 DEF RepeatForFree
  <2> HIDE DEF a
  <2>3. s \in Runs /\ SameSolutions(s, run[c])
    <3>1. a.free + 1 \in Nat
      BY <2>1 DEF Runs
    <3>2. s \in Runs
      BY <2>1, <3>1 DEF Runs
    <3>3. SameSolutions(s, a)
      BY <2>1 DEF Runs, SameSolutions
    <3> QED
      BY <2>1, <3>2, <3>3 DEF SameSolutions
  <2> HIDE DEF s
  <2> QED
    BY <2>2, <2>3, AgainMoves
<1> QED
  BY <1>1, <1>2

\* Every step of a call is one of these.
LEMMA StepIs ==
  ASSUME TypeOK, NEW c \in Calls, Step(c)
  PROVE  \/ Moves(c) /\ pc' \in [Calls -> Steps] /\ run' \in [Calls -> Runs]
         \/ \E i \in MayHave[c] : Prepare(c, i)
         \/ \E g \in Guards : \E k \in Asks[g] : Accepted(c, g, k)
         \/ ReuseSolution(c) \/ BeginSolve(c)
         \/ \E shareable \in BOOLEAN : Solved(c, shareable)
<1> DEFINE Moving == Moves(c) /\ pc' \in [Calls -> Steps] /\ run' \in [Calls -> Runs]
<1>1. CASE PrepareFails(c) \/ Answered(c) \/ RefreshRaises(c) \/ SolveFails(c)
  BY <1>1, EndMoves DEF PrepareFails, Answered, RefreshRaises, SolveFails, Responding
<1>2. CASE \E proposed \in {FALSE, MayPropose(c)} : TransportError(c, proposed)
  BY <1>2, EndMoves, RepeatMoves DEF TransportError, Responding
<1>3. CASE MiddlewareRetry(c) \/ RetryStatus(c) \/ Redirected(c)
  BY <1>3, EndMoves, RepeatMoves DEF MiddlewareRetry, RetryStatus, Redirected, Responding
<1>4. CASE SessionRejected(c)
  <2>1. pc[c] = "send" /\ UNCHANGED shared /\ Left(c, "auth")
    BY <1>4 DEF SessionRejected, Responding
  <2>2. CASE End(c)
    BY <2>1, <2>2, EndMoves
  <2>3. CASE Goto(c, "refresh", Spending(c, "auth"))
    <3>1. Spending(c, "auth") \in Runs /\ SameSolutions(Spending(c, "auth"), run[c])
      BY <2>1, SpendingIs
    <3>2. /\ pc' \in [Calls -> Steps] /\ run' \in [Calls -> Runs] /\ Others(c)
          /\ pc'[c] = "refresh" /\ run'[c] = Spending(c, "auth")
      BY <2>3, <3>1, GotoIs DEF Steps
    <3> QED
      BY <2>1, <3>1, <3>2 DEF Moves, SameSolutions
  <2> QED
    BY <1>4, <2>2, <2>3 DEF SessionRejected
<1>5. CASE RefreshReturns(c)
  <2>1. run[c] \in Runs /\ SameSolutions(run[c], run[c])
    BY DEF TypeOK, SameSolutions
  <2> QED
    BY <1>5, <2>1, AgainMoves DEF RefreshReturns
<1>6. ASSUME NEW g \in Guards, NEW k \in Asks[g], Challenged(c, g, k)
      PROVE  Moving \/ Accepted(c, g, k)
  <2>1. pc[c] = "send" /\ UNCHANGED shared
    BY <1>6 DEF Challenged, Responding
  <2>2. CASE End(c)
    BY <2>1, <2>2, EndMoves
  <2>3. CASE ~ End(c)
    BY <1>6, <2>1, <2>3 DEF Challenged, Accepted
  <2> QED
    BY <2>2, <2>3
<1> HIDE DEF Moving
<1>7. \/ Moving
      \/ \E i \in MayHave[c] : Prepare(c, i)
      \/ \E g \in Guards : \E k \in Asks[g] : Accepted(c, g, k)
      \/ ReuseSolution(c) \/ BeginSolve(c)
      \/ \E shareable \in BOOLEAN : Solved(c, shareable)
  BY <1>1, <1>2, <1>3, <1>4, <1>5, <1>6 DEF Step, Moving
<1> QED
  BY <1>7 DEF Moving

\* What preparing an attempt makes of the call.
LEMMA PrepareIs ==
  ASSUME TypeOK, NEW c \in Calls, NEW i \in MayHave[c], Prepare(c, i)
  PROVE  /\ pc' \in [Calls -> Steps] /\ run' \in [Calls -> Runs] /\ Others(c)
         /\ pc'[c] = "send" /\ run'[c].identity = i /\ run'[c].refused = run[c].refused
         /\ \A g \in Guards : /\ run'[c].used[g] = Carried(c, g, i)
                              /\ run'[c].applied[g] = Applied(c, g, i)
                              /\ run'[c].local[g] \in {0, Own(c, g, i)}
         /\ \A g \in Guards : /\ Newest(g, i) \in 0..solved
                              /\ Newest(g, i) # 0 => /\ \E k \in Keys : cache[g][k] = Newest(g, i)
                                                     /\ bound[Newest(g, i)] = i
<1>t. /\ run[c] \in Runs /\ solved \in Nat /\ i \in Identities
      /\ \A s \in 0..solved : s \in Solutions
  <2>1. i \in Identities
    BY DEF GuardedAssumption
  <2> QED
    BY <2>1 DEF TypeOK, Solutions
<1>1. ASSUME NEW g \in Guards
      PROVE  /\ Newest(g, i) \in 0..solved
             /\ Newest(g, i) # 0 => /\ \E k \in Keys : cache[g][k] = Newest(g, i)
                                    /\ bound[Newest(g, i)] = i
  <2> DEFINE S == {0} \cup {s \in {cache[g][k] : k \in Keys} : Good(s, i)}
  <2>1. S \in SUBSET (0..solved) /\ S # {}
    BY DEF TypeOK
  <2>2. Max(S) \in S
    BY <1>t, <2>1, MaxIsThere
  <2>3. Newest(g, i) = Max(S)
    BY DEF Newest
  <2> QED
    BY <2>1, <2>2, <2>3 DEF Good
<1>2. ASSUME NEW g \in Guards
      PROVE  /\ Own(c, g, i) \in Solutions /\ Carried(c, g, i) \in Solutions
             /\ Applied(c, g, i) \in Solutions
  <2>1. /\ run[c].local[g] \in Solutions /\ run[c].applied[g] \in Solutions /\ 0 \in Solutions
        /\ Newest(g, i) \in Solutions
    <3>1. run[c].local \in [Guards -> Solutions] /\ run[c].applied \in [Guards -> Solutions]
      BY <1>t DEF Runs
    <3>2. Newest(g, i) \in Solutions /\ 0 \in Solutions
      BY <1>1, <1>t, ZeroIsNone
    <3> QED
      BY <3>1, <3>2
  <2> QED
    BY <2>1 DEF Own, Carried, Applied
<1> DEFINE used == [g \in Guards |-> Carried(c, g, i)]
           applied == [g \in Guards |-> Applied(c, g, i)]
           local == [g \in Guards |-> IF Mode[g] = "match" THEN 0 ELSE Own(c, g, i)]
           s == [run[c] EXCEPT !.identity = i, !.used = used, !.applied = applied,
                               !.local = local]
<1>3. /\ used \in [Guards -> Solutions] /\ applied \in [Guards -> Solutions]
      /\ local \in [Guards -> Solutions]
  BY <1>2 DEF Solutions
<1>4. Goto(c, "send", s)
  BY DEF Prepare
<1>v. \A g \in Guards : /\ used[g] = Carried(c, g, i) /\ applied[g] = Applied(c, g, i)
                        /\ local[g] \in {0, Own(c, g, i)}
  OBVIOUS
<1> HIDE DEF used, applied, local
<1>5. /\ s \in Runs /\ s.identity = i /\ s.refused = run[c].refused
      /\ s.used = used /\ s.applied = applied /\ s.local = local
  BY <1>t, <1>3 DEF Runs
<1> HIDE DEF s
<1>6. /\ pc' \in [Calls -> Steps] /\ run' \in [Calls -> Runs] /\ Others(c)
      /\ pc'[c] = "send" /\ run'[c] = s
  BY <1>4, <1>5, GotoIs DEF Steps
<1> QED
  BY <1>1, <1>5, <1>6, <1>v

\* What a challenge makes of it.
LEMMA AcceptedIs ==
  ASSUME TypeOK, NEW c \in Calls, NEW g \in Guards, NEW k \in Asks[g], Accepted(c, g, k)
  PROVE  /\ pc' \in [Calls -> Steps] /\ run' \in [Calls -> Runs] /\ Others(c)
         /\ pc[c] = "send" /\ UNCHANGED shared
         /\ pc'[c] = IF Mode[g] = "shared" THEN "wait" ELSE "solve"
         /\ run'[c].job = <<g, k, closed>> /\ k \in Keys /\ run'[c].used = None
         /\ run'[c].applied = run[c].applied
         /\ run'[c].refused = run[c].refused \cup ({run[c].used[g]} \ {0})
         /\ \A h \in Guards \ {g} : run'[c].local[h] = run[c].local[h]
         /\ run'[c].local[g] = IF Mode[g] = "shared" THEN run[c].local[g] ELSE 0
<1> DEFINE a == NextAttempt(c)
           refused == run[c].refused \cup ({run[c].used[g]} \ {0})
           local == IF Mode[g] = "shared" THEN run[c].local ELSE [run[c].local EXCEPT ![g] = 0]
           replays == [a.replays EXCEPT ![g] = a.replays[g] - 1]
           s == [a EXCEPT !.replays = replays, !.refused = refused, !.local = local,
                          !.used = None, !.job = <<g, k, closed>>]
<1>1. /\ a \in Runs /\ SameSolutions(a, run[c]) /\ a.replays[g] = run[c].replays[g]
      /\ run[c] \in Runs
  <2>1. run[c] \in Runs
    BY DEF TypeOK
  <2>2. a.replays = run[c].replays
    BY <2>1 DEF NextAttempt, Runs
  <2> QED
    BY <2>1, <2>2, NextAttemptIs
<1>2. /\ pc[c] = "send" /\ UNCHANGED shared /\ run[c].replays[g] > 0
      /\ Goto(c, IF Mode[g] = "shared" THEN "wait" ELSE "solve", s)
  <2>1. s = [a EXCEPT
             !.replays[g] = @ - 1,
             !.refused = @ \cup ({run[c].used[g]} \ {0}),
             !.local = IF Mode[g] = "shared" THEN @ ELSE [@ EXCEPT ![g] = 0],
             !.used = None, !.job = <<g, k, closed>>]
    BY <1>1 DEF SameSolutions
  <2> QED
    BY <2>1 DEF Accepted
<1>3. /\ k \in Keys /\ <<g, k, closed>> \in Guards \X Keys \X BOOLEAN
      /\ None \in [Guards -> Solutions]
  BY FreshIs DEF TypeOK, GuardedAssumption
<1>4. replays \in [Guards -> Nat]
  <2>1. a.replays \in [Guards -> Nat] /\ a.replays[g] > 0
    BY <1>1, <1>2 DEF Runs
  <2>2. a.replays[g] - 1 \in Nat
    BY <2>1
  <2> HIDE DEF a
  <2> QED
    BY <2>1, <2>2
<1>5. refused \in SUBSET Solutions /\ local \in [Guards -> Solutions]
  <2>1. /\ run[c].refused \in SUBSET Solutions /\ run[c].used \in [Guards -> Solutions]
        /\ run[c].local \in [Guards -> Solutions] /\ 0 \in Solutions
    BY <1>1, ZeroIsNone DEF Runs
  <2>2. run[c].used[g] \in Solutions
    BY <2>1
  <2> QED
    BY <2>1, <2>2
<1>v. /\ \A h \in Guards \ {g} : local[h] = run[c].local[h]
      /\ local[g] = IF Mode[g] = "shared" THEN run[c].local[g] ELSE 0
  BY <1>1 DEF Runs
<1> HIDE DEF a, replays, refused, local
<1>6. /\ s \in Runs /\ s.job = <<g, k, closed>> /\ s.used = None /\ s.applied = a.applied
      /\ s.refused = refused /\ s.local = local
  BY <1>1, <1>3, <1>4, <1>5 DEF Runs
<1> HIDE DEF s
<1>7. /\ pc' \in [Calls -> Steps] /\ run' \in [Calls -> Runs] /\ Others(c)
      /\ pc'[c] = IF Mode[g] = "shared" THEN "wait" ELSE "solve"
      /\ run'[c] = s
  BY <1>2, <1>6, GotoIs DEF Steps
<1>8. a.applied = run[c].applied
  BY <1>1 DEF SameSolutions
<1> QED
  BY <1>2, <1>3, <1>6, <1>7, <1>8, <1>v DEF refused

\* A call that goes on with a solution notes it, or begins another attempt with none.
Noted(c, s, isShared) ==
  \/ /\ run'[c].refused = run[c].refused
     /\ run'[c].local = [run[c].local EXCEPT ![Guard(c)] = s]
     /\ run'[c].applied = IF isShared THEN [run[c].applied EXCEPT ![Guard(c)] = s]
                          ELSE run[c].applied
  \/ run'[c].local = None /\ run'[c].applied = None /\ run'[c].refused = {}

\* What going on with a solution makes of a call.
LEMMA GoOnWithIs ==
  ASSUME TypeOK, NEW c \in Calls, Guard(c) \in Guards, NEW s \in Solutions,
         NEW isShared \in BOOLEAN, GoOnWith(c, s, isShared)
  PROVE  /\ pc' \in [Calls -> Steps] /\ run' \in [Calls -> Runs] /\ Others(c)
         /\ pc'[c] \in {"prepare", "limit"} /\ run'[c].used = None
         /\ Noted(c, s, isShared)
<1> DEFINE r == run[c]
           local == [r.local EXCEPT ![Guard(c)] = s]
           applied == IF isShared THEN [r.applied EXCEPT ![Guard(c)] = s] ELSE r.applied
           state == [r EXCEPT !.local = local, !.applied = applied]
<1>1. r \in Runs
  BY DEF TypeOK
<1>2. Again(c, state)
  BY <1>1 DEF GoOnWith, Runs
<1>3. local \in [Guards -> Solutions] /\ applied \in [Guards -> Solutions]
  <2>1. r.local \in [Guards -> Solutions] /\ r.applied \in [Guards -> Solutions]
    BY <1>1 DEF Runs
  <2> QED
    BY <2>1
<1> HIDE DEF r, local, applied
<1>4. /\ state \in Runs /\ state.local = local /\ state.applied = applied
      /\ state.refused = r.refused
  BY <1>1, <1>3 DEF Runs
<1> HIDE DEF state
<1> QED
  BY <1>2, <1>4, AgainIs DEF r, local, applied, Noted

\* What it does to the types and to the other calls.
LEMMA GoOnMoves ==
  ASSUME TypeOK, NEW c \in Calls, Guard(c) \in Guards, NEW s \in Solutions,
         NEW isShared \in BOOLEAN, GoOnWith(c, s, isShared)
  PROVE  /\ pc' \in [Calls -> Steps] /\ run' \in [Calls -> Runs] /\ Others(c)
         /\ pc'[c] \in {"prepare", "limit"}
BY GoOnWithIs

\* The guard and the key of a challenge.
LEMMA JobIs ==
  ASSUME TypeOK, NEW c \in Calls, pc[c] \in {"wait", "solve"}
  PROVE  /\ Guard(c) \in Guards /\ Key(c) \in Keys
         /\ run[c].job = <<Guard(c), Key(c), run[c].job[3]>> /\ run[c].job[3] \in BOOLEAN
<1>1. run[c].job \in Guards \X Keys \X BOOLEAN
  BY DEF TypeOK
<1> QED
  BY <1>1 DEF Guard, Key

\* What clearing the refused solution leaves in the cache.
LEMMA KeptIs ==
  ASSUME TypeOK, NEW c \in Calls, pc[c] = "wait"
  PROVE  /\ Kept(c) \in [Keys -> 0..solved]
         /\ \A k \in Keys : /\ Kept(c)[k] \in {0, cache[Guard(c)][k]}
                            /\ Kept(c)[k] # 0 => Kept(c)[k] # run[c].applied[Guard(c)]
<1>1. cache[Guard(c)] \in [Keys -> 0..solved] /\ 0 \in 0..solved
  BY JobIs DEF TypeOK
<1> QED
  BY <1>1 DEF Kept

\* Under the lock, a solution that another call has shared is reused.
LEMMA ReuseIs ==
  ASSUME TypeOK, NEW c \in Calls, ReuseSolution(c)
  PROVE  /\ pc[c] = "wait" /\ UNCHANGED <<solved, bound, expired, closed>>
         /\ cache' = [cache EXCEPT ![Guard(c)] = Kept(c)]
         /\ Kept(c)[Key(c)] \in Solutions /\ Kept(c)[Key(c)] # 0
         /\ GoOnWith(c, Kept(c)[Key(c)], TRUE)
<1>1. pc[c] = "wait" /\ Good(Kept(c)[Key(c)], run[c].identity)
  BY DEF ReuseSolution
<1>2. Kept(c)[Key(c)] \in 0..solved
  BY <1>1, KeptIs, JobIs
<1>3. Kept(c)[Key(c)] \in Solutions
  BY <1>2 DEF TypeOK, Solutions
<1> QED
  BY <1>1, <1>3 DEF ReuseSolution, Good

\* Or the call begins to solve.
LEMMA BeginIs ==
  ASSUME TypeOK, NEW c \in Calls, BeginSolve(c)
  PROVE  /\ pc[c] = "wait" /\ LockFree(c) /\ UNCHANGED <<solved, bound, expired, closed>>
         /\ cache' = [cache EXCEPT ![Guard(c)] = [Kept(c) EXCEPT ![Key(c)] = 0]]
         /\ [Kept(c) EXCEPT ![Key(c)] = 0] \in [Keys -> 0..solved]
         /\ pc' \in [Calls -> Steps] /\ Others(c) /\ pc'[c] = "solve"
         /\ run' \in [Calls -> Runs] /\ run'[c] = run[c]
<1>1. pc[c] = "wait" /\ Goto(c, "solve", run[c])
  BY DEF BeginSolve
<1>2. run[c] \in Runs
  BY DEF TypeOK
<1>3. Kept(c) \in [Keys -> 0..solved] /\ 0 \in 0..solved
  BY <1>1, KeptIs DEF TypeOK
<1> QED
  BY <1>1, <1>2, <1>3, GotoIs DEF BeginSolve, Steps

\* The solver returns a new solution, for its own call or to share.
LEMMA SolvedIs ==
  ASSUME TypeOK, NEW c \in Calls, NEW shareable \in BOOLEAN, Solved(c, shareable)
  PROVE  /\ pc[c] = "solve" /\ UNCHANGED <<expired, closed>>
         /\ solved' = solved + 1 /\ solved' \in Nat /\ solved' <= MaxSolutions
         /\ solved' \in Solutions
         /\ bound' \in [1..MaxSolutions -> Identities]
         /\ \A s \in 1..solved : bound'[s] = bound[s]
         /\ cache' = IF shareable THEN [cache EXCEPT ![Guard(c)][Key(c)] = solved']
                     ELSE cache
         /\ shareable => Mode[Guard(c)] = "shared"
         /\ GoOnWith(c, solved', shareable)
<1>1. /\ pc[c] = "solve" /\ solved < MaxSolutions /\ UNCHANGED <<expired, closed>>
      /\ shareable => Mode[Guard(c)] = "shared"
      /\ solved' = solved + 1
      /\ bound' = [bound EXCEPT ![solved'] = run[c].identity]
      /\ cache' = IF shareable THEN [cache EXCEPT ![Guard(c)][Key(c)] = solved'] ELSE cache
      /\ GoOnWith(c, solved', shareable)
  BY DEF Solved
<1>2. solved \in Nat /\ MaxSolutions \in Nat /\ bound \in [1..MaxSolutions -> Identities]
  BY DEF TypeOK, GuardedAssumption
<1>3. solved' \in Nat /\ solved' <= MaxSolutions /\ \A s \in 1..solved : s # solved'
  BY <1>1, <1>2
<1>4. run[c].identity \in Identities
  BY DEF TypeOK, Runs
<1>5. bound' \in [1..MaxSolutions -> Identities] /\ \A s \in 1..solved : bound'[s] = bound[s]
  <2>1. \A s \in 1..solved : s \in 1..MaxSolutions
    BY <1>1, <1>2
  <2> QED
    BY <1>1, <1>2, <1>3, <1>4, <2>1
<1>6. solved' \in Solutions
  BY <1>2, <1>3 DEF Solutions
<1> QED
  BY <1>1, <1>3, <1>5, <1>6

\* Solutions only leave the cache.
Shrinks ==
  /\ cache' \in [Guards -> [Keys -> 0..solved]]
  /\ \A g \in Guards, k \in Keys : cache'[g][k] \in {0, cache[g][k]}

\* A step of the application, or of time.
Rests ==
  /\ UNCHANGED <<solved, bound, pc, run>> /\ Shrinks
  /\ closed' \in BOOLEAN /\ (closed => closed')

\* A cache that is not touched shrinks, and so does one that is pruned.
LEMMA ShrinksIs ==
  ASSUME TypeOK
  PROVE  /\ cache' = cache => Shrinks
         /\ \A c \in Calls : \A i \in MayHave[c] : Prepare(c, i) => Shrinks
         /\ \A c \in Calls : ReuseSolution(c) \/ BeginSolve(c) => Shrinks
<1>t. cache \in [Guards -> [Keys -> 0..solved]] /\ 0 \in 0..solved
  BY DEF TypeOK
<1>1. cache' = cache => Shrinks
  BY <1>t DEF Shrinks
<1>2. ASSUME NEW c \in Calls, NEW i \in MayHave[c], Prepare(c, i) PROVE Shrinks
  <2>1. cache' = [g \in Guards |-> Pruned(g, i)]
    BY <1>2 DEF Prepare
  <2>2. \A g \in Guards : /\ Pruned(g, i) \in [Keys -> 0..solved]
                          /\ \A k \in Keys : Pruned(g, i)[k] \in {0, cache[g][k]}
    BY <1>t DEF Pruned
  <2> QED
    BY <2>1, <2>2 DEF Shrinks
<1>3. ASSUME NEW c \in Calls, NEW new \in [Keys -> 0..solved], pc[c] = "wait",
             cache' = [cache EXCEPT ![Guard(c)] = new],
             \A k \in Keys : new[k] \in {0, Kept(c)[k]}
      PROVE  Shrinks
  <2>1. Guard(c) \in Guards /\ \A k \in Keys : new[k] \in {0, cache[Guard(c)][k]}
    BY <1>3, KeptIs, JobIs
  <2> QED
    BY <1>t, <1>3, <2>1 DEF Shrinks
<1>4. ASSUME NEW c \in Calls, ReuseSolution(c) PROVE Shrinks
  BY <1>3, <1>4, ReuseIs, KeptIs
<1>5. ASSUME NEW c \in Calls, BeginSolve(c) PROVE Shrinks
  <2> DEFINE new == [Kept(c) EXCEPT ![Key(c)] = 0]
  <2>1. /\ pc[c] = "wait" /\ cache' = [cache EXCEPT ![Guard(c)] = new]
        /\ new \in [Keys -> 0..solved]
    BY <1>5, BeginIs
  <2>2. \A k \in Keys : new[k] \in {0, Kept(c)[k]}
    BY <2>1, KeptIs
  <2> HIDE DEF new
  <2> QED
    BY <1>3, <2>1, <2>2
<1> QED
  BY <1>1, <1>2, <1>4, <1>5

\* Every step is one of the application or of time, or one of a call.
LEMMA NextIs ==
  ASSUME TypeOK, [Next]_vars
  PROVE  \/ Rests
         \/ \E c \in Calls :
              \/ Moves(c) /\ pc' \in [Calls -> Steps] /\ run' \in [Calls -> Runs]
              \/ \E i \in MayHave[c] : Prepare(c, i)
              \/ \E g \in Guards : \E k \in Asks[g] : Accepted(c, g, k)
              \/ ReuseSolution(c) \/ BeginSolve(c)
              \/ \E shareable \in BOOLEAN : Solved(c, shareable)
<1>t. cache \in [Guards -> [Keys -> 0..solved]] /\ 0 \in 0..solved /\ closed \in BOOLEAN
  BY DEF TypeOK
<1>f. ASSUME NEW guards, Forget(guards) PROVE Shrinks
  BY <1>t, <1>f DEF Forget, Shrinks
<1>1. ASSUME NEW g \in Guards, Invalidate(g) PROVE Rests
  BY <1>t, <1>1, <1>f DEF Invalidate, Rests
<1>2. CASE Close
  <2>1. closed' \in BOOLEAN /\ (closed => closed')
    BY <1>2, Zenon DEF Close
  <2> QED
    BY <1>2, <1>f, <2>1 DEF Close, Rests
<1>3. ASSUME NEW s, Expire(s) PROVE Rests
  BY <1>t, <1>3, ShrinksIs DEF Expire, Rests
<1>4. CASE UNCHANGED vars
  BY <1>t, <1>4, ShrinksIs DEF vars, shared, Rests
<1>5. ASSUME NEW c \in Calls, Cancel(c)
      PROVE  Moves(c) /\ pc' \in [Calls -> Steps] /\ run' \in [Calls -> Runs]
  BY <1>5, EndMoves DEF Cancel
<1>6. CASE \E c \in Calls : Step(c)
  BY <1>6, StepIs
<1> QED
  BY <1>1, <1>2, <1>3, <1>4, <1>5, <1>6 DEF Next

\* Every step keeps the types.
LEMMA TypeStep == TypeOK /\ [Next]_vars => TypeOK'
<1> SUFFICES ASSUME TypeOK, [Next]_vars PROVE TypeOK'
  OBVIOUS
<1>t. /\ solved \in Nat /\ solved <= MaxSolutions /\ closed \in BOOLEAN
      /\ cache \in [Guards -> [Keys -> 0..solved]] /\ bound \in [1..MaxSolutions -> Identities]
  BY DEF TypeOK
<1>j. ASSUME NEW c \in Calls, Others(c), pc' \in [Calls -> Steps], run' \in [Calls -> Runs],
             pc'[c] \in {"wait", "solve"} => run'[c].job \in Guards \X Keys \X BOOLEAN
      PROVE  \A d \in Calls :
               pc'[d] \in {"wait", "solve"} => run'[d].job \in Guards \X Keys \X BOOLEAN
  <2> SUFFICES ASSUME NEW d \in Calls, d # c, pc'[d] \in {"wait", "solve"}
               PROVE  run'[d].job \in Guards \X Keys \X BOOLEAN
    BY <1>j
  <2>1. pc'[d] = pc[d] /\ run'[d] = run[d]
    BY <1>j DEF Others
  <2> QED
    BY <2>1 DEF TypeOK
<1>s. ASSUME UNCHANGED <<solved, bound>>, Shrinks, closed' \in BOOLEAN
      PROVE  /\ solved' \in Nat /\ solved' <= MaxSolutions /\ closed' \in BOOLEAN
             /\ cache' \in [Guards -> [Keys -> 0..solved']]
             /\ bound' \in [1..MaxSolutions -> Identities]
  BY <1>t, <1>s DEF Shrinks
<1>1. CASE Rests
  <2>1. UNCHANGED <<pc, run>>
    BY <1>1 DEF Rests
  <2>2. /\ pc' \in [Calls -> Steps] /\ run' \in [Calls -> Runs]
        /\ \A c \in Calls : pc'[c] \in {"wait", "solve"} => run'[c].job \in Guards \X Keys \X BOOLEAN
    BY <2>1 DEF TypeOK
  <2> QED
    BY <1>1, <1>s, <2>2 DEF Rests, TypeOK
<1>2. ASSUME NEW c \in Calls, Moves(c), pc' \in [Calls -> Steps], run' \in [Calls -> Runs]
      PROVE  TypeOK'
  <2>1. /\ UNCHANGED <<cache, solved, bound, closed>> /\ Others(c)
        /\ pc'[c] \notin {"wait", "solve"}
    BY <1>2 DEF Moves, shared
  <2> QED
    BY <1>2, <1>j, <1>t, <2>1 DEF TypeOK
<1>3. ASSUME NEW c \in Calls, NEW i \in MayHave[c], Prepare(c, i) PROVE TypeOK'
  <2>1. /\ pc' \in [Calls -> Steps] /\ run' \in [Calls -> Runs] /\ Others(c) /\ pc'[c] = "send"
        /\ UNCHANGED <<solved, bound, closed>> /\ Shrinks
    BY <1>3, PrepareIs, ShrinksIs DEF Prepare
  <2> QED
    BY <1>j, <1>s, <1>t, <2>1 DEF TypeOK
<1>4. ASSUME NEW c \in Calls, NEW g \in Guards, NEW k \in Asks[g], Accepted(c, g, k) PROVE TypeOK'
  <2>1. /\ pc' \in [Calls -> Steps] /\ run' \in [Calls -> Runs] /\ Others(c)
        /\ run'[c].job = <<g, k, closed>> /\ k \in Keys
        /\ UNCHANGED <<cache, solved, bound, closed>>
    BY <1>4, AcceptedIs DEF shared
  <2>2. run'[c].job \in Guards \X Keys \X BOOLEAN
    BY <1>t, <2>1
  <2> QED
    BY <1>j, <1>t, <2>1, <2>2 DEF TypeOK
<1>5. ASSUME NEW c \in Calls, ReuseSolution(c) PROVE TypeOK'
  <2>1. /\ UNCHANGED <<solved, bound, closed>> /\ Shrinks /\ pc[c] = "wait"
        /\ Kept(c)[Key(c)] \in Solutions /\ GoOnWith(c, Kept(c)[Key(c)], TRUE)
    BY <1>5, ReuseIs, ShrinksIs
  <2>2. /\ pc' \in [Calls -> Steps] /\ run' \in [Calls -> Runs] /\ Others(c)
        /\ pc'[c] \in {"prepare", "limit"}
    BY <2>1, JobIs, GoOnMoves
  <2> QED
    BY <1>j, <1>s, <1>t, <2>1, <2>2 DEF TypeOK
<1>6. ASSUME NEW c \in Calls, BeginSolve(c) PROVE TypeOK'
  <2>1. /\ UNCHANGED <<solved, bound, closed>> /\ Shrinks /\ pc[c] = "wait"
        /\ pc' \in [Calls -> Steps] /\ run' \in [Calls -> Runs] /\ Others(c)
        /\ run'[c] = run[c]
    BY <1>6, BeginIs, ShrinksIs
  <2>2. run'[c].job \in Guards \X Keys \X BOOLEAN
    BY <2>1 DEF TypeOK
  <2> QED
    BY <1>j, <1>s, <1>t, <2>1, <2>2 DEF TypeOK
<1>7. ASSUME NEW c \in Calls, NEW shareable \in BOOLEAN, Solved(c, shareable) PROVE TypeOK'
  <2>1. /\ pc[c] = "solve" /\ solved' = solved + 1 /\ solved' \in Nat /\ solved' <= MaxSolutions
        /\ bound' \in [1..MaxSolutions -> Identities] /\ closed' = closed
        /\ cache' = IF shareable THEN [cache EXCEPT ![Guard(c)][Key(c)] = solved'] ELSE cache
        /\ solved' \in Solutions /\ GoOnWith(c, solved', shareable)
    BY <1>7, SolvedIs
  <2>2. Guard(c) \in Guards /\ Key(c) \in Keys
    BY <2>1, JobIs
  <2>3. /\ pc' \in [Calls -> Steps] /\ run' \in [Calls -> Runs] /\ Others(c)
        /\ pc'[c] \in {"prepare", "limit"}
    BY <2>1, <2>2, GoOnMoves
  <2>4. cache' \in [Guards -> [Keys -> 0..solved']]
    <3>1. 0..solved \subseteq 0..solved' /\ solved' \in 0..solved'
      BY <1>t, <2>1
    <3>2. cache \in [Guards -> [Keys -> 0..solved']]
      BY <1>t, <3>1
    <3> QED
      BY <2>1, <2>2, <3>1, <3>2
  <2> QED
    BY <1>j, <1>t, <2>1, <2>3, <2>4 DEF TypeOK
<1> QED
  BY <1>1, <1>2, <1>3, <1>4, <1>5, <1>6, <1>7, NextIs

\* The initial states have the types.
LEMMA TypeInit == Init => TypeOK
<1> SUFFICES ASSUME Init PROVE TypeOK
  OBVIOUS
<1>1. MaxSolutions \in Nat /\ Identities # {}
  BY DEF GuardedAssumption
<1>2. solved \in Nat /\ solved <= MaxSolutions /\ solved = 0
  BY <1>1 DEF Init
<1>3. cache \in [Guards -> [Keys -> 0..solved]]
  BY <1>2 DEF Init
<1>4. bound \in [1..MaxSolutions -> Identities]
  BY <1>1 DEF Init
<1>5. closed \in BOOLEAN
  BY Zenon DEF Init
<1>6. pc \in [Calls -> Steps] /\ \A c \in Calls : pc[c] = "prepare"
  BY DEF Init, Steps
<1>7. run \in [Calls -> Runs]
  BY FreshIs DEF Init
<1> QED
  BY <1>2, <1>3, <1>4, <1>5, <1>6, <1>7 DEF TypeOK

\* Every value of the model has its type in every reachable state.
THEOREM TypeCorrect == Spec => []TypeOK
  BY TypeInit, TypeStep, PTL DEF Spec
------------------------------------------------------------------------------
(***************************************************************************)
(* Refused solutions, and their identities                                 *)
(***************************************************************************)

\* The solutions a call has were given out.
Given(c) ==
  /\ run[c].refused \subseteq 1..solved
  /\ \A g \in Guards : /\ run[c].local[g] \in 0..solved
                       /\ pc[c] = "send" => run[c].used[g] \in 0..solved

\* A shared solution that the call has, or carries, is the one it applied last.
KnownApplied(c) ==
  \A g \in Guards :
    /\ run[c].local[g] \in Cached(g) \ {0} => run[c].applied[g] = run[c].local[g]
    /\ pc[c] = "send" /\ run[c].used[g] \in Cached(g) \ {0} =>
         run[c].applied[g] = run[c].used[g]

\* Of what it was challenged with only the last is still there, until it has the lock.
RefusedLeft(c) ==
  \A g \in Guards : \A s \in run[c].refused \cap Cached(g) :
    pc[c] = "wait" /\ g = Guard(c) /\ s = run[c].applied[g]

\* It has, and carries, none of it, but until the challenge is solved.
NotReused(c) ==
  \A g \in Guards :
    /\ run[c].local[g] \in run[c].refused => pc[c] \in {"wait", "solve"} /\ g = Guard(c)
    /\ pc[c] = "send" => run[c].used[g] \notin run[c].refused

\* What it carries is bound to the identity of the attempt.
KeepsIdentity(c) ==
  pc[c] = "send" => \A g \in Guards :
    run[c].used[g] # 0 => bound[run[c].used[g]] = run[c].identity

CallOK(c) ==
  Given(c) /\ KnownApplied(c) /\ RefusedLeft(c) /\ NotReused(c) /\ KeepsIdentity(c)

\* A solution of a guard: shared, had or carried by a call.
Holds(g, s) ==
  /\ s # 0
  /\ \/ s \in Cached(g)
     \/ \E c \in Calls : run[c].local[g] = s
     \/ \E c \in Calls : pc[c] = "send" /\ run[c].used[g] = s

\* No solution is of two guards.
GuardsAreApart ==
  \A g \in Guards, h \in Guards, s \in 1..solved : Holds(g, s) /\ Holds(h, s) => g = h

\* A guard whose solutions are not shared has nothing in the cache.
UnsharedIsEmpty == \A g \in Guards, k \in Keys : Mode[g] # "shared" => cache[g][k] = 0

RefusedInv ==
  TypeOK /\ (\A c \in Calls : CallOK(c)) /\ GuardsAreApart /\ UnsharedIsEmpty

\* No step takes a solution back, puts an old one into the cache or binds it anew.
CacheKeeps ==
  /\ solved' \in Nat /\ solved <= solved'
  /\ \A s \in 1..solved : bound'[s] = bound[s]
  /\ \A g \in Guards, s \in 1..solved : s \in Cached(g)' => s \in Cached(g)

\* A cache that shrinks does none of it.
LEMMA ShrunkKeeps ==
  ASSUME TypeOK, Shrinks, UNCHANGED <<solved, bound>>
  PROVE  CacheKeeps
<1>1. ASSUME NEW g \in Guards, NEW s \in 1..solved, s \in Cached(g)' PROVE s \in Cached(g)
  <2>1. PICK k \in Keys : cache'[g][k] = s
    BY <1>1 DEF Cached
  <2>2. s # 0 /\ cache'[g][k] \in {0, cache[g][k]}
    BY DEF Shrinks
  <2> QED
    BY <2>1, <2>2 DEF Cached
<1>2. solved' \in Nat /\ solved <= solved'
  BY DEF TypeOK
<1> QED
  BY <1>1, <1>2 DEF CacheKeeps

\* A call that is not moved keeps what it has.
LEMMA CallFrame ==
  ASSUME TypeOK, CacheKeeps, NEW d \in Calls, CallOK(d), pc'[d] = pc[d], run'[d] = run[d]
  PROVE  CallOK(d)'
<1> DEFINE r == run[d]
<1>1. solved \in Nat /\ solved' \in Nat /\ solved <= solved'
  BY DEF TypeOK, CacheKeeps
<1>2. /\ r.refused \subseteq 1..solved
      /\ \A g \in Guards : r.local[g] \in 0..solved /\ (pc[d] = "send" => r.used[g] \in 0..solved)
  BY DEF CallOK, Given
<1>3. \A g \in Guards, s \in 1..solved : s \in Cached(g)' => s \in Cached(g)
  BY DEF CacheKeeps
<1>4. Given(d)'
  BY <1>1, <1>2 DEF Given
<1>5. KnownApplied(d)'
  <2> SUFFICES ASSUME NEW g \in Guards
               PROVE  /\ r.local[g] \in Cached(g)' \ {0} => r.applied[g] = r.local[g]
                      /\ pc[d] = "send" /\ r.used[g] \in Cached(g)' \ {0} =>
                           r.applied[g] = r.used[g]
    BY DEF KnownApplied
  <2>1. /\ r.local[g] # 0 => r.local[g] \in 1..solved
        /\ pc[d] = "send" /\ r.used[g] # 0 => r.used[g] \in 1..solved
    BY <1>1, <1>2
  <2>2. /\ r.local[g] \in Cached(g) \ {0} => r.applied[g] = r.local[g]
        /\ pc[d] = "send" /\ r.used[g] \in Cached(g) \ {0} => r.applied[g] = r.used[g]
    BY DEF CallOK, KnownApplied
  <2> QED
    BY <1>3, <2>1, <2>2
<1>6. RefusedLeft(d)'
  <2> SUFFICES ASSUME NEW g \in Guards, NEW s \in r.refused, s \in Cached(g)'
               PROVE  pc[d] = "wait" /\ g = Guard(d) /\ s = r.applied[g]
    BY DEF RefusedLeft, Guard
  <2>1. s \in Cached(g)
    BY <1>2, <1>3
  <2> QED
    BY <2>1 DEF CallOK, RefusedLeft
<1>7. NotReused(d)'
  BY DEF CallOK, NotReused, Guard
<1>8. KeepsIdentity(d)'
  <2> SUFFICES ASSUME pc[d] = "send", NEW g \in Guards, r.used[g] # 0
               PROVE  bound'[r.used[g]] = r.identity
    BY DEF KeepsIdentity
  <2>1. r.used[g] \in 1..solved
    BY <1>1, <1>2
  <2>2. bound[r.used[g]] = r.identity
    BY DEF CallOK, KeepsIdentity
  <2> QED
    BY <2>1, <2>2 DEF CacheKeeps
<1> QED
  BY <1>4, <1>5, <1>6, <1>7, <1>8 DEF CallOK

\* After a move a call has what it had, or nothing.
LEMMA CallMoves ==
  ASSUME TypeOK, NEW c \in Calls, CallOK(c), Moves(c)
  PROVE  CallOK(c)'
<1>1. /\ UNCHANGED <<cache, solved, bound>>
      /\ pc'[c] \notin {"send", "wait", "solve"}
  BY DEF Moves, shared
<1>2. \A g \in Guards : Cached(g)' = Cached(g)
  BY <1>1 DEF Cached
<1>3. CASE /\ pc[c] \in {"send", "refresh"}
           /\ run'[c].local = run[c].local /\ run'[c].applied = run[c].applied
           /\ run'[c].refused = run[c].refused
  <2>1. Given(c)'
    BY <1>1, <1>3 DEF CallOK, Given
  <2>2. KnownApplied(c)'
    BY <1>1, <1>2, <1>3 DEF CallOK, KnownApplied
  <2>3. RefusedLeft(c)'
    BY <1>1, <1>2, <1>3 DEF CallOK, RefusedLeft
  <2>4. NotReused(c)' /\ KeepsIdentity(c)'
    BY <1>1, <1>3 DEF CallOK, NotReused, KeepsIdentity
  <2> QED
    BY <2>1, <2>2, <2>3, <2>4 DEF CallOK
<1>4. CASE run'[c].local = None /\ run'[c].applied = None /\ run'[c].refused = {}
  <2>1. solved \in Nat /\ \A g \in Guards : None[g] = 0
    BY DEF TypeOK, None
  <2>2. Given(c)'
    BY <1>1, <1>4, <2>1 DEF Given
  <2>3. KnownApplied(c)' /\ RefusedLeft(c)'
    BY <1>1, <1>4, <2>1 DEF KnownApplied, RefusedLeft
  <2>4. NotReused(c)' /\ KeepsIdentity(c)'
    BY <1>1, <1>4 DEF NotReused, KeepsIdentity
  <2> QED
    BY <2>2, <2>3, <2>4 DEF CallOK
<1> QED
  BY <1>3, <1>4 DEF Moves

\* A prepared attempt carries nothing that was refused, under its own identity.
LEMMA CallPrepares ==
  ASSUME TypeOK, NEW c \in Calls, CallOK(c), NEW i \in MayHave[c], Prepare(c, i)
  PROVE  CallOK(c)'
<1> DEFINE r == run[c]
           n == run'[c]
<1>1. /\ pc[c] = "prepare" /\ pc'[c] = "send" /\ n.identity = i /\ n.refused = r.refused
      /\ UNCHANGED <<solved, bound>> /\ CacheKeeps /\ solved \in Nat
  <2>1. /\ pc[c] = "prepare" /\ UNCHANGED <<solved, bound>>
    BY DEF Prepare
  <2>2. pc'[c] = "send" /\ n.identity = i /\ n.refused = r.refused
    BY PrepareIs
  <2>3. Shrinks
    BY ShrinksIs
  <2>4. CacheKeeps
    BY <2>1, <2>3, ShrunkKeeps
  <2> QED
    BY <2>1, <2>2, <2>4 DEF TypeOK
<1>2. ASSUME NEW g \in Guards
      PROVE  /\ n.used[g] = Carried(c, g, i) /\ n.applied[g] = Applied(c, g, i)
             /\ n.local[g] \in {0, Own(c, g, i)}
             /\ Newest(g, i) \in 0..solved
             /\ Newest(g, i) # 0 => Newest(g, i) \in Cached(g) /\ bound[Newest(g, i)] = i
  BY PrepareIs DEF Cached
<1>3. ASSUME NEW g \in Guards
      PROVE  /\ r.local[g] \in 0..solved /\ r.local[g] \notin r.refused
             /\ (r.local[g] \in Cached(g) \ {0} => r.applied[g] = r.local[g])
             /\ \A s \in r.refused : s \in 1..solved /\ s \notin Cached(g)
             /\ Own(c, g, i) \in {0, r.local[g]}
             /\ Own(c, g, i) # 0 => bound[Own(c, g, i)] = i
  BY <1>1 DEF CallOK, Given, KnownApplied, NotReused, RefusedLeft, Own
<1>4. ASSUME NEW g \in Guards
      PROVE  \/ n.used[g] = Own(c, g, i) /\ Own(c, g, i) # 0
             \/ n.used[g] = Newest(g, i) /\ Newest(g, i) # 0 /\ Own(c, g, i) = 0
                /\ n.applied[g] = Newest(g, i)
             \/ n.used[g] = 0 /\ Own(c, g, i) = 0
  BY <1>2 DEF Carried, Applied
<1>5. ASSUME NEW g \in Guards, Own(c, g, i) # 0, Own(c, g, i) \in Cached(g)'
      PROVE  n.applied[g] = Own(c, g, i)
  <2>1. Own(c, g, i) = r.local[g] /\ r.local[g] \in 1..solved
    BY <1>1, <1>3, <1>5
  <2>2. r.local[g] \in Cached(g) \ {0}
    BY <1>1, <1>5, <2>1 DEF CacheKeeps
  <2>3. r.applied[g] = r.local[g]
    BY <1>3, <2>2
  <2>4. Carried(c, g, i) = Own(c, g, i)
    BY <1>5 DEF Carried
  <2> QED
    BY <1>2, <2>1, <2>3, <2>4 DEF Applied
<1> HIDE DEF r, n
<1>6. Given(c)'
  <2>1. \A g \in Guards : n.local[g] \in 0..solved /\ n.used[g] \in 0..solved
    BY <1>1, <1>2, <1>3, <1>4
  <2>2. n.refused \subseteq 1..solved
    BY <1>1 DEF CallOK, Given, r
  <2> QED
    BY <1>1, <2>1, <2>2 DEF Given, n
<1>7. KnownApplied(c)'
  <2>1. ASSUME NEW g \in Guards
        PROVE  /\ n.local[g] \in Cached(g)' \ {0} => n.applied[g] = n.local[g]
               /\ n.used[g] \in Cached(g)' \ {0} => n.applied[g] = n.used[g]
    BY <1>2, <1>4, <1>5
  <2> QED
    BY <2>1 DEF KnownApplied, n
<1>8. RefusedLeft(c)'
  <2>1. ASSUME NEW g \in Guards, NEW s \in n.refused PROVE s \notin Cached(g)'
    BY <1>1, <1>3 DEF CacheKeeps
  <2> QED
    BY <2>1 DEF RefusedLeft, n
<1>9. NotReused(c)'
  <2>1. ASSUME NEW g \in Guards PROVE n.local[g] \notin n.refused /\ n.used[g] \notin n.refused
    <3>1. 0 \notin n.refused
      BY <1>1, <1>3
    <3>2. Own(c, g, i) \notin n.refused
      BY <1>1, <1>3, <3>1
    <3>3. Newest(g, i) \notin n.refused
      BY <1>1, <1>2, <1>3, <3>1
    <3> QED
      BY <1>2, <1>4, <3>1, <3>2, <3>3
  <2> QED
    BY <2>1 DEF NotReused, n
<1>10. KeepsIdentity(c)'
  <2>1. ASSUME NEW g \in Guards, n.used[g] # 0 PROVE bound'[n.used[g]] = n.identity
    BY <1>1, <1>2, <1>3, <1>4, <2>1
  <2> QED
    BY <2>1 DEF KeepsIdentity, n
<1> QED
  BY <1>6, <1>7, <1>8, <1>9, <1>10 DEF CallOK

\* A challenge refuses what the attempt carried, and only that.
LEMMA CallAccepts ==
  ASSUME RefusedInv, NEW c \in Calls, NEW g \in Guards, NEW k \in Asks[g], Accepted(c, g, k)
  PROVE  CallOK(c)'
<1> DEFINE r == run[c]
           n == run'[c]
<1>t. TypeOK /\ CallOK(c) /\ GuardsAreApart /\ UnsharedIsEmpty
  BY DEF RefusedInv
<1>1. /\ pc[c] = "send" /\ UNCHANGED <<cache, solved>>
      /\ pc'[c] = IF Mode[g] = "shared" THEN "wait" ELSE "solve"
      /\ n.applied = r.applied
      /\ n.refused = r.refused \cup ({r.used[g]} \ {0})
      /\ \A h \in Guards \ {g} : n.local[h] = r.local[h]
      /\ n.local[g] = IF Mode[g] = "shared" THEN r.local[g] ELSE 0
  BY <1>t, AcceptedIs DEF shared
<1>2. Guard(c)' = g
  BY <1>t, AcceptedIs DEF Guard
<1>3. /\ solved \in Nat /\ r.refused \subseteq 1..solved
      /\ \A h \in Guards : r.local[h] \in 0..solved /\ r.used[h] \in 0..solved
      /\ \A h \in Guards : Cached(h)' = Cached(h)
  BY <1>t, <1>1 DEF CallOK, Given, TypeOK, Cached
<1>4. \A h \in Guards : /\ \A s \in r.refused : s \notin Cached(h)
                        /\ r.local[h] \notin r.refused
                        /\ r.local[h] \in Cached(h) \ {0} => r.applied[h] = r.local[h]
                        /\ r.used[h] \in Cached(h) \ {0} => r.applied[h] = r.used[h]
  <2>1. RefusedLeft(c) /\ NotReused(c) /\ KnownApplied(c)
    BY <1>t DEF CallOK
  <2>2. \A h \in Guards : \A s \in r.refused : s \notin Cached(h)
    BY <1>1, <2>1 DEF RefusedLeft
  <2>3. \A h \in Guards : r.local[h] \notin r.refused
    BY <1>1, <2>1 DEF NotReused
  <2> QED
    BY <1>1, <2>1, <2>2, <2>3 DEF KnownApplied
<1>5. ASSUME NEW h \in Guards, r.used[g] # 0,
             r.used[g] \in Cached(h) \/ r.local[h] = r.used[g]
      PROVE  h = g
  <2>1. Holds(g, r.used[g]) /\ Holds(h, r.used[g]) /\ r.used[g] \in 1..solved
    BY <1>1, <1>3, <1>5 DEF Holds
  <2> QED
    BY <1>t, <2>1 DEF GuardsAreApart
<1> HIDE DEF r, n
<1>6. Given(c)'
  <2>1. n.refused \subseteq 1..solved /\ \A h \in Guards : n.local[h] \in 0..solved
    BY <1>1, <1>3
  <2> QED
    BY <1>1, <2>1 DEF Given, n
<1>7. KnownApplied(c)'
  <2>1. ASSUME NEW h \in Guards, n.local[h] \in Cached(h)' \ {0}
        PROVE  n.applied[h] = n.local[h]
    <3>1. n.local[h] = r.local[h]
      BY <1>1, <2>1
    <3> QED
      BY <1>1, <1>3, <1>4, <2>1, <3>1
  <2> QED
    BY <1>1, <2>1 DEF KnownApplied, n
<1>8. RefusedLeft(c)'
  <2>1. ASSUME NEW h \in Guards, NEW s \in n.refused, s \in Cached(h)'
        PROVE  pc'[c] = "wait" /\ h = g /\ s = n.applied[h]
    <3>1. s = r.used[g] /\ s # 0 /\ s \in Cached(h)
      BY <1>1, <1>3, <1>4, <2>1
    <3>2. h = g
      BY <1>5, <3>1
    <3>3. Mode[g] = "shared"
      BY <1>t, <3>1, <3>2 DEF UnsharedIsEmpty, Cached
    <3> QED
      BY <1>1, <1>4, <3>1, <3>2, <3>3
  <2> QED
    BY <1>2, <2>1 DEF RefusedLeft, n
<1>9. NotReused(c)'
  <2>1. ASSUME NEW h \in Guards, n.local[h] \in n.refused PROVE h = g
    BY <1>1, <1>4, <1>5, <2>1
  <2> QED
    BY <1>1, <1>2, <2>1 DEF NotReused, n
<1>10. KeepsIdentity(c)'
  BY <1>1 DEF KeepsIdentity
<1> QED
  BY <1>6, <1>7, <1>8, <1>9, <1>10 DEF CallOK

\* A call that goes on with a solution that it was not challenged with has none of those
\* left, when the cache has none of them.
LEMMA CallGoesOn ==
  ASSUME TypeOK, CacheKeeps, NEW c \in Calls, CallOK(c), pc[c] \in {"wait", "solve"},
         NEW s \in Solutions, NEW isShared \in BOOLEAN, GoOnWith(c, s, isShared),
         s \in 0..solved', s \notin run[c].refused,
         NEW g \in Guards, g = Guard(c), s \in Cached(g)' => isShared,
         \A h \in Guards : run[c].refused \cap Cached(h)' = {}
  PROVE  CallOK(c)'
<1> DEFINE r == run[c]
           n == run'[c]
<1>1. g = Guard(c) /\ g \in Guards
  OBVIOUS
<1>2. /\ solved \in Nat /\ solved' \in Nat /\ solved <= solved'
      /\ r.refused \subseteq 1..solved /\ \A h \in Guards : r.local[h] \in 0..solved
      /\ r \in Runs
  BY DEF CacheKeeps, TypeOK, CallOK, Given
<1>3. /\ pc'[c] \in {"prepare", "limit"}
      /\ \/ /\ n.refused = r.refused
            /\ n.local = [r.local EXCEPT ![g] = s]
            /\ n.applied = IF isShared THEN [r.applied EXCEPT ![g] = s] ELSE r.applied
         \/ n.local = None /\ n.applied = None /\ n.refused = {}
  <2>1. Guard(c) \in Guards
    BY <1>1
  <2>2. pc'[c] \in {"prepare", "limit"} /\ Noted(c, s, isShared)
    BY <2>1, GoOnWithIs
  <2> QED
    BY <1>1, <2>2 DEF Noted
<1>4. KeepsIdentity(c)'
  BY <1>3 DEF KeepsIdentity
<1>5. CASE /\ n.refused = r.refused
           /\ n.local = [r.local EXCEPT ![g] = s]
           /\ n.applied = IF isShared THEN [r.applied EXCEPT ![g] = s] ELSE r.applied
  <2>1. /\ n.local[g] = s /\ (isShared => n.applied[g] = s)
        /\ \A h \in Guards \ {g} : n.local[h] = r.local[h] /\ n.applied[h] = r.applied[h]
    <3>1. r.local \in [Guards -> Solutions] /\ r.applied \in [Guards -> Solutions]
      BY <1>2 DEF Runs
    <3> HIDE DEF r, n
    <3> QED
      BY <1>5, <3>1
  <2>2. \A h \in Guards \ {g} : /\ r.local[h] \notin r.refused
                                /\ r.local[h] \in Cached(h)' \ {0} => r.applied[h] = r.local[h]
    <3>1. NotReused(c) /\ KnownApplied(c)
      BY DEF CallOK
    <3>2. \A h \in Guards : r.local[h] \in Cached(h)' \ {0} => r.local[h] \in Cached(h)
      BY <1>2 DEF CacheKeeps
    <3> QED
      BY <3>1, <3>2 DEF NotReused, KnownApplied
  <2>3. Given(c)'
    <3>1. n.refused \subseteq 1..solved' /\ \A h \in Guards : n.local[h] \in 0..solved'
      BY <1>2, <1>5, <2>1
    <3> QED
      BY <1>3, <3>1 DEF Given
  <2>4. KnownApplied(c)'
    <3>1. \A h \in Guards : n.local[h] \in Cached(h)' \ {0} => n.applied[h] = n.local[h]
      BY <2>1, <2>2
    <3> QED
      BY <1>3, <3>1 DEF KnownApplied
  <2>5. RefusedLeft(c)'
    BY <1>5 DEF RefusedLeft
  <2>6. NotReused(c)'
    <3>1. \A h \in Guards : n.local[h] \notin n.refused
      <4>1. s \notin n.refused /\ n.refused = r.refused
        BY <1>5
      <4> HIDE DEF r, n
      <4> QED
        BY <2>1, <2>2, <4>1
    <3> QED
      BY <1>3, <3>1 DEF NotReused
  <2> QED
    BY <1>4, <2>3, <2>4, <2>5, <2>6 DEF CallOK
<1>6. CASE n.local = None /\ n.applied = None /\ n.refused = {}
  <2>1. \A h \in Guards : None[h] = 0
    BY DEF None
  <2>2. Given(c)'
    BY <1>2, <1>3, <1>6, <2>1 DEF Given
  <2>3. KnownApplied(c)' /\ RefusedLeft(c)'
    BY <1>3, <1>6, <2>1 DEF KnownApplied, RefusedLeft
  <2>4. NotReused(c)'
    BY <1>3, <1>6 DEF NotReused
  <2> QED
    BY <1>4, <2>2, <2>3, <2>4 DEF CallOK
<1> QED
  BY <1>3, <1>5, <1>6

\* A call that has the lock has cleared from the cache what it was challenged with.
LEMMA KeptIsClear ==
  ASSUME TypeOK, NEW c \in Calls, CallOK(c), pc[c] = "wait", CacheKeeps,
         \/ cache' = [cache EXCEPT ![Guard(c)] = Kept(c)]
         \/ cache' = [cache EXCEPT ![Guard(c)] = [Kept(c) EXCEPT ![Key(c)] = 0]]
  PROVE  \A g \in Guards : run[c].refused \cap Cached(g)' = {}
<1> DEFINE new == cache'[Guard(c)]
<1>1. /\ Guard(c) \in Guards /\ Kept(c) \in [Keys -> 0..solved]
      /\ \A k \in Keys : Kept(c)[k] # 0 => Kept(c)[k] # run[c].applied[Guard(c)]
  BY JobIs, KeptIs
<1>2. new = Kept(c) \/ new = [Kept(c) EXCEPT ![Key(c)] = 0]
  BY <1>1 DEF TypeOK
<1>3. \A k \in Keys : new[k] # 0 => new[k] # run[c].applied[Guard(c)]
  <2> HIDE DEF new
  <2> QED
    BY <1>1, <1>2
<1>4. SUFFICES ASSUME NEW g \in Guards, NEW s \in run[c].refused, s \in Cached(g)'
               PROVE  FALSE
  OBVIOUS
<1>5. s \in 1..solved /\ s # 0
  BY <1>4 DEF CallOK, Given, TypeOK
<1>6. s \in Cached(g)
  BY <1>4, <1>5 DEF CacheKeeps
<1>7. g = Guard(c) /\ s = run[c].applied[g]
  BY <1>4, <1>6 DEF CallOK, RefusedLeft
<1>8. \E k \in Keys : new[k] = s
  BY <1>4, <1>7 DEF Cached
<1> QED
  BY <1>3, <1>5, <1>7, <1>8

\* A solution that another call has shared is not one it was challenged with.
LEMMA CallReuses ==
  ASSUME TypeOK, NEW c \in Calls, CallOK(c), ReuseSolution(c)
  PROVE  CallOK(c)' /\ CacheKeeps
<1> DEFINE s == Kept(c)[Key(c)]
<1>1. /\ pc[c] = "wait" /\ UNCHANGED <<solved, bound>>
      /\ cache' = [cache EXCEPT ![Guard(c)] = Kept(c)]
      /\ s \in Solutions /\ s # 0 /\ GoOnWith(c, s, TRUE)
  BY ReuseIs
<1>2. CacheKeeps
  BY <1>1, ShrinksIs, ShrunkKeeps
<1>3. \A g \in Guards : run[c].refused \cap Cached(g)' = {}
  BY <1>1, <1>2, KeptIsClear
<1>4. /\ s \in 0..solved' /\ Guard(c) \in Guards
      /\ \A g \in Guards : g = Guard(c) => s \in Cached(g)'
  <2>1. Guard(c) \in Guards /\ Key(c) \in Keys /\ Kept(c) \in [Keys -> 0..solved]
    BY <1>1, JobIs, KeptIs
  <2>2. cache'[Guard(c)] = Kept(c)
    BY <1>1, <2>1 DEF TypeOK
  <2>3. \E k \in Keys : s = cache'[Guard(c)][k]
    BY <2>1, <2>2
  <2>4. \A g \in Guards : g = Guard(c) => s \in Cached(g)'
    BY <2>3 DEF Cached
  <2>5. s \in 0..solved'
    BY <1>1, <2>1
  <2> QED
    BY <2>1, <2>4, <2>5
<1> HIDE DEF s
<1>5. s \notin run[c].refused
  BY <1>3, <1>4
<1> QED
  BY <1>1, <1>2, <1>3, <1>4, <1>5, CallGoesOn

\* Neither has it any left while it solves.
LEMMA CallBegins ==
  ASSUME TypeOK, NEW c \in Calls, CallOK(c), BeginSolve(c)
  PROVE  CallOK(c)' /\ CacheKeeps
<1> DEFINE r == run[c]
<1>1. /\ pc[c] = "wait" /\ pc'[c] = "solve" /\ UNCHANGED <<solved, bound>> /\ run'[c] = r
      /\ cache' = [cache EXCEPT ![Guard(c)] = [Kept(c) EXCEPT ![Key(c)] = 0]]
  BY BeginIs
<1>2. CacheKeeps
  BY <1>1, ShrinksIs, ShrunkKeeps
<1>3. \A g \in Guards : run[c].refused \cap Cached(g)' = {}
  BY <1>1, <1>2, KeptIsClear
<1>4. solved \in Nat /\ \A g \in Guards : r.local[g] \in 0..solved
  BY DEF TypeOK, CallOK, Given
<1>5. Given(c)'
  BY <1>1, <1>4 DEF CallOK, Given
<1>6. KnownApplied(c)'
  <2>1. \A g \in Guards : r.local[g] \in Cached(g)' \ {0} => r.local[g] \in Cached(g) \ {0}
    BY <1>2, <1>4 DEF CacheKeeps
  <2> QED
    BY <1>1, <2>1 DEF CallOK, KnownApplied
<1>7. RefusedLeft(c)'
  BY <1>1, <1>3 DEF RefusedLeft
<1>8. NotReused(c)'
  BY <1>1 DEF CallOK, NotReused, Guard
<1>9. KeepsIdentity(c)'
  BY <1>1 DEF KeepsIdentity
<1> QED
  BY <1>2, <1>5, <1>6, <1>7, <1>8, <1>9 DEF CallOK

\* A new solution is bound to the identity of its call, and is no one's yet.
LEMMA SolvedKeeps ==
  ASSUME TypeOK, NEW c \in Calls, NEW shareable \in BOOLEAN, Solved(c, shareable)
  PROVE  /\ CacheKeeps
         /\ \A g \in Guards : \A s \in Cached(g)' \ {0} :
              \/ s \in Cached(g)
              \/ s = solved + 1 /\ g = Guard(c) /\ shareable
<1>1. /\ pc[c] = "solve" /\ solved' = solved + 1 /\ solved' \in Nat /\ solved \in Nat
      /\ \A s \in 1..solved : bound'[s] = bound[s]
      /\ cache' = IF shareable THEN [cache EXCEPT ![Guard(c)][Key(c)] = solved'] ELSE cache
  BY SolvedIs DEF TypeOK
<1>2. Guard(c) \in Guards /\ Key(c) \in Keys /\ cache \in [Guards -> [Keys -> 0..solved]]
  BY <1>1, JobIs DEF TypeOK
<1>3. ASSUME NEW g \in Guards, NEW k \in Keys
      PROVE  \/ cache'[g][k] = cache[g][k]
             \/ cache'[g][k] = solved + 1 /\ g = Guard(c) /\ shareable
  BY <1>1, <1>2
<1>4. ASSUME NEW g \in Guards, NEW s \in Cached(g)' \ {0}
      PROVE  \/ s \in Cached(g)
             \/ s = solved + 1 /\ g = Guard(c) /\ shareable
  <2>1. PICK k \in Keys : cache'[g][k] = s
    BY <1>4 DEF Cached
  <2> QED
    BY <1>3, <2>1 DEF Cached
<1>5. CacheKeeps
  BY <1>1, <1>4 DEF CacheKeeps
<1> QED
  BY <1>4, <1>5

\* So the call that solved it has not been challenged with it.
LEMMA CallSolves ==
  ASSUME TypeOK, NEW c \in Calls, CallOK(c), NEW shareable \in BOOLEAN, Solved(c, shareable)
  PROVE  CallOK(c)'
<1>1. /\ pc[c] = "solve" /\ solved' = solved + 1 /\ solved' \in Solutions
      /\ solved \in Nat /\ GoOnWith(c, solved', shareable)
      /\ shareable \/ cache' = cache
  BY SolvedIs DEF TypeOK
<1>2. CacheKeeps /\ Guard(c) \in Guards
  BY <1>1, SolvedKeeps, JobIs
<1>3. run[c].refused \subseteq 1..solved /\ \A g \in Guards : run[c].refused \cap Cached(g) = {}
  BY <1>1 DEF CallOK, Given, RefusedLeft
<1>4. \A g \in Guards : run[c].refused \cap Cached(g)' = {}
  BY <1>2, <1>3 DEF CacheKeeps
<1>5. solved' \in 0..solved' /\ solved' \notin run[c].refused
  BY <1>1, <1>3
<1>6. \A g \in Guards : solved' \in Cached(g)' => shareable
  <2>1. \A g \in Guards : solved' \notin Cached(g)
    BY <1>1 DEF TypeOK, Cached
  <2>2. \A g \in Guards : cache' = cache => Cached(g)' = Cached(g)
    BY DEF Cached
  <2> QED
    BY <1>1, <2>1, <2>2
<1> QED
  BY <1>1, <1>2, <1>4, <1>5, <1>6, CallGoesOn
------------------------------------------------------------------------------
(***************************************************************************)
(* No solution is of two guards                                            *)
(***************************************************************************)

\* What is held after a step was held, or is new and of one guard.
Gained(G, g, s) == Holds(g, s) \/ (s = solved + 1 /\ g = G)

\* It is enough to look at the cache and at the call of the step.
LEMMA HoldsFrame ==
  ASSUME NEW G, NEW c \in Calls, Others(c),
         \A g \in Guards :
           /\ \A s \in Cached(g)' \ {0} : Gained(G, g, s)
           /\ run'[c].local[g] # 0 => Gained(G, g, run'[c].local[g])
           /\ pc'[c] = "send" /\ run'[c].used[g] # 0 => Gained(G, g, run'[c].used[g])
  PROVE  \A g \in Guards, s \in Nat : Holds(g, s)' => Gained(G, g, s)
<1> SUFFICES ASSUME NEW g \in Guards, NEW s \in Nat, Holds(g, s)' PROVE Gained(G, g, s)
  OBVIOUS
<1>1. /\ s # 0
      /\ \/ s \in Cached(g)'
         \/ \E d \in Calls : run'[d].local[g] = s
         \/ \E d \in Calls : pc'[d] = "send" /\ run'[d].used[g] = s
  BY DEF Holds
<1>2. CASE s \in Cached(g)'
  BY <1>1, <1>2
<1>3. ASSUME NEW d \in Calls, run'[d].local[g] = s PROVE Gained(G, g, s)
  <2>1. CASE d = c
    BY <1>1, <1>3, <2>1
  <2>2. CASE d # c
    <3>1. run[d].local[g] = s
      BY <1>3, <2>2 DEF Others
    <3> QED
      BY <1>1, <3>1 DEF Gained, Holds
  <2> QED
    BY <2>1, <2>2
<1>4. ASSUME NEW d \in Calls, pc'[d] = "send", run'[d].used[g] = s PROVE Gained(G, g, s)
  <2>1. CASE d = c
    BY <1>1, <1>4, <2>1
  <2>2. CASE d # c
    <3>1. pc[d] = "send" /\ run[d].used[g] = s
      BY <1>4, <2>2 DEF Others
    <3> QED
      BY <1>1, <3>1 DEF Gained, Holds
  <2> QED
    BY <2>1, <2>2
<1> QED
  BY <1>1, <1>2, <1>3, <1>4

\* When solutions only leave the cache, what it has was held.
LEMMA ShrunkHolds ==
  ASSUME TypeOK, Shrinks
  PROVE  \A G : \A g \in Guards : \A s \in Cached(g)' \ {0} : Gained(G, g, s)
<1> SUFFICES ASSUME NEW G, NEW g \in Guards, NEW s \in Cached(g)' \ {0} PROVE Gained(G, g, s)
  OBVIOUS
<1>1. PICK k \in Keys : cache'[g][k] = s
  BY DEF Cached
<1>2. s = cache[g][k]
  BY <1>1 DEF Shrinks
<1> QED
  BY <1>2 DEF Gained, Holds, Cached

\* Going on with a solution, a call gains that one only.
LEMMA GoOnHolds ==
  ASSUME TypeOK, NEW G, NEW c \in Calls, Guard(c) \in Guards, NEW s \in Solutions,
         NEW isShared \in BOOLEAN, GoOnWith(c, s, isShared), Gained(G, Guard(c), s)
  PROVE  \A g \in Guards :
           /\ run'[c].local[g] # 0 => Gained(G, g, run'[c].local[g])
           /\ pc'[c] # "send"
<1>1. /\ pc'[c] \in {"prepare", "limit"}
      /\ \/ run'[c].local = [run[c].local EXCEPT ![Guard(c)] = s]
         \/ run'[c].local = None
  <2>1. pc'[c] \in {"prepare", "limit"} /\ Noted(c, s, isShared)
    BY GoOnWithIs
  <2> QED
    BY <2>1 DEF Noted
<1>2. run[c].local \in [Guards -> Solutions]
  BY DEF TypeOK, Runs
<1>3. ASSUME NEW g \in Guards
      PROVE  run'[c].local[g] \in {0, run[c].local[g]} \/ (g = Guard(c) /\ run'[c].local[g] = s)
  BY <1>1, <1>2 DEF None
<1>4. \A g \in Guards : run[c].local[g] # 0 => Gained(G, g, run[c].local[g])
  BY DEF Gained, Holds
<1> QED
  BY <1>1, <1>3, <1>4

\* Every step gives a solution to one guard at most, and then a new one.
LEMMA HoldsStep ==
  ASSUME TypeOK, [Next]_vars
  PROVE  \E G : \A g \in Guards, s \in Nat : Holds(g, s)' => Gained(G, g, s)
<1>u. \A c \in Calls, g \in Guards :
        /\ run[c].local[g] # 0 => Gained(0, g, run[c].local[g])
        /\ pc[c] = "send" /\ run[c].used[g] # 0 => Gained(0, g, run[c].used[g])
  BY DEF Gained, Holds
<1>1. CASE Rests
  <2>1. \A g \in Guards : \A s \in Cached(g)' \ {0} : Gained(0, g, s)
    BY <1>1, ShrunkHolds DEF Rests
  <2>2. UNCHANGED <<pc, run>>
    BY <1>1 DEF Rests
  <2>3. ASSUME NEW g \in Guards, NEW s \in Nat, Holds(g, s)' PROVE Gained(0, g, s)
    <3>1. \/ s \in Cached(g)' \ {0}
          \/ s # 0 /\ \E c \in Calls : run[c].local[g] = s
          \/ s # 0 /\ \E c \in Calls : pc[c] = "send" /\ run[c].used[g] = s
      BY <2>2, <2>3 DEF Holds
    <3> QED
      BY <1>u, <2>1, <3>1
  <2> QED
    BY <2>3
<1>2. ASSUME NEW c \in Calls, Moves(c)
      PROVE  \A g \in Guards, s \in Nat : Holds(g, s)' => Gained(0, g, s)
  <2>1. /\ UNCHANGED cache /\ Others(c) /\ pc'[c] # "send"
        /\ \A g \in Guards : run'[c].local[g] \in {0, run[c].local[g]}
    BY <1>2 DEF Moves, shared, None
  <2>2. \A g \in Guards : \A s \in Cached(g)' \ {0} : Gained(0, g, s)
    BY <2>1, ShrinksIs, ShrunkHolds
  <2>3. \A g \in Guards : run'[c].local[g] # 0 => Gained(0, g, run'[c].local[g])
    BY <1>u, <2>1
  <2> QED
    BY <2>1, <2>2, <2>3, HoldsFrame
<1>3. ASSUME NEW c \in Calls, NEW i \in MayHave[c], Prepare(c, i)
      PROVE  \A g \in Guards, s \in Nat : Holds(g, s)' => Gained(0, g, s)
  <2>1. Others(c)
    BY <1>3, PrepareIs
  <2>2. \A g \in Guards : \A s \in Cached(g)' \ {0} : Gained(0, g, s)
    BY <1>3, ShrinksIs, ShrunkHolds
  <2>3. ASSUME NEW g \in Guards
        PROVE  /\ run'[c].local[g] \in {0, run[c].local[g]}
               /\ \/ run'[c].used[g] \in {0, run[c].local[g]}
                  \/ run'[c].used[g] \in Cached(g)
    <3>1. /\ run'[c].used[g] = Carried(c, g, i) /\ run'[c].local[g] \in {0, Own(c, g, i)}
          /\ Newest(g, i) # 0 => \E k \in Keys : cache[g][k] = Newest(g, i)
      BY <1>3, PrepareIs
    <3>2. Own(c, g, i) \in {0, run[c].local[g]}
      BY DEF Own
    <3>3. Newest(g, i) # 0 => Newest(g, i) \in Cached(g)
      BY <3>1 DEF Cached
    <3>4. Carried(c, g, i) \in {0, Own(c, g, i), Newest(g, i)}
      BY DEF Carried
    <3> QED
      BY <3>1, <3>2, <3>3, <3>4
  <2>4. \A g \in Guards : \A s \in Cached(g) : s # 0 => Gained(0, g, s)
    BY DEF Gained, Holds
  <2>5. \A g \in Guards :
          /\ run'[c].local[g] # 0 => Gained(0, g, run'[c].local[g])
          /\ run'[c].used[g] # 0 => Gained(0, g, run'[c].used[g])
    BY <1>u, <2>3, <2>4
  <2> QED
    BY <2>1, <2>2, <2>5, HoldsFrame
<1>4. ASSUME NEW c \in Calls, NEW h \in Guards, NEW k \in Asks[h], Accepted(c, h, k)
      PROVE  \A g \in Guards, s \in Nat : Holds(g, s)' => Gained(0, g, s)
  <2>1. /\ UNCHANGED cache /\ Others(c) /\ pc'[c] # "send"
        /\ \A g \in Guards : run'[c].local[g] \in {0, run[c].local[g]}
    BY <1>4, AcceptedIs DEF shared
  <2>2. \A g \in Guards : \A s \in Cached(g)' \ {0} : Gained(0, g, s)
    BY <2>1, ShrinksIs, ShrunkHolds
  <2>3. \A g \in Guards : run'[c].local[g] # 0 => Gained(0, g, run'[c].local[g])
    BY <1>u, <2>1
  <2> QED
    BY <2>1, <2>2, <2>3, HoldsFrame
<1>5. ASSUME NEW c \in Calls, ReuseSolution(c)
      PROVE  \A g \in Guards, s \in Nat : Holds(g, s)' => Gained(0, g, s)
  <2>1. /\ pc[c] = "wait" /\ Kept(c)[Key(c)] \in Solutions /\ Kept(c)[Key(c)] # 0
        /\ GoOnWith(c, Kept(c)[Key(c)], TRUE)
    BY <1>5, ReuseIs
  <2>2. Guard(c) \in Guards /\ Key(c) \in Keys
    BY <2>1, JobIs
  <2>3. Gained(0, Guard(c), Kept(c)[Key(c)])
    <3>1. Kept(c)[Key(c)] = cache[Guard(c)][Key(c)]
      BY <2>1, <2>2, KeptIs
    <3> QED
      BY <2>1, <2>2, <3>1 DEF Gained, Holds, Cached
  <2>4. \A g \in Guards : /\ run'[c].local[g] # 0 => Gained(0, g, run'[c].local[g])
                          /\ pc'[c] # "send"
    BY <2>1, <2>2, <2>3, GoOnHolds
  <2>5. \A g \in Guards : \A s \in Cached(g)' \ {0} : Gained(0, g, s)
    BY <1>5, ShrinksIs, ShrunkHolds
  <2>6. Others(c)
    BY <2>1, <2>2, GoOnMoves
  <2> QED
    BY <2>4, <2>5, <2>6, HoldsFrame
<1>6. ASSUME NEW c \in Calls, BeginSolve(c)
      PROVE  \A g \in Guards, s \in Nat : Holds(g, s)' => Gained(0, g, s)
  <2>1. Others(c) /\ pc'[c] = "solve" /\ run'[c] = run[c]
    BY <1>6, BeginIs
  <2>2. \A g \in Guards : \A s \in Cached(g)' \ {0} : Gained(0, g, s)
    BY <1>6, ShrinksIs, ShrunkHolds
  <2>3. \A g \in Guards : run'[c].local[g] # 0 => Gained(0, g, run'[c].local[g])
    BY <1>u, <2>1
  <2> QED
    BY <2>1, <2>2, <2>3, HoldsFrame
<1>7. ASSUME NEW c \in Calls, NEW shareable \in BOOLEAN, Solved(c, shareable)
      PROVE  \A g \in Guards, s \in Nat : Holds(g, s)' => Gained(Guard(c), g, s)
  <2>1. /\ pc[c] = "solve" /\ solved' = solved + 1 /\ solved' \in Solutions
        /\ GoOnWith(c, solved', shareable)
    BY <1>7, SolvedIs
  <2>2. Guard(c) \in Guards
    BY <2>1, JobIs
  <2>3. Gained(Guard(c), Guard(c), solved')
    BY <2>1 DEF Gained
  <2>4. \A g \in Guards : /\ run'[c].local[g] # 0 => Gained(Guard(c), g, run'[c].local[g])
                          /\ pc'[c] # "send"
    BY <2>1, <2>2, <2>3, GoOnHolds
  <2>5. \A g \in Guards : \A s \in Cached(g)' \ {0} : Gained(Guard(c), g, s)
    BY <1>7, SolvedKeeps DEF Gained, Holds
  <2>6. Others(c)
    BY <2>1, <2>2, GoOnMoves
  <2> QED
    BY <2>4, <2>5, <2>6, HoldsFrame
<1> QED
  BY <1>1, <1>2, <1>3, <1>4, <1>5, <1>6, <1>7, NextIs

\* Every step keeps the solutions of the guards apart.
LEMMA ApartStep ==
  ASSUME RefusedInv, [Next]_vars, CacheKeeps, solved' \in {solved, solved + 1}
  PROVE  GuardsAreApart'
<1> SUFFICES ASSUME NEW g \in Guards, NEW h \in Guards, NEW s \in 1..solved',
                    Holds(g, s)', Holds(h, s)'
             PROVE  g = h
  BY DEF GuardsAreApart
<1>t. TypeOK /\ solved \in Nat /\ s \in Nat /\ s # 0
  BY DEF RefusedInv, TypeOK
<1>1. PICK G : \A x \in Guards, y \in Nat : Holds(x, y)' => Gained(G, x, y)
  BY <1>t, HoldsStep
<1>2. Gained(G, g, s) /\ Gained(G, h, s)
  BY <1>t, <1>1
<1>3. \A x \in Guards : Holds(x, s) => s \in 1..solved
  <2>1. \A x \in Guards, c \in Calls : /\ run[c].local[x] \in 0..solved
                                       /\ pc[c] = "send" => run[c].used[x] \in 0..solved
    BY DEF RefusedInv, CallOK, Given
  <2>2. \A x \in Guards : \A y \in Cached(x) : y \in 0..solved
    BY <1>t DEF TypeOK, Cached
  <2> QED
    BY <1>t, <2>1, <2>2 DEF Holds
<1>4. CASE s \in 1..solved
  <2>1. Holds(g, s) /\ Holds(h, s)
    BY <1>t, <1>2, <1>4 DEF Gained
  <2> QED
    BY <1>4, <2>1 DEF RefusedInv, GuardsAreApart
<1>5. CASE s \notin 1..solved
  BY <1>2, <1>3, <1>5 DEF Gained
<1> QED
  BY <1>4, <1>5

\* Every step keeps the cache of the guards that do not share empty, and only adds new
\* solutions to the others.
LEMMA CacheStep ==
  ASSUME RefusedInv, [Next]_vars
  PROVE  CacheKeeps /\ solved' \in {solved, solved + 1} /\ UnsharedIsEmpty'
<1>t. TypeOK /\ UnsharedIsEmpty
  BY DEF RefusedInv
<1>1. ASSUME Shrinks, UNCHANGED <<solved, bound>>
      PROVE  CacheKeeps /\ solved' \in {solved, solved + 1} /\ UnsharedIsEmpty'
  BY <1>t, <1>1, ShrunkKeeps DEF Shrinks, UnsharedIsEmpty
<1>2. CASE Rests
  BY <1>1, <1>2 DEF Rests
<1>3. ASSUME NEW c \in Calls, Moves(c) PROVE Shrinks /\ UNCHANGED <<solved, bound>>
  BY <1>t, <1>3, ShrinksIs DEF Moves, shared
<1>4. ASSUME NEW c \in Calls, NEW i \in MayHave[c], Prepare(c, i)
      PROVE  Shrinks /\ UNCHANGED <<solved, bound>>
  <2>1. UNCHANGED <<solved, bound>>
    BY <1>4 DEF Prepare
  <2> QED
    BY <1>t, <1>4, <2>1, ShrinksIs
<1>5. ASSUME NEW c \in Calls, NEW g \in Guards, NEW k \in Asks[g], Accepted(c, g, k)
      PROVE  Shrinks /\ UNCHANGED <<solved, bound>>
  BY <1>t, <1>5, AcceptedIs, ShrinksIs DEF shared
<1>6. ASSUME NEW c \in Calls, ReuseSolution(c) \/ BeginSolve(c)
      PROVE  Shrinks /\ UNCHANGED <<solved, bound>>
  <2>1. UNCHANGED <<solved, bound>>
    BY <1>6 DEF ReuseSolution, BeginSolve
  <2> QED
    BY <1>t, <1>6, <2>1, ShrinksIs
<1>7. ASSUME NEW c \in Calls, NEW shareable \in BOOLEAN, Solved(c, shareable)
      PROVE  CacheKeeps /\ solved' \in {solved, solved + 1} /\ UnsharedIsEmpty'
  <2>1. /\ pc[c] = "solve" /\ solved' = solved + 1 /\ CacheKeeps
        /\ shareable => Mode[Guard(c)] = "shared"
        /\ cache' = IF shareable THEN [cache EXCEPT ![Guard(c)][Key(c)] = solved'] ELSE cache
    BY <1>t, <1>7, SolvedIs, SolvedKeeps
  <2>2. cache \in [Guards -> [Keys -> 0..solved]] /\ Guard(c) \in Guards /\ Key(c) \in Keys
    BY <1>t, <2>1, JobIs DEF TypeOK
  <2>3. ASSUME NEW g \in Guards, NEW k \in Keys, Mode[g] # "shared" PROVE cache'[g][k] = 0
    <3>1. cache[g][k] = 0
      BY <1>t, <2>3 DEF UnsharedIsEmpty
    <3>2. cache'[g] = cache[g]
      BY <2>1, <2>2, <2>3
    <3> QED
      BY <3>1, <3>2
  <2> QED
    BY <2>1, <2>3 DEF UnsharedIsEmpty
<1> QED
  BY <1>t, <1>1, <1>2, <1>3, <1>4, <1>5, <1>6, <1>7, NextIs

\* Every step keeps what has been refused away from the calls.
LEMMA RefusedStep == RefusedInv /\ [Next]_vars => RefusedInv'
<1> SUFFICES ASSUME RefusedInv, [Next]_vars PROVE RefusedInv'
  OBVIOUS
<1>t. TypeOK /\ \A c \in Calls : CallOK(c)
  BY DEF RefusedInv
<1>k. CacheKeeps /\ UnsharedIsEmpty' /\ GuardsAreApart' /\ TypeOK'
  BY <1>t, CacheStep, ApartStep, TypeStep
<1>o. ASSUME NEW c \in Calls, Others(c), CallOK(c)' PROVE \A d \in Calls : CallOK(d)'
  <2> SUFFICES ASSUME NEW d \in Calls, d # c PROVE CallOK(d)'
    BY <1>o
  <2>1. pc'[d] = pc[d] /\ run'[d] = run[d]
    BY <1>o DEF Others
  <2> QED
    BY <1>t, <1>k, <2>1, CallFrame
<1> DEFINE AllOK == \A d \in Calls : CallOK(d)'
<1>1. ASSUME Rests PROVE AllOK
  <2>1. \A d \in Calls : pc'[d] = pc[d] /\ run'[d] = run[d]
    BY <1>1 DEF Rests
  <2> QED
    BY <1>t, <1>k, <2>1, CallFrame
<1>2. ASSUME NEW c \in Calls, Moves(c) PROVE AllOK
  <2>1. Others(c) /\ CallOK(c)'
    BY <1>t, <1>2, CallMoves DEF Moves
  <2> QED
    BY <1>o, <2>1
<1>3. ASSUME NEW c \in Calls, NEW i \in MayHave[c], Prepare(c, i) PROVE AllOK
  <2>1. Others(c) /\ CallOK(c)'
    BY <1>t, <1>3, PrepareIs, CallPrepares
  <2> QED
    BY <1>o, <2>1
<1>4. ASSUME NEW c \in Calls, NEW g \in Guards, NEW k \in Asks[g], Accepted(c, g, k) PROVE AllOK
  <2>1. Others(c) /\ CallOK(c)'
    BY <1>t, <1>4, AcceptedIs, CallAccepts
  <2> QED
    BY <1>o, <2>1
<1>5. ASSUME NEW c \in Calls, ReuseSolution(c) PROVE AllOK
  <2>1. pc[c] = "wait" /\ Kept(c)[Key(c)] \in Solutions /\ GoOnWith(c, Kept(c)[Key(c)], TRUE)
    BY <1>t, <1>5, ReuseIs
  <2>2. Others(c)
    BY <1>t, <2>1, JobIs, GoOnMoves
  <2>3. CallOK(c)'
    BY <1>t, <1>5, CallReuses
  <2> QED
    BY <1>o, <2>2, <2>3
<1>6. ASSUME NEW c \in Calls, BeginSolve(c) PROVE AllOK
  <2>1. Others(c) /\ CallOK(c)'
    BY <1>t, <1>6, BeginIs, CallBegins
  <2> QED
    BY <1>o, <2>1
<1>7. ASSUME NEW c \in Calls, NEW shareable \in BOOLEAN, Solved(c, shareable) PROVE AllOK
  <2>1. pc[c] = "solve" /\ solved' \in Solutions /\ GoOnWith(c, solved', shareable)
    BY <1>t, <1>7, SolvedIs
  <2>2. Others(c)
    BY <1>t, <2>1, JobIs, GoOnMoves
  <2>3. CallOK(c)'
    BY <1>t, <1>7, CallSolves
  <2> QED
    BY <1>o, <2>2, <2>3
<1> HIDE DEF AllOK
<1>8. AllOK
  BY <1>t, <1>1, <1>2, <1>3, <1>4, <1>5, <1>6, <1>7, NextIs
<1> QED
  BY <1>k, <1>8 DEF RefusedInv, AllOK

\* In the beginning there are no solutions.
LEMMA RefusedInit == Init => RefusedInv
<1> SUFFICES ASSUME Init PROVE RefusedInv
  OBVIOUS
<1>1. /\ TypeOK /\ solved = 0
      /\ \A c \in Calls : /\ pc[c] = "prepare" /\ run[c].local = None
                          /\ run[c].refused = {}
      /\ \A g \in Guards, k \in Keys : cache[g][k] = 0
  BY TypeInit, FreshIs DEF Init
<1>2. \A g \in Guards : None[g] = 0
  BY DEF None
<1>3. ASSUME NEW c \in Calls PROVE CallOK(c)
  <2>1. Given(c)
    BY <1>1, <1>2 DEF Given
  <2>2. KnownApplied(c) /\ RefusedLeft(c)
    BY <1>1, <1>2 DEF KnownApplied, RefusedLeft
  <2>3. NotReused(c) /\ KeepsIdentity(c)
    BY <1>1 DEF NotReused, KeepsIdentity
  <2> QED
    BY <2>1, <2>2, <2>3 DEF CallOK
<1>4. GuardsAreApart /\ UnsharedIsEmpty
  BY <1>1 DEF GuardsAreApart, UnsharedIsEmpty
<1> QED
  BY <1>1, <1>3, <1>4 DEF RefusedInv

\* The inductive invariant holds in every reachable state.
LEMMA RefusedHolds == Spec => []RefusedInv
  BY RefusedInit, RefusedStep, PTL DEF Spec

\* A solution the server has refused is gone: the replay does not carry it again, and no
\* other call finds it in the cache, under whatever key.
THEOREM RefusedIsNotReused == Spec => []RefusedIsGone
<1>1. RefusedInv => RefusedIsGone
  <2> SUFFICES ASSUME RefusedInv, NEW c \in Calls, NEW g \in Guards
               PROVE  /\ pc[c] = "send" => run[c].used[g] \notin run[c].refused
                      /\ pc[c] # "wait" => run[c].refused \cap Cached(g) = {}
    BY DEF RefusedIsGone
  <2>1. NotReused(c) /\ RefusedLeft(c)
    BY DEF RefusedInv, CallOK
  <2> QED
    BY <2>1 DEF NotReused, RefusedLeft
<1> QED
  BY <1>1, RefusedHolds, PTL

\* A solution is only sent under the transport identity it was acquired under, though the
\* identity of a call may change between two attempts and other calls have others.
THEOREM SolutionsAreBound == Spec => []SolutionsKeepIdentity
<1>1. RefusedInv => SolutionsKeepIdentity
  BY DEF RefusedInv, CallOK, KeepsIdentity, SolutionsKeepIdentity
<1> QED
  BY <1>1, RefusedHolds, PTL
------------------------------------------------------------------------------
(***************************************************************************)
(* One solver per key                                                      *)
(***************************************************************************)

\* While the client is open, every lock entry is one of the open client.
JobsAreOpen ==
  \A c \in Calls : pc[c] \in {"wait", "solve"} /\ run[c].job[3] => closed

SolverInv == TypeOK /\ OneSolver /\ JobsAreOpen

\* A challenge that a call solves for all calls, in an open client.
SolvesForAll(c) == pc[c] = "solve" /\ Mode[Guard(c)] = "shared" /\ ~closed

\* A step after which no call solves that did not before keeps one solver per key.
LEMMA NobodyBegins ==
  ASSUME SolverInv, Shrinks, closed => closed',
         \A c \in Calls : pc'[c] = "solve" => pc[c] = "solve" /\ run'[c].job = run[c].job
  PROVE  OneSolver'
<1> SUFFICES ASSUME NEW c \in Calls, SolvesForAll(c)'
             PROVE  /\ cache'[Guard(c)'][Key(c)'] = 0
                    /\ \A d \in Calls \ {c} : pc'[d] = "solve" => run'[d].job # run'[c].job
  BY DEF OneSolver, SolvesForAll
<1>1. pc[c] = "solve" /\ run'[c].job = run[c].job /\ Guard(c)' = Guard(c) /\ Key(c)' = Key(c)
  BY DEF SolvesForAll, Guard, Key
<1>2. SolvesForAll(c)
  BY <1>1 DEF SolvesForAll
<1>3. /\ cache[Guard(c)][Key(c)] = 0
      /\ \A d \in Calls \ {c} : pc[d] = "solve" => run[d].job # run[c].job
  BY <1>2 DEF SolverInv, OneSolver, SolvesForAll
<1>4. cache'[Guard(c)][Key(c)] = 0
  <2>1. Guard(c) \in Guards /\ Key(c) \in Keys
    BY <1>1, JobIs DEF SolverInv
  <2> QED
    BY <1>3, <2>1 DEF Shrinks
<1> QED
  BY <1>1, <1>3, <1>4

\* A call that begins to solve under the lock is the only one of its key.
LEMMA BeginsAlone ==
  ASSUME SolverInv, NEW c \in Calls, BeginSolve(c)
  PROVE  OneSolver'
<1>1. /\ pc[c] = "wait" /\ LockFree(c) /\ UNCHANGED closed /\ Others(c) /\ run'[c] = run[c]
      /\ cache' = [cache EXCEPT ![Guard(c)] = [Kept(c) EXCEPT ![Key(c)] = 0]]
      /\ [Kept(c) EXCEPT ![Key(c)] = 0] \in [Keys -> 0..solved]
      /\ Kept(c) \in [Keys -> 0..solved]
      /\ Shrinks /\ cache \in [Guards -> [Keys -> 0..solved]]
  BY BeginIs, ShrinksIs, KeptIs DEF SolverInv, TypeOK
<1>2. \A d \in Calls : Guard(d)' = Guard(d) /\ Key(d)' = Key(d) /\ run'[d].job = run[d].job
  BY <1>1 DEF Others, Guard, Key
<1>3. \A d \in Calls \ {c} : pc'[d] = pc[d]
  BY <1>1 DEF Others
<1>4. Guard(c) \in Guards /\ Key(c) \in Keys
  BY <1>1, JobIs DEF SolverInv
<1>5. cache'[Guard(c)][Key(c)] = 0
  <2>1. cache'[Guard(c)] = [Kept(c) EXCEPT ![Key(c)] = 0]
    BY <1>1, <1>4
  <2> QED
    BY <1>1, <1>4, <2>1
<1>6. \A d \in Calls : pc[d] = "solve" => run[d].job # run[c].job
  BY <1>1 DEF LockFree
<1> SUFFICES ASSUME NEW d \in Calls, SolvesForAll(d)'
             PROVE  /\ cache'[Guard(d)'][Key(d)'] = 0
                    /\ \A e \in Calls \ {d} : pc'[e] = "solve" => run'[e].job # run'[d].job
  BY DEF OneSolver, SolvesForAll
<1>7. CASE d = c
  BY <1>2, <1>3, <1>5, <1>6, <1>7
<1>8. CASE d # c
  <2>1. SolvesForAll(d) /\ pc[d] = "solve"
    BY <1>1, <1>2, <1>3, <1>8 DEF SolvesForAll
  <2>2. /\ cache[Guard(d)][Key(d)] = 0
        /\ \A e \in Calls \ {d} : pc[e] = "solve" => run[e].job # run[d].job
    BY <2>1 DEF SolverInv, OneSolver, SolvesForAll
  <2>3. Guard(d) \in Guards /\ Key(d) \in Keys
    BY <2>1, JobIs DEF SolverInv
  <2>4. cache'[Guard(d)][Key(d)] = 0
    BY <1>1, <2>2, <2>3 DEF Shrinks
  <2>5. ASSUME NEW e \in Calls \ {d}, pc'[e] = "solve" PROVE run'[e].job # run'[d].job
    <3>1. CASE e = c
      BY <1>2, <1>6, <2>1, <3>1
    <3>2. CASE e # c
      BY <1>2, <1>3, <2>2, <2>5, <3>2
    <3> QED
      BY <3>1, <3>2
  <2> QED
    BY <1>2, <2>4, <2>5
<1> QED
  BY <1>7, <1>8

\* A call that is challenged solves at once only for itself.
LEMMA ChallengedAlone ==
  ASSUME SolverInv, NEW c \in Calls, NEW g \in Guards, NEW k \in Asks[g], Accepted(c, g, k)
  PROVE  OneSolver'
<1>1. /\ UNCHANGED <<cache, closed>> /\ Others(c) /\ run'[c].job = <<g, k, closed>>
      /\ pc'[c] = IF Mode[g] = "shared" THEN "wait" ELSE "solve"
  BY AcceptedIs DEF SolverInv, shared
<1>2. Guard(c)' = g
  BY <1>1 DEF Guard
<1>3. \A d \in Calls \ {c} : /\ pc'[d] = pc[d] /\ run'[d].job = run[d].job
                             /\ Guard(d)' = Guard(d) /\ Key(d)' = Key(d)
  BY <1>1 DEF Others, Guard, Key
<1> SUFFICES ASSUME NEW d \in Calls, SolvesForAll(d)'
             PROVE  /\ cache'[Guard(d)'][Key(d)'] = 0
                    /\ \A e \in Calls \ {d} : pc'[e] = "solve" => run'[e].job # run'[d].job
  BY DEF OneSolver, SolvesForAll
<1>4. d # c
  BY <1>1, <1>2 DEF SolvesForAll
<1>5. SolvesForAll(d) /\ pc[d] = "solve" /\ Mode[Guard(d)] = "shared"
  BY <1>1, <1>3, <1>4 DEF SolvesForAll
<1>6. /\ cache[Guard(d)][Key(d)] = 0
      /\ \A e \in Calls \ {d} : pc[e] = "solve" => run[e].job # run[d].job
  BY <1>5 DEF SolverInv, OneSolver, SolvesForAll
<1>7. ASSUME NEW e \in Calls \ {d}, pc'[e] = "solve" PROVE run'[e].job # run'[d].job
  <2>1. CASE e = c
    <3>1. Mode[g] # "shared" /\ run'[e].job[1] = g
      BY <1>1, <1>7, <2>1
    <3>2. run'[d].job[1] = Guard(d)
      BY <1>3, <1>4 DEF Guard
    <3> QED
      BY <1>5, <3>1, <3>2
  <2>2. CASE e # c
    BY <1>3, <1>4, <1>6, <1>7, <2>2
  <2> QED
    BY <2>1, <2>2
<1> QED
  BY <1>1, <1>3, <1>4, <1>6, <1>7

\* A call shares its solution under a key that no other call solves.
LEMMA SharesAlone ==
  ASSUME SolverInv, NEW c \in Calls, NEW shareable \in BOOLEAN, Solved(c, shareable)
  PROVE  OneSolver'
<1>1. /\ pc[c] = "solve" /\ UNCHANGED closed /\ solved' \in Solutions
      /\ cache' = IF shareable THEN [cache EXCEPT ![Guard(c)][Key(c)] = solved'] ELSE cache
      /\ shareable => Mode[Guard(c)] = "shared"
      /\ GoOnWith(c, solved', shareable)
  BY SolvedIs DEF SolverInv
<1>2. Guard(c) \in Guards /\ Key(c) \in Keys /\ cache \in [Guards -> [Keys -> 0..solved]]
  BY <1>1, JobIs DEF SolverInv, TypeOK
<1>3. Others(c) /\ pc'[c] # "solve"
  <2>1. TypeOK
    BY DEF SolverInv
  <2> QED
    BY <1>1, <1>2, <2>1, GoOnMoves
<1>4. \A d \in Calls \ {c} : /\ pc'[d] = pc[d] /\ run'[d].job = run[d].job
                             /\ Guard(d)' = Guard(d) /\ Key(d)' = Key(d)
  BY <1>3 DEF Others, Guard, Key
<1> SUFFICES ASSUME NEW d \in Calls, SolvesForAll(d)'
             PROVE  /\ cache'[Guard(d)'][Key(d)'] = 0
                    /\ \A e \in Calls \ {d} : pc'[e] = "solve" => run'[e].job # run'[d].job
  BY DEF OneSolver, SolvesForAll
<1>5. d # c
  BY <1>3 DEF SolvesForAll
<1>6. SolvesForAll(d) /\ pc[d] = "solve" /\ ~closed
  BY <1>1, <1>4, <1>5 DEF SolvesForAll
<1>7. /\ cache[Guard(d)][Key(d)] = 0
      /\ \A e \in Calls \ {d} : pc[e] = "solve" => run[e].job # run[d].job
  BY <1>6 DEF SolverInv, OneSolver, SolvesForAll
<1>8. Guard(d) \in Guards /\ Key(d) \in Keys
  BY <1>6, JobIs DEF SolverInv
<1>9. ~(Guard(d) = Guard(c) /\ Key(d) = Key(c))
  <2>1. ~run[d].job[3] /\ ~run[c].job[3]
    BY <1>1, <1>6 DEF SolverInv, JobsAreOpen
  <2>2. /\ run[d].job = <<Guard(d), Key(d), run[d].job[3]>>
        /\ run[c].job = <<Guard(c), Key(c), run[c].job[3]>>
        /\ run[d].job[3] \in BOOLEAN /\ run[c].job[3] \in BOOLEAN
    BY <1>1, <1>6, JobIs DEF SolverInv
  <2>3. run[d].job[3] = run[c].job[3]
    BY <2>1, <2>2, Zenon
  <2> QED
    BY <1>1, <1>5, <1>7, <2>2, <2>3
<1>10. cache'[Guard(d)][Key(d)] = 0
  BY <1>1, <1>2, <1>7, <1>8, <1>9
<1> QED
  BY <1>3, <1>4, <1>5, <1>7, <1>10

\* Every step keeps one solver per key.
LEMMA SolverStep == SolverInv /\ [Next]_vars => SolverInv'
<1> SUFFICES ASSUME SolverInv, [Next]_vars PROVE SolverInv'
  OBVIOUS
<1>t. TypeOK /\ JobsAreOpen /\ TypeOK'
  BY TypeStep DEF SolverInv
<1>q. ASSUME Shrinks, closed => closed',
             \A c \in Calls : pc'[c] \in {"wait", "solve"} =>
               pc'[c] = pc[c] /\ run'[c].job = run[c].job
      PROVE  OneSolver' /\ JobsAreOpen'
  <2>1. OneSolver'
    BY <1>q, NobodyBegins
  <2> QED
    BY <1>t, <1>q, <2>1 DEF JobsAreOpen
<1>1. ASSUME Rests PROVE OneSolver' /\ JobsAreOpen'
  BY <1>1, <1>q DEF Rests
<1>2. ASSUME NEW c \in Calls, Moves(c) PROVE OneSolver' /\ JobsAreOpen'
  <2>1. UNCHANGED <<cache, closed>> /\ Others(c) /\ pc'[c] \notin {"wait", "solve"}
    BY <1>2 DEF Moves, shared
  <2>2. Shrinks
    BY <1>t, <2>1, ShrinksIs
  <2> QED
    BY <1>q, <2>1, <2>2 DEF Others
<1>3. ASSUME NEW c \in Calls, NEW i \in MayHave[c], Prepare(c, i)
      PROVE  OneSolver' /\ JobsAreOpen'
  <2>1. UNCHANGED closed
    BY <1>3 DEF Prepare
  <2>2. Shrinks /\ Others(c) /\ pc'[c] = "send"
    BY <1>t, <1>3, ShrinksIs, PrepareIs
  <2> QED
    BY <1>q, <2>1, <2>2 DEF Others
<1>4. ASSUME NEW c \in Calls, NEW g \in Guards, NEW k \in Asks[g], Accepted(c, g, k)
      PROVE  OneSolver' /\ JobsAreOpen'
  <2>1. OneSolver'
    BY <1>4, ChallengedAlone
  <2>2. Others(c) /\ run'[c].job[3] = closed /\ closed' = closed
    BY <1>t, <1>4, AcceptedIs DEF shared
  <2>3. JobsAreOpen'
    BY <1>t, <2>2 DEF JobsAreOpen, Others
  <2> QED
    BY <2>1, <2>3
<1>5. ASSUME NEW c \in Calls, ReuseSolution(c) PROVE OneSolver' /\ JobsAreOpen'
  <2>1. /\ pc[c] = "wait" /\ closed' = closed /\ Shrinks
        /\ Kept(c)[Key(c)] \in Solutions /\ GoOnWith(c, Kept(c)[Key(c)], TRUE)
    BY <1>t, <1>5, ReuseIs, ShrinksIs
  <2>2. Others(c) /\ pc'[c] \in {"prepare", "limit"}
    BY <1>t, <2>1, JobIs, GoOnMoves
  <2> QED
    BY <1>q, <2>1, <2>2 DEF Others
<1>6. ASSUME NEW c \in Calls, BeginSolve(c) PROVE OneSolver' /\ JobsAreOpen'
  <2>1. OneSolver'
    BY <1>6, BeginsAlone
  <2>2. pc[c] = "wait" /\ Others(c) /\ run'[c] = run[c] /\ closed' = closed
    BY <1>t, <1>6, BeginIs
  <2>3. JobsAreOpen'
    BY <1>t, <2>2 DEF JobsAreOpen, Others
  <2> QED
    BY <2>1, <2>3
<1>7. ASSUME NEW c \in Calls, NEW shareable \in BOOLEAN, Solved(c, shareable)
      PROVE  OneSolver' /\ JobsAreOpen'
  <2>1. OneSolver'
    BY <1>7, SharesAlone
  <2>2. /\ pc[c] = "solve" /\ solved' \in Solutions /\ closed' = closed
        /\ GoOnWith(c, solved', shareable)
    BY <1>t, <1>7, SolvedIs
  <2>3. Others(c) /\ pc'[c] \in {"prepare", "limit"}
    BY <1>t, <2>2, JobIs, GoOnMoves
  <2>4. JobsAreOpen'
    BY <1>t, <2>2, <2>3 DEF JobsAreOpen, Others
  <2> QED
    BY <2>1, <2>4
<1>8. OneSolver' /\ JobsAreOpen'
  BY <1>t, <1>1, <1>2, <1>3, <1>4, <1>5, <1>6, <1>7, NextIs
<1> QED
  BY <1>t, <1>8 DEF SolverInv

\* Calls that are challenged at once wait for one solution: while the client is open, one
\* call solves a key of a guard that shares, and only while the cache has nothing for it.
THEOREM OneCallSolves == Spec => []OneSolver
<1>1. Init => SolverInv
  <2>1. Init => OneSolver /\ JobsAreOpen
    BY DEF Init, OneSolver, JobsAreOpen
  <2> QED
    BY <2>1, TypeInit DEF SolverInv
<1>2. SolverInv => OneSolver
  BY DEF SolverInv
<1> QED
  BY <1>1, <1>2, SolverStep, PTL DEF Spec
------------------------------------------------------------------------------
(***************************************************************************)
(* The hard limit of a call.  Sums are folds: what they come to is found   *)
(* by counting the units of the budgets, which add up in the same way.     *)
(***************************************************************************)
HIDE GuardedAssumption

\* The units of some budgets, each with its budget's name.
Units(counts, names) == UNION {{n} \X (1..counts[n]) : n \in names}

\* A budget has as many units as it counts.
LEMMA UnitsIs ==
  ASSUME NEW D, IsFiniteSet(D), NEW counts \in [D -> Nat], NEW T \in SUBSET D
  PROVE  /\ IsFiniteSet(Units(counts, T))
         /\ Cardinality(Units(counts, T)) \in Nat
         /\ T = {} => Cardinality(Units(counts, T)) = 0
         /\ \A x \in T : Cardinality(Units(counts, T)) =
                           counts[x] + Cardinality(Units(counts, T \ {x}))
<1>1. ASSUME NEW U \in SUBSET D PROVE IsFiniteSet(Units(counts, U))
  <2> DEFINE F == {{n} \X (1..counts[n]) : n \in U}
             f == [n \in U |-> {n} \X (1..counts[n])]
  <2>1. IsFiniteSet(U)
    BY FS_Subset
  <2>2. f \in Surjection(U, F)
    BY DEF Surjection
  <2>3. IsFiniteSet(F)
    BY <2>1, <2>2, FS_Surjection
  <2>4. \A X \in F : IsFiniteSet(X)
    <3>1. ASSUME NEW n \in U PROVE IsFiniteSet({n} \X (1..counts[n]))
      <4>1. IsFiniteSet({n})
        BY FS_Singleton
      <4>2. counts[n] \in Int
        OBVIOUS
      <4>3. IsFiniteSet(1..counts[n])
        BY <4>2, FS_Interval
      <4> QED
        BY <4>1, <4>3, FS_Product
    <3> QED
      BY <3>1
  <2> QED
    BY <2>3, <2>4, FS_UNION DEF Units
<1>2. Cardinality(Units(counts, T)) \in Nat
  BY <1>1, FS_CardinalityType
<1>3. T = {} => Cardinality(Units(counts, T)) = 0
  BY FS_EmptySet DEF Units
<1>4. ASSUME NEW x \in T
      PROVE  Cardinality(Units(counts, T)) = counts[x] + Cardinality(Units(counts, T \ {x}))
  <2> DEFINE A == {x} \X (1..counts[x])
             B == Units(counts, T \ {x})
  <2>1. IsFiniteSet(A) /\ Cardinality(A) = counts[x]
    <3>1. IsFiniteSet({x}) /\ Cardinality({x}) = 1
      BY FS_Singleton
    <3>2. counts[x] \in Nat
      OBVIOUS
    <3>3. IsFiniteSet(1..counts[x]) /\ Cardinality(1..counts[x]) = counts[x]
      BY <3>2, FS_Interval
    <3>4. IsFiniteSet(A) /\ Cardinality(A) = Cardinality({x}) * Cardinality(1..counts[x])
      BY <3>1, <3>3, FS_Product
    <3> QED
      BY <3>1, <3>2, <3>3, <3>4
  <2>2. IsFiniteSet(B) /\ Cardinality(B) \in Nat
    BY <1>1, FS_CardinalityType
  <2>3. Units(counts, T) = A \cup B
    BY DEF Units
  <2>4. A \cap B = {}
    BY DEF Units
  <2>5. Cardinality(A \cup B) = Cardinality(A) + Cardinality(B) - Cardinality(A \cap B)
    BY <2>1, <2>2, FS_Union
  <2>6. Cardinality(A \cap B) = 0
    BY <2>4, FS_EmptySet
  <2> HIDE DEF A, B
  <2>7. Cardinality(Units(counts, T)) = counts[x] + Cardinality(B)
    BY <2>1, <2>2, <2>3, <2>5, <2>6
  <2> QED
    BY <2>7 DEF B
<1> QED
  BY <1>1, <1>2, <1>3, <1>4

\* A way to add up the budgets of every set of names, one after the other.
Adds(counts, f, D) ==
  f = [s \in SUBSET D |->
         IF s = {} THEN 0
         ELSE LET x == CHOOSE x \in s : TRUE IN counts[x] + f[s \ {x}]]

\* The sum of some budgets is the number of their units.
LEMMA SumIs ==
  ASSUME NEW D, IsFiniteSet(D), NEW counts \in [D -> Nat]
  PROVE  SumOf(counts) = Cardinality(Units(counts, D))
<1> DEFINE h == [s \in SUBSET D |-> Cardinality(Units(counts, s))]
           f == CHOOSE f : Adds(counts, f, D)
<1>1. Adds(counts, h, D)
  <2>1. ASSUME NEW s \in SUBSET D
        PROVE  h[s] = IF s = {} THEN 0
                      ELSE LET x == CHOOSE x \in s : TRUE IN counts[x] + h[s \ {x}]
    <3>1. CASE s = {}
      BY <3>1, UnitsIs
    <3>2. CASE s # {}
      <4>1. (CHOOSE x \in s : TRUE) \in s
        BY <3>2
      <4> DEFINE x == CHOOSE x \in s : TRUE
      <4>2. x \in s /\ s \ {x} \in SUBSET D
        BY <4>1
      <4> HIDE DEF x
      <4>3. h[s] = Cardinality(Units(counts, s)) /\ h[s \ {x}] = Cardinality(Units(counts, s \ {x}))
        BY <4>2
      <4>4. Cardinality(Units(counts, s)) = counts[x] + Cardinality(Units(counts, s \ {x}))
        BY <4>2, UnitsIs
      <4>5. h[s] = counts[x] + h[s \ {x}]
        BY <4>3, <4>4
      <4> HIDE DEF h
      <4> QED
        BY <3>2, <4>5 DEF x
    <3> QED
      BY <3>1, <3>2
  <2> QED
    BY <2>1 DEF Adds
<1>2. Adds(counts, f, D)
  BY <1>1
<1> HIDE DEF h, f
<1>3. f = h
  <2> DEFINE Bad == {s \in SUBSET D : f[s] # h[s]}
             R == StrictSubsetOrdering(D)
  <2>1. CASE Bad # {}
    <3>1. Bad \subseteq FiniteSubsetsOf(D)
      BY FS_Subset DEF FiniteSubsetsOf
    <3>2. PICK s \in Bad : \A t \in Bad : ~(<<t, s>> \in R)
      BY <2>1, <3>1, FS_StrictSubsetOrderingWellFounded, WFMin
    <3>3. s # {}
      BY <1>1, <1>2 DEF Adds
    <3> DEFINE x == CHOOSE x \in s : TRUE
    <3>4. x \in s /\ s \ {x} \in SUBSET D
      BY <3>3
    <3>5. <<s \ {x}, s>> \in R
      BY <3>4 DEF StrictSubsetOrdering
    <3>6. f[s \ {x}] = h[s \ {x}]
      BY <3>2, <3>4, <3>5
    <3>7. f[s] = counts[x] + f[s \ {x}] /\ h[s] = counts[x] + h[s \ {x}]
      BY <1>1, <1>2, <3>3 DEF Adds
    <3> QED
      BY <3>6, <3>7
  <2>2. CASE Bad = {}
    <3>1. \A s \in SUBSET D : f[s] = h[s]
      BY <2>2
    <3>2. f = [s \in SUBSET D |-> f[s]]
      BY <1>2 DEF Adds
    <3>3. h = [s \in SUBSET D |-> h[s]]
      BY DEF h
    <3> QED
      BY <3>1, <3>2, <3>3
  <2> QED
    BY <2>1, <2>2
<1>4. SumOf(counts) = f[D]
  BY DEF SumOf, MapThenSumSet, MapThenFoldSet, Adds, f
<1> QED
  BY <1>3, <1>4 DEF h

\* One of the budgets is spent by one unit.
Spends(D, counts, rest, x) ==
  /\ counts \in [D -> Nat] /\ rest \in [D -> Nat] /\ x \in D
  /\ rest[x] = counts[x] - 1 /\ \A y \in D \ {x} : rest[y] = counts[y]

\* That lowers the sum by one.
LEMMA SumSpends ==
  ASSUME NEW D, IsFiniteSet(D), NEW counts, NEW rest, NEW x, Spends(D, counts, rest, x)
  PROVE  SumOf(rest) \in Nat /\ SumOf(counts) = SumOf(rest) + 1
<1> USE DEF Spends
<1>1. Units(rest, D \ {x}) = Units(counts, D \ {x})
  BY DEF Units
<1>2. Cardinality(Units(counts, D)) = counts[x] + Cardinality(Units(counts, D \ {x}))
  BY UnitsIs
<1>3. Cardinality(Units(rest, D)) = rest[x] + Cardinality(Units(rest, D \ {x}))
  BY UnitsIs
<1>4. Cardinality(Units(counts, D \ {x})) \in Nat /\ Cardinality(Units(rest, D)) \in Nat
  BY UnitsIs
<1> QED
  BY <1>1, <1>2, <1>3, <1>4, SumIs

\* What a call has made and may still make comes to the hard limit and what middleware
\* has proposed.
Balanced(c, r) ==
  r.number + SumOf(r.budget) + SumOf(r.replays) = HardLimit(c) + r.free

LimitOK(c) == IF pc[c] = "limit" THEN run[c].free > 0 ELSE Balanced(c, run[c])

LimitInv == TypeOK /\ \A c \in Calls : LimitOK(c)

Budgets == [transport : Nat, auth : Nat, redirect : Nat]

\* The policies with a budget are three.
LEMMA NamesAreFew == IsFiniteSet({"transport", "auth", "redirect"})
<1>1. IsFiniteSet({"transport"})
  BY FS_Singleton
<1>2. IsFiniteSet({"transport"} \cup {"auth"})
  BY <1>1, FS_AddElement
<1>3. IsFiniteSet(({"transport"} \cup {"auth"}) \cup {"redirect"})
  BY <1>2, FS_AddElement
<1>4. {"transport", "auth", "redirect"} = ({"transport"} \cup {"auth"}) \cup {"redirect"}
  OBVIOUS
<1> QED
  BY <1>3, <1>4

\* Budgets of policies, and of guards, have a sum.
LEMMA BudgetsAddUp ==
  /\ \A b \in Budgets : SumOf(b) \in Nat
  /\ \A r \in [Guards -> Nat] : SumOf(r) \in Nat
<1>1. IsFiniteSet(Guards)
  BY GuardsAreFew
<1>2. ASSUME NEW r \in [Guards -> Nat] PROVE SumOf(r) \in Nat
  BY <1>1, UnitsIs, SumIs
<1>3. ASSUME NEW b \in Budgets PROVE SumOf(b) \in Nat
  <2> DEFINE D == {"transport", "auth", "redirect"}
  <2>1. IsFiniteSet(D)
    BY NamesAreFew
  <2>2. b \in [D -> Nat]
    BY DEF Budgets
  <2> HIDE DEF D
  <2> QED
    BY <2>1, <2>2, UnitsIs, SumIs
<1> QED
  BY <1>2, <1>3

\* One spent of a policy's budget.
LEMMA BudgetSpends ==
  ASSUME NEW b \in Budgets, NEW rest \in Budgets, NEW name \in {"transport", "auth", "redirect"},
         rest = [b EXCEPT ![name] = b[name] - 1]
  PROVE  SumOf(b) = SumOf(rest) + 1
<1> DEFINE D == {"transport", "auth", "redirect"}
<1>1. IsFiniteSet(D)
  BY NamesAreFew
<1>2. b \in [D -> Nat] /\ rest \in [D -> Nat]
  BY DEF Budgets
<1>3. name \in D
  OBVIOUS
<1>4. rest[name] = b[name] - 1 /\ \A y \in D \ {name} : rest[y] = b[y]
  BY <1>2, <1>3
<1>5. Spends(D, b, rest, name)
  BY <1>2, <1>3, <1>4 DEF Spends
<1> HIDE DEF D
<1> QED
  BY <1>1, <1>5, SumSpends

\* A call begins in balance.
LEMMA FreshBalances ==
  ASSUME NEW c \in Calls PROVE Balanced(c, Fresh(c)) /\ HardLimit(c) \in Nat
<1>1. SumOf(Allowance[c]) \in Nat /\ SumOf(MaxReplays) \in Nat
  BY BudgetsAddUp, GuardedAssumption DEF Budgets
<1>2. /\ Fresh(c).number = 1 /\ Fresh(c).budget = Allowance[c]
      /\ Fresh(c).replays = MaxReplays /\ Fresh(c).free = 0
  BY DEF Fresh
<1> QED
  BY <1>1, <1>2 DEF Balanced, HardLimit

\* A call that ends is as it began.
LEMMA EndBalances ==
  ASSUME TypeOK, NEW c \in Calls, End(c) PROVE LimitOK(c)' /\ Others(c)
<1>1. pc'[c] = "done" /\ run'[c] = Fresh(c) /\ Others(c)
  BY EndIs
<1> QED
  BY <1>1, FreshBalances DEF LimitOK

\* A call in balance goes on with the next attempt, or middleware had a part in it.
LEMMA AgainBalances ==
  ASSUME TypeOK, NEW c \in Calls, NEW state \in Runs, Balanced(c, state), Again(c, state)
  PROVE  LimitOK(c)' /\ Others(c)
<1>o. Others(c)
  BY AgainIs
<1>1. CASE state.number <= HardLimit(c)
  <2> DEFINE s == [state EXCEPT !.identity = AnyIdentity(c), !.used = None, !.job = <<>>]
  <2>1. Goto(c, "prepare", s)
    BY <1>1 DEF Again
  <2>2. s \in Runs
    BY FreshIs DEF Runs
  <2>3. s.number = state.number /\ s.budget = state.budget /\ s.replays = state.replays
        /\ s.free = state.free
    BY DEF Runs
  <2> HIDE DEF s
  <2>4. pc'[c] = "prepare" /\ run'[c] = s
    BY GotoIs, <2>1, <2>2 DEF Steps
  <2>5. Balanced(c, s)
    BY <2>3 DEF Balanced
  <2> QED
    BY <1>o, <2>4, <2>5 DEF LimitOK
<1>2. CASE ~(state.number <= HardLimit(c))
  <2> DEFINE s == [Fresh(c) EXCEPT !.free = state.free]
  <2>1. Goto(c, "limit", s)
    BY <1>2 DEF Again
  <2>2. s \in Runs /\ s.free = state.free
    BY FreshIs DEF Runs
  <2> HIDE DEF s
  <2>3. pc'[c] = "limit" /\ run'[c] = s
    BY GotoIs, <2>1, <2>2 DEF Steps
  <2>4. state.number \in Nat /\ state.free \in Nat /\ state.budget \in Budgets
        /\ state.replays \in [Guards -> Nat]
    BY DEF Runs, Budgets
  <2>5. SumOf(state.budget) \in Nat /\ SumOf(state.replays) \in Nat
    BY <2>4, BudgetsAddUp
  <2>6. state.free > 0
    BY <1>2, <2>4, <2>5, FreshBalances DEF Balanced
  <2> QED
    BY <1>o, <2>2, <2>3, <2>6 DEF LimitOK
<1> QED
  BY <1>1, <1>2

\* The number and the budgets of a call that takes up another attempt.
LEMMA NextCounts ==
  ASSUME TypeOK, NEW c \in Calls
  PROVE  /\ NextAttempt(c).number = run[c].number + 1 /\ NextAttempt(c).budget = run[c].budget
         /\ NextAttempt(c).replays = run[c].replays /\ NextAttempt(c).free = run[c].free
         /\ run[c].number \in Nat /\ run[c].free \in Nat /\ run[c].budget \in Budgets
         /\ run[c].replays \in [Guards -> Nat]
         /\ SumOf(run[c].budget) \in Nat /\ SumOf(run[c].replays) \in Nat
         /\ HardLimit(c) \in Nat
<1> DEFINE s == run[c]
<1>1. s \in Runs
  BY DEF TypeOK
<1>2. NextAttempt(c) = [s EXCEPT !.number = s.number + 1]
  BY DEF NextAttempt
<1> HIDE DEF s
<1>3. /\ NextAttempt(c).number = s.number + 1 /\ NextAttempt(c).budget = s.budget
      /\ NextAttempt(c).replays = s.replays /\ NextAttempt(c).free = s.free
  BY <1>1, <1>2 DEF Runs
<1>4. /\ s.number \in Nat /\ s.free \in Nat /\ s.budget \in Budgets
      /\ s.replays \in [Guards -> Nat]
  BY <1>1 DEF Runs, Budgets
<1> QED
  BY <1>3, <1>4, BudgetsAddUp, FreshBalances DEF s

\* Spending a budget pays for the attempt.
LEMMA SpendingBalances ==
  ASSUME TypeOK, NEW c \in Calls, NEW name \in {"transport", "auth", "redirect"},
         Left(c, name), Balanced(c, run[c])
  PROVE  Balanced(c, Spending(c, name))
<1> DEFINE a == NextAttempt(c)
           b == [a.budget EXCEPT ![name] = a.budget[name] - 1]
<1>1. Spending(c, name) = [a EXCEPT !.budget = b]
  BY DEF Spending
<1>2. a \in Runs
  BY NextAttemptIs
<1>3. Spending(c, name) \in Runs
  BY SpendingIs
<1> HIDE DEF a
<1>4. /\ Spending(c, name).budget = b /\ Spending(c, name).number = a.number
      /\ Spending(c, name).replays = a.replays /\ Spending(c, name).free = a.free
  BY <1>1, <1>2 DEF Runs
<1>5. a.budget \in Budgets /\ b \in Budgets
  BY <1>2, <1>3, <1>4 DEF Runs, Budgets
<1>6. SumOf(a.budget) = SumOf(b) + 1 /\ SumOf(b) \in Nat
  BY <1>5, BudgetSpends, BudgetsAddUp
<1> HIDE DEF b
<1>7. /\ a.number = run[c].number + 1 /\ a.budget = run[c].budget
      /\ a.replays = run[c].replays /\ a.free = run[c].free
  BY NextCounts DEF a
<1>c. /\ run[c].number \in Nat /\ run[c].free \in Nat /\ HardLimit(c) \in Nat
      /\ SumOf(run[c].budget) \in Nat /\ SumOf(run[c].replays) \in Nat
  BY NextCounts
<1>8. SumOf(run[c].budget) = SumOf(Spending(c, name).budget) + 1
  BY <1>4, <1>6, <1>7
<1>9. /\ Spending(c, name).number = run[c].number + 1
      /\ SumOf(Spending(c, name).replays) = SumOf(run[c].replays)
      /\ Spending(c, name).free = run[c].free /\ SumOf(Spending(c, name).budget) \in Nat
  BY <1>4, <1>6, <1>7
<1> QED
  BY <1>c, <1>8, <1>9, SMTT(60) DEF Balanced

\* So does a proposal of middleware, on nobody's budget.
LEMMA RepeatBalances ==
  ASSUME TypeOK, NEW c \in Calls, Balanced(c, run[c]),
         \/ \E name \in {"transport", "auth", "redirect"} : Left(c, name) /\ Repeat(c, name)
         \/ RepeatForFree(c)
  PROVE  LimitOK(c)' /\ Others(c)
<1>1. CASE \E name \in {"transport", "auth", "redirect"} : Left(c, name) /\ Repeat(c, name)
  BY <1>1, SpendingIs, SpendingBalances, AgainBalances DEF Repeat
<1>2. CASE RepeatForFree(c)
  <2> DEFINE a == NextAttempt(c)
             s == [a EXCEPT !.free = a.free + 1]
  <2>1. a \in Runs
    BY NextAttemptIs
  <2>2. Again(c, s)
    BY <1>2 DEF RepeatForFree
  <2>3. /\ a.number = run[c].number + 1 /\ a.budget = run[c].budget
        /\ a.replays = run[c].replays /\ a.free = run[c].free
    BY NextCounts
  <2> HIDE DEF a
  <2>4. a.free + 1 \in Nat
    BY <2>1 DEF Runs
  <2>5. /\ s \in Runs /\ s.number = a.number /\ s.budget = a.budget /\ s.replays = a.replays
        /\ s.free = a.free + 1
    BY <2>1, <2>4 DEF Runs
  <2> HIDE DEF s
  <2>c. /\ run[c].number \in Nat /\ run[c].free \in Nat /\ HardLimit(c) \in Nat
        /\ SumOf(run[c].budget) \in Nat /\ SumOf(run[c].replays) \in Nat
    BY NextCounts
  <2>6. Balanced(c, s)
    <3>1. /\ s.number = run[c].number + 1 /\ s.budget = run[c].budget
          /\ s.replays = run[c].replays /\ s.free = run[c].free + 1
      BY <2>3, <2>5
    <3>2. /\ SumOf(s.budget) = SumOf(run[c].budget)
          /\ SumOf(s.replays) = SumOf(run[c].replays)
      BY <3>1
    <3> QED
      BY <2>c, <3>1, <3>2 DEF Balanced
  <2> QED
    BY <2>2, <2>5, <2>6, AgainBalances
<1> QED
  BY <1>1, <1>2

\* An accepted challenge spends a replay of its guard.
LEMMA AcceptedBalances ==
  ASSUME TypeOK, NEW c \in Calls, NEW g \in Guards, NEW k \in Asks[g], Accepted(c, g, k),
         Balanced(c, run[c])
  PROVE  LimitOK(c)' /\ Others(c)
<1> DEFINE a == NextAttempt(c)
           refused == run[c].refused \cup ({run[c].used[g]} \ {0})
           local == IF Mode[g] = "shared" THEN run[c].local ELSE [run[c].local EXCEPT ![g] = 0]
           replays == [a.replays EXCEPT ![g] = a.replays[g] - 1]
           s == [a EXCEPT !.replays = replays, !.refused = refused, !.local = local,
                          !.used = None, !.job = <<g, k, closed>>]
<1>1. a \in Runs /\ SameSolutions(a, run[c])
  BY NextAttemptIs
<1>2. Goto(c, IF Mode[g] = "shared" THEN "wait" ELSE "solve", s)
  <2>1. s = [a EXCEPT
             !.replays[g] = @ - 1,
             !.refused = @ \cup ({run[c].used[g]} \ {0}),
             !.local = IF Mode[g] = "shared" THEN @ ELSE [@ EXCEPT ![g] = 0],
             !.used = None, !.job = <<g, k, closed>>]
    BY <1>1 DEF SameSolutions
  <2> QED
    BY <2>1 DEF Accepted
<1>3. run'[c] = s
  BY <1>2 DEF Goto, TypeOK
<1>4. /\ a.number = run[c].number + 1 /\ a.budget = run[c].budget
      /\ a.replays = run[c].replays /\ a.free = run[c].free
  BY NextCounts
<1>5. run[c].replays[g] > 0
  BY DEF Accepted
<1> HIDE DEF a, refused, local
<1>6. /\ s.number = a.number /\ s.budget = a.budget /\ s.replays = replays
      /\ s.free = a.free
  BY <1>1 DEF Runs
<1> HIDE DEF s
<1>7. run[c].replays \in [Guards -> Nat] /\ replays \in [Guards -> Nat]
      /\ replays[g] = run[c].replays[g] - 1
      /\ \A h \in Guards \ {g} : replays[h] = run[c].replays[h]
  <2>1. run[c].replays \in [Guards -> Nat]
    BY NextCounts
  <2>2. run[c].replays[g] - 1 \in Nat
    BY <1>5, <2>1
  <2> QED
    BY <1>4, <2>1, <2>2
<1> HIDE DEF replays
<1>8. SumOf(run[c].replays) = SumOf(replays) + 1 /\ SumOf(replays) \in Nat
  <2>1. IsFiniteSet(Guards)
    BY GuardsAreFew
  <2>2. Spends(Guards, run[c].replays, replays, g)
    BY <1>7 DEF Spends
  <2> QED
    BY <2>1, <2>2, SumSpends
<1>c. /\ run[c].number \in Nat /\ run[c].free \in Nat /\ HardLimit(c) \in Nat
      /\ SumOf(run[c].budget) \in Nat /\ SumOf(run[c].replays) \in Nat
  BY NextCounts
<1>9. Balanced(c, s)
  <2>1. /\ s.number = run[c].number + 1 /\ s.budget = run[c].budget
        /\ s.replays = replays /\ s.free = run[c].free
    BY <1>4, <1>6
  <2>2. SumOf(s.budget) = SumOf(run[c].budget) /\ SumOf(s.replays) = SumOf(replays)
    BY <2>1
  <2> QED
    BY <1>c, <1>8, <2>1, <2>2 DEF Balanced
<1> QED
  BY <1>3, <1>9, AcceptedIs DEF LimitOK

\* Going on with a solution spends nothing.
LEMMA GoOnBalances ==
  ASSUME TypeOK, NEW c \in Calls, Guard(c) \in Guards, NEW n \in Solutions,
         NEW isShared \in BOOLEAN, GoOnWith(c, n, isShared), Balanced(c, run[c])
  PROVE  LimitOK(c)' /\ Others(c)
<1> DEFINE r == run[c]
           local == [r.local EXCEPT ![Guard(c)] = n]
           applied == IF isShared THEN [r.applied EXCEPT ![Guard(c)] = n] ELSE r.applied
           state == [r EXCEPT !.local = local, !.applied = applied]
<1>1. r \in Runs
  BY DEF TypeOK
<1>2. Again(c, state)
  BY <1>1 DEF GoOnWith, Runs
<1>3. local \in [Guards -> Solutions] /\ applied \in [Guards -> Solutions]
  <2>1. r.local \in [Guards -> Solutions] /\ r.applied \in [Guards -> Solutions]
    BY <1>1 DEF Runs
  <2> QED
    BY <2>1
<1>b. Balanced(c, r)
  OBVIOUS
<1> HIDE DEF r, local, applied
<1>4. /\ state \in Runs /\ state.number = r.number /\ state.budget = r.budget
      /\ state.replays = r.replays /\ state.free = r.free
  BY <1>1, <1>3 DEF Runs
<1> HIDE DEF state
<1>5. Balanced(c, state)
  BY <1>b, <1>4 DEF Balanced
<1> QED
  BY <1>2, <1>4, <1>5, AgainBalances

\* Preparing an attempt neither.
LEMMA PrepareBalances ==
  ASSUME TypeOK, NEW c \in Calls, NEW i \in MayHave[c], Prepare(c, i), Balanced(c, run[c])
  PROVE  LimitOK(c)' /\ Others(c)
<1> DEFINE r == run[c]
           used == [g \in Guards |-> Carried(c, g, i)]
           applied == [g \in Guards |-> Applied(c, g, i)]
           local == [g \in Guards |-> IF Mode[g] = "match" THEN 0 ELSE Own(c, g, i)]
           s == [r EXCEPT !.identity = i, !.used = used, !.applied = applied, !.local = local]
<1>1. r \in Runs /\ Balanced(c, r)
  BY DEF TypeOK
<1>2. pc' = [pc EXCEPT ![c] = "send"] /\ run' = [run EXCEPT ![c] = s]
  BY DEF Prepare, Goto
<1>3. pc'[c] = "send" /\ run'[c] = s /\ Others(c)
  BY <1>2 DEF TypeOK, Others
<1> HIDE DEF r, used, applied, local
<1>4. s.number = r.number /\ s.budget = r.budget /\ s.replays = r.replays /\ s.free = r.free
  BY <1>1 DEF Runs
<1> HIDE DEF s
<1>5. Balanced(c, s)
  BY <1>1, <1>4 DEF Balanced
<1> QED
  BY <1>3, <1>5 DEF LimitOK

\* Every step of a call keeps the account.
LEMMA StepBalances ==
  ASSUME LimitInv, NEW c \in Calls, Step(c) \/ Cancel(c)
  PROVE  LimitOK(c)' /\ Others(c)
<1>t. TypeOK
  BY DEF LimitInv
<1>l. pc[c] # "limit"
  BY DEF Step, Cancel, Prepare, PrepareFails, Answered, TransportError, MiddlewareRetry,
     RetryStatus, Redirected, SessionRejected, RefreshReturns, RefreshRaises, Challenged,
     ReuseSolution, BeginSolve, Solved, SolveFails, Responding
<1>b. Balanced(c, run[c])
  BY <1>l DEF LimitInv, LimitOK
<1>1. CASE PrepareFails(c) \/ Answered(c) \/ RefreshRaises(c) \/ SolveFails(c) \/ Cancel(c)
  BY <1>1, <1>t, EndBalances DEF PrepareFails, Answered, RefreshRaises, SolveFails, Cancel
<1>2. CASE \E proposed \in {FALSE, MayPropose(c)} : TransportError(c, proposed)
  BY <1>2, <1>t, <1>b, EndBalances, RepeatBalances DEF TransportError
<1>3. CASE MiddlewareRetry(c) \/ RetryStatus(c) \/ Redirected(c)
  BY <1>3, <1>t, <1>b, EndBalances, RepeatBalances DEF MiddlewareRetry, RetryStatus, Redirected
<1>4. CASE SessionRejected(c)
  <2>1. Left(c, "auth")
    BY <1>4 DEF SessionRejected
  <2>2. CASE End(c)
    BY <1>t, <2>2, EndBalances
  <2>3. CASE Goto(c, "refresh", Spending(c, "auth"))
    <3>1. Spending(c, "auth") \in Runs /\ Balanced(c, Spending(c, "auth"))
      BY <1>t, <1>b, <2>1, SpendingIs, SpendingBalances
    <3>2. Others(c) /\ pc'[c] = "refresh" /\ run'[c] = Spending(c, "auth")
      BY <1>t, <2>3, <3>1, GotoIs DEF Steps
    <3> QED
      BY <3>1, <3>2 DEF LimitOK
  <2> QED
    BY <1>4, <2>2, <2>3 DEF SessionRejected
<1>5. CASE RefreshReturns(c)
  <2>1. run[c] \in Runs
    BY <1>t DEF TypeOK
  <2> QED
    BY <1>5, <1>t, <1>b, <2>1, AgainBalances DEF RefreshReturns
<1>6. ASSUME NEW g \in Guards, NEW k \in Asks[g], Challenged(c, g, k)
      PROVE  LimitOK(c)' /\ Others(c)
  <2>1. CASE End(c)
    BY <1>t, <2>1, EndBalances
  <2>2. CASE ~ End(c)
    <3>1. Accepted(c, g, k)
      BY <1>6, <2>2 DEF Challenged, Accepted, Responding
    <3> QED
      BY <1>t, <1>b, <3>1, AcceptedBalances
  <2> QED
    BY <2>1, <2>2
<1>7. CASE \E i \in MayHave[c] : Prepare(c, i)
  BY <1>7, <1>t, <1>b, PrepareBalances
<1>8. CASE ReuseSolution(c)
  <2>1. /\ Guard(c) \in Guards /\ Kept(c)[Key(c)] \in Solutions
        /\ GoOnWith(c, Kept(c)[Key(c)], TRUE)
    BY <1>8, <1>t, ReuseIs, JobIs
  <2> QED
    BY <1>t, <1>b, <2>1, GoOnBalances
<1>9. CASE BeginSolve(c)
  <2>1. pc'[c] = "solve" /\ run'[c] = run[c] /\ Others(c)
    BY <1>9, <1>t, BeginIs
  <2> QED
    BY <1>b, <2>1 DEF LimitOK
<1>10. ASSUME NEW shareable \in BOOLEAN, Solved(c, shareable) PROVE LimitOK(c)' /\ Others(c)
  <2>1. Guard(c) \in Guards /\ solved' \in Solutions /\ GoOnWith(c, solved', shareable)
    BY <1>10, <1>t, SolvedIs, JobIs
  <2> QED
    BY <1>t, <1>b, <2>1, GoOnBalances
<1> HIDE DEF LimitOK, Others
<1> QED
  BY <1>1, <1>2, <1>3, <1>4, <1>5, <1>6, <1>7, <1>8, <1>9, <1>10 DEF Step

\* So does every step.
LEMMA LimitStep == LimitInv /\ [Next]_vars => LimitInv'
<1> SUFFICES ASSUME LimitInv, [Next]_vars PROVE LimitInv'
  OBVIOUS
<1>1. TypeOK'
  BY TypeStep DEF LimitInv
<1>2. CASE \E c \in Calls : Step(c) \/ Cancel(c)
  <2>1. PICK c \in Calls : Step(c) \/ Cancel(c)
    BY <1>2
  <2>2. LimitOK(c)' /\ Others(c)
    BY <2>1, StepBalances
  <2>3. \A d \in Calls \ {c} : LimitOK(d)'
    BY <2>2 DEF Others, LimitOK, LimitInv
  <2> QED
    BY <1>1, <2>2, <2>3 DEF LimitInv
<1>3. CASE pc' = pc /\ run' = run
  BY <1>1, <1>3 DEF LimitInv, LimitOK
<1> QED
  BY <1>2, <1>3 DEF Next, Invalidate, Close, Expire, vars

\* A call ends for want of attempts only when middleware has proposed some: what its own
\* policies and guards spend never runs into the hard limit of the loop in execute(),
\* whatever the order it is spent in and however many guards there are.
THEOREM LimitIsMiddlewares == Spec => []LimitNeedsMiddleware
<1>1. Init => LimitInv
  BY TypeInit, FreshBalances DEF Init, LimitInv, LimitOK
<1>2. LimitInv => LimitNeedsMiddleware
  BY DEF LimitInv, LimitOK, LimitNeedsMiddleware
<1> QED
  BY <1>1, <1>2, LimitStep, PTL DEF Spec

-----------------------------------------------------------------------------
(* DependencyOrder. *)

Deps == DOMAIN requires
Out == ToSet(output)
OnceEach(s) == \A i, j \in DOMAIN s : s[i] = s[j] => i = j

\* What is ready or out waits for nothing, and nothing else does; a degree counts what is
\* not out; and the order so far is one.
OrderInv ==
  /\ requires \in Declarations
  /\ output \in Seq(Deps) /\ ready \in Seq(Deps) /\ degree \in [Deps -> Nat]
  /\ OnceEach(output) /\ OnceEach(ready)
  /\ Follows(requires, output)
  /\ Unregistered(requires) => ready = <<>>
  /\ ~Unregistered(requires) =>
       /\ \A d \in Deps : degree[d] = Cardinality(requires[d] \ Out)
       /\ \A d \in Deps : degree[d] = 0 <=> d \in ToSet(ready) \/ d \in Out
       /\ \A d \in ToSet(ready) : d \notin Out

\* An enumeration of a finite set names each of its members.
LEMMA Enumerates ==
  ASSUME NEW S, IsFiniteSet(S), NEW s \in SetToSeqs(S)
  PROVE  s \in Seq(S) /\ OnceEach(s) /\ ToSet(s) = S /\ DOMAIN s = 1..Cardinality(S)
<1> DEFINE n == Cardinality(S)
<1>1. n \in Nat
  BY FS_CardinalityType
<1>2. s \in [1..n -> S] /\ \A i, j \in 1..n : i # j => s[i] # s[j]
  BY DEF SetToSeqs
<1>3. IsFiniteSet(1..n) /\ Cardinality(1..n) = n
  BY <1>1, FS_Interval
<1>4. s \in Injection(1..n, S)
  BY <1>2 DEF Injection, IsInjective
<1>5. s \in Surjection(1..n, S)
  BY <1>3, <1>4, FS_Injection
<1> HIDE DEF n
<1>6. ToSet(s) = S
  BY <1>2, <1>5 DEF ToSet, Surjection
<1>7. s \in Seq(S) /\ OnceEach(s)
  BY <1>1, <1>2 DEF OnceEach
<1>8. DOMAIN s = 1..n
  BY <1>2
<1> QED
  BY <1>6, <1>7, <1>8 DEF n

\* Taking the head off a queue in which nothing is twice, and adding what was not in it.
LEMMA Requeued ==
  ASSUME NEW S, NEW s \in Seq(S), s # <<>>, OnceEach(s),
         NEW f \in Seq(S), OnceEach(f), \A x \in ToSet(f) : x \notin ToSet(s)
  PROVE  /\ Tail(s) \o f \in Seq(S) /\ OnceEach(Tail(s) \o f)
         /\ ToSet(Tail(s) \o f) = (ToSet(s) \ {Head(s)}) \cup ToSet(f)
<1> DEFINE t == Tail(s)
           q == t \o f
<1>1. /\ Head(s) = s[1] /\ t \in Seq(S) /\ Len(t) = Len(s) - 1 /\ Len(s) >= 1
      /\ \A i \in 1..Len(t) : t[i] = s[i + 1]
  BY HeadTailProperties
<1>2. /\ q \in Seq(S) /\ Len(q) = Len(t) + Len(f)
      /\ \A i \in 1..Len(q) : q[i] = IF i <= Len(t) THEN t[i] ELSE f[i - Len(t)]
  BY <1>1, ConcatProperties
<1>3. Len(s) \in Nat /\ DOMAIN s = 1..Len(s) /\ Len(f) \in Nat /\ DOMAIN f = 1..Len(f)
  OBVIOUS
<1>4. DOMAIN q = 1..Len(q)
  BY <1>2
<1> HIDE DEF t, q
<1>5. ASSUME NEW i \in 1..Len(q), i <= Len(t)
      PROVE  i + 1 \in DOMAIN s /\ q[i] = s[i + 1] /\ q[i] \in ToSet(s) /\ q[i] # Head(s)
  <2>1. i \in 1..Len(t) /\ i + 1 \in DOMAIN s /\ 1 \in DOMAIN s
    BY <1>1, <1>2, <1>3, <1>5
  <2>2. q[i] = s[i + 1] /\ q[i] \in ToSet(s)
    BY <1>1, <1>2, <1>5, <2>1 DEF ToSet
  <2>3. i + 1 # 1
    BY <2>1
  <2>4. s[i + 1] # s[1]
    BY <2>1, <2>3 DEF OnceEach
  <2> QED
    BY <1>1, <2>1, <2>2, <2>4
<1>6. ASSUME NEW i \in 1..Len(q), ~(i <= Len(t))
      PROVE  i - Len(t) \in DOMAIN f /\ q[i] = f[i - Len(t)] /\ q[i] \in ToSet(f)
  <2>1. i - Len(t) \in DOMAIN f
    BY <1>1, <1>2, <1>3, <1>6
  <2> QED
    BY <1>2, <1>6, <2>1 DEF ToSet
<1>7. OnceEach(q)
  <2> SUFFICES ASSUME NEW i \in 1..Len(q), NEW j \in 1..Len(q), q[i] = q[j] PROVE i = j
    BY <1>4 DEF OnceEach
  <2>1. CASE i <= Len(t) /\ j <= Len(t)
    <3>1. i + 1 = j + 1
      BY <1>5, <2>1 DEF OnceEach
    <3> QED
      BY <3>1
  <2>2. CASE ~(i <= Len(t)) /\ ~(j <= Len(t))
    <3>1. i - Len(t) = j - Len(t)
      BY <1>6, <2>2 DEF OnceEach
    <3> QED
      BY <3>1, <1>1, <1>3
  <2> QED
    BY <1>5, <1>6, <2>1, <2>2
<1>8. ToSet(q) \subseteq (ToSet(s) \ {Head(s)}) \cup ToSet(f)
  BY <1>4, <1>5, <1>6 DEF ToSet
<1>9. ASSUME NEW x \in ToSet(s), x # Head(s) PROVE x \in ToSet(q)
  <2>1. PICK i \in DOMAIN s : x = s[i]
    BY DEF ToSet
  <2>2. i - 1 \in 1..Len(q) /\ i - 1 <= Len(t) /\ (i - 1) + 1 = i
    BY <1>1, <1>2, <1>3, <1>9, <2>1
  <2> QED
    BY <1>4, <1>5, <2>1, <2>2 DEF ToSet
<1>10. ASSUME NEW x \in ToSet(f) PROVE x \in ToSet(q)
  <2>1. PICK i \in DOMAIN f : x = f[i]
    BY DEF ToSet
  <2>2. i + Len(t) \in 1..Len(q) /\ ~(i + Len(t) <= Len(t)) /\ (i + Len(t)) - Len(t) = i
    BY <1>1, <1>2, <1>3
  <2> QED
    BY <1>4, <1>6, <2>1, <2>2 DEF ToSet
<1>11. ToSet(q) = (ToSet(s) \ {Head(s)}) \cup ToSet(f)
  BY <1>8, <1>9, <1>10
<1> QED
  BY <1>2, <1>7, <1>11 DEF t, q

\* What is ready waits for nothing and is not out; what waits for nothing else is freed.
LEMMA OrderStep ==
  ASSUME OrderInv, OrderNext PROVE OrderInv'
<1> DEFINE d == Head(ready)
           F == {x \in Edges(d) : degree'[x] = 0}
<1>1. PICK freed \in SetToSeqs(F) : ready' = Tail(ready) \o freed
  BY DEF OrderNext, Release
<1>2. /\ ready # <<>> /\ output' = Append(output, d) /\ requires' = requires
      /\ degree' = [x \in DOMAIN degree |-> IF x \in Edges(d) THEN degree[x] - 1 ELSE degree[x]]
  BY DEF OrderNext, Release
<1>3. ~Unregistered(requires)
  BY <1>2 DEF OrderInv
<1> HIDE DEF F
<1>4. d \in Deps /\ d \in ToSet(ready)
  <2>1. Head(ready) \in Deps /\ Head(ready) = ready[1] /\ 1 \in DOMAIN ready
    BY <1>2 DEF OrderInv
  <2> QED
    BY <2>1 DEF ToSet
<1>5. d \notin Out /\ degree[d] = 0
  BY <1>3, <1>4 DEF OrderInv
<1> HIDE DEF d
<1>6. /\ output' \in Seq(Deps) /\ Len(output') = Len(output) + 1
      /\ output'[Len(output) + 1] = d
      /\ \A i \in DOMAIN output : output'[i] = output[i]
      /\ DOMAIN output' = DOMAIN output \cup {Len(output) + 1}
      /\ Len(output) + 1 \notin DOMAIN output
  BY <1>2, <1>4 DEF OrderInv
<1>7. Out' = Out \cup {d}
  BY <1>6 DEF Out, ToSet
<1>8. OnceEach(output')
  <2>1. \A i \in DOMAIN output : output[i] # d
    BY <1>5 DEF Out, ToSet
  <2> QED
    BY <1>6, <2>1 DEF OnceEach, OrderInv
<1>9. ASSUME NEW x \in Deps
      PROVE  IsFiniteSet(requires[x]) /\ Cardinality(requires[x] \ Out) \in Nat
  BY FS_Subset, FS_CardinalityType, DeclarationAssumption DEF OrderInv, DeclarationAssumption, Deps
<1>10. ASSUME NEW x \in Deps
       PROVE  /\ degree'[x] \in Nat /\ degree'[x] = Cardinality(requires[x] \ Out')
              /\ x \in Edges(d) => degree[x] # 0
              /\ degree'[x] = 0 <=> degree[x] = 0 \/ x \in F
  <2> DEFINE R == requires[x] \ Out
  <2>1. degree[x] = Cardinality(R) /\ degree[x] \in Nat /\ IsFiniteSet(R)
    BY <1>3, <1>9, FS_Subset DEF OrderInv
  <2>2. requires[x] \ Out' = R \ {d}
    BY <1>7
  <2>3. d \in R <=> x \in Edges(d)
    BY <1>5 DEF Edges, Deps
  <2>4. x \in DOMAIN degree
    BY DEF OrderInv
  <2>5. degree'[x] = IF x \in Edges(d) THEN degree[x] - 1 ELSE degree[x]
    BY <1>2, <2>4
  <2> HIDE DEF R
  <2>6. Cardinality(R \ {d}) = IF d \in R THEN Cardinality(R) - 1 ELSE Cardinality(R)
    BY <2>1, FS_RemoveElement
  <2>7. d \in R => Cardinality(R) # 0
    BY <2>1, FS_EmptySet
  <2>8. x \in F <=> x \in Edges(d) /\ degree'[x] = 0
    BY DEF F
  <2>9. CASE x \in Edges(d)
    <3>1. degree'[x] = Cardinality(R) - 1 /\ Cardinality(R) # 0 /\ degree[x] # 0
      BY <2>1, <2>3, <2>5, <2>7, <2>9
    <3>2. Cardinality(R \ {d}) = Cardinality(R) - 1
      BY <2>3, <2>6, <2>9
    <3>3. degree'[x] = Cardinality(requires[x] \ Out')
      BY <2>2, <3>1, <3>2
    <3>4. degree'[x] \in Nat
      BY <2>1, <3>1
    <3> QED
      BY <2>8, <2>9, <3>1, <3>3, <3>4
  <2>10. CASE x \notin Edges(d)
    BY <2>1, <2>2, <2>3, <2>5, <2>6, <2>8, <2>10
  <2> QED
    BY <2>9, <2>10
<1>11. F \subseteq Deps /\ IsFiniteSet(F) /\ \A x \in F : degree[x] # 0
  <2>1. F \subseteq Deps /\ \A x \in F : x \in Edges(d)
    BY DEF F, Edges, Deps
  <2>2. IsFiniteSet(Deps)
    BY DeclarationAssumption DEF OrderInv, DeclarationAssumption, Deps
  <2> QED
    BY <1>10, <2>1, <2>2, FS_Subset
<1>12. freed \in Seq(F) /\ OnceEach(freed) /\ ToSet(freed) = F
  BY <1>11, Enumerates
<1>13. freed \in Seq(Deps)
  BY <1>11, <1>12
<1>14. \A x \in F : x \notin ToSet(ready)
  BY <1>3, <1>11 DEF OrderInv
<1>15. /\ ready' \in Seq(Deps) /\ OnceEach(ready')
       /\ ToSet(ready') = (ToSet(ready) \ {d}) \cup F
  BY <1>1, <1>2, <1>12, <1>13, <1>14, Requeued DEF OrderInv, d
<1>16. degree' \in [Deps -> Nat]
  <2>1. degree' = [x \in Deps |-> degree'[x]]
    BY <1>2 DEF OrderInv
  <2> QED
    BY <1>10, <2>1
<1>17. requires[d] \subseteq Out
  <2>1. Cardinality(requires[d] \ Out) = 0 /\ IsFiniteSet(requires[d] \ Out)
    BY <1>3, <1>4, <1>5, <1>9, FS_Subset DEF OrderInv
  <2> QED
    BY <2>1, FS_EmptySet
<1>18. Follows(requires, output')
  <2> SUFFICES ASSUME NEW k \in DOMAIN output', NEW e \in requires[output'[k]]
               PROVE  \E j \in DOMAIN output' : output'[j] = e /\ j < k
    BY DEF Follows
  <2>1. CASE k \in DOMAIN output
    <3>1. PICK j \in DOMAIN output : output[j] = e /\ j < k
      BY <1>6, <2>1 DEF OrderInv, Follows
    <3> QED
      BY <1>6, <3>1
  <2>2. CASE k = Len(output) + 1
    <3>1. e \in Out
      BY <1>6, <1>17, <2>2
    <3>2. PICK j \in DOMAIN output : output[j] = e
      BY <3>1 DEF Out, ToSet
    <3>3. j < Len(output) + 1
      BY <3>2 DEF OrderInv
    <3> QED
      BY <1>6, <2>2, <3>2, <3>3
  <2> QED
    BY <1>6, <2>1, <2>2
<1>19. ASSUME NEW x \in Deps
       PROVE  degree'[x] = 0 <=> x \in ToSet(ready') \/ x \in Out'
  BY <1>3, <1>4, <1>5, <1>7, <1>10, <1>15 DEF OrderInv
<1>20. \A x \in ToSet(ready') : x \notin Out'
  <2>1. ASSUME NEW x \in F PROVE x \notin Out /\ x # d
    BY <1>3, <1>5, <1>11 DEF OrderInv
  <2> QED
    BY <1>3, <1>7, <1>15, <2>1 DEF OrderInv
<1>21. Deps' = Deps
  BY <1>2 DEF Deps
<1> QED
  BY <1>2, <1>3, <1>6, <1>8, <1>10, <1>15, <1>16, <1>18, <1>19, <1>20, <1>21 DEF OrderInv

\* The loop begins with what waits for nothing.
LEMMA OrderStart == OrderInit => OrderInv
<1> SUFFICES ASSUME OrderInit PROVE OrderInv
  OBVIOUS
<1>1. requires \in Declarations /\ OrderBegins(requires)
  BY DEF OrderInit, OrderBegins
<1>2. /\ output = <<>> /\ Out = {} /\ Follows(requires, output)
      /\ OnceEach(output) /\ output \in Seq(Deps)
  BY <1>1 DEF OrderBegins, Out, ToSet, Follows, OnceEach
<1>3. /\ IsFiniteSet(Deps)
      /\ \A d \in Deps : IsFiniteSet(requires[d]) /\ Cardinality(requires[d]) \in Nat
  BY <1>1, DeclarationAssumption, FS_CardinalityType DEF DeclarationAssumption, Deps
<1>4. degree = [d \in Deps |-> Cardinality(requires[d])]
  BY <1>1 DEF OrderBegins, Deps
<1>5. /\ degree \in [Deps -> Nat]
      /\ \A d \in Deps : degree[d] = Cardinality(requires[d] \ Out)
  BY <1>2, <1>3, <1>4
<1>6. CASE Unregistered(requires)
  <2>1. ready = <<>>
    BY <1>1, <1>6 DEF OrderBegins
  <2>2. ready \in Seq(Deps) /\ OnceEach(ready)
    BY <2>1 DEF OnceEach
  <2> QED
    BY <1>1, <1>2, <1>5, <1>6, <2>1, <2>2 DEF OrderInv
<1>7. CASE ~Unregistered(requires)
  <2> DEFINE S == {d \in Deps : degree[d] = 0}
  <2>1. ready \in SetToSeqs(S)
    BY <1>1, <1>7 DEF OrderBegins, Sorted, Deps
  <2>2. IsFiniteSet(S)
    BY <1>3, FS_Subset
  <2> HIDE DEF S
  <2>3. ready \in Seq(S) /\ OnceEach(ready) /\ ToSet(ready) = S
    BY <2>1, <2>2, Enumerates
  <2>4. ready \in Seq(Deps) /\ \A d \in Deps : degree[d] = 0 <=> d \in ToSet(ready)
    BY <2>3 DEF S
  <2> QED
    BY <1>1, <1>2, <1>5, <1>7, <2>3, <2>4 DEF OrderInv
<1> QED
  BY <1>6, <1>7

\* A declaration whose loop ends before everything is out has no order: of what is left the
\* first in an order would wait for nothing.
LEMMA NothingIsLeft ==
  ASSUME OrderInv, ready = <<>>, ~Unregistered(requires),
         NEW o \in SetToSeqs(Deps), Follows(requires, o)
  PROVE  Out = Deps
<1> DEFINE K == {k \in DOMAIN o : o[k] \notin Out}
           R == OpToRel(<, Nat)
<1>1. Out \subseteq Deps
  BY DEF Out, ToSet, OrderInv
<1>2. IsFiniteSet(Deps) /\ \A d \in Deps : IsFiniteSet(requires[d])
  BY DeclarationAssumption DEF OrderInv, DeclarationAssumption, Deps
<1>3. o \in Seq(Deps) /\ ToSet(o) = Deps
  BY <1>2, Enumerates
<1>4. DOMAIN o \subseteq Nat
  BY <1>3
<1> SUFFICES ASSUME Out # Deps PROVE FALSE
  OBVIOUS
<1>5. K # {} /\ K \subseteq Nat
  <2>1. PICK d \in Deps : d \notin Out
    BY <1>1
  <2>2. PICK k \in DOMAIN o : o[k] = d
    BY <1>3, <2>1 DEF ToSet
  <2> QED
    BY <1>4, <2>1, <2>2
<1> HIDE DEF K
<1>6. PICK k \in K : \A j \in K : ~ <<j, k>> \in R
  <2> HIDE DEF R
  <2>1. IsWellFoundedOn(R, Nat)
    BY NatLessThanWellFounded DEF R
  <2> QED
    BY <1>5, <2>1, WFMin
<1>7. k \in DOMAIN o /\ o[k] \in Deps /\ o[k] \notin Out
  BY <1>3 DEF K
<1>8. degree[o[k]] # 0
  BY <1>7 DEF OrderInv, ToSet
<1>9. requires[o[k]] \ Out # {}
  <2>1. degree[o[k]] = Cardinality(requires[o[k]] \ Out)
    BY <1>7 DEF OrderInv
  <2> QED
    BY <1>8, <2>1, FS_EmptySet
<1>10. PICK e \in requires[o[k]] : e \notin Out
  BY <1>9
<1>11. PICK j \in DOMAIN o : o[j] = e /\ j < k
  BY <1>7, <1>10 DEF Follows
<1>12. j \in K /\ <<j, k>> \in R
  BY <1>4, <1>5, <1>10, <1>11 DEF K, OpToRel
<1> QED
  BY <1>6, <1>12

\* The order a call resolves its dependencies in names every one once and each after all
\* it reads, whatever a set hands out first; and only a declaration that has no order, with
\* a cycle or an unregistered dependency, is refused (_compile_dependency_order).
THEOREM OrdersAreRight == OrderSpec => []OrderIsRight
<1>1. OrderInv => OrderIsRight
  <2> SUFFICES ASSUME OrderInv PROVE OrderIsRight
    OBVIOUS
  <2>1. IsFiniteSet(Deps)
    BY DeclarationAssumption DEF OrderInv, DeclarationAssumption, Deps
  <2>2. ASSUME Compiled PROVE output \in RightOrders(requires)
    <3>1. Len(output) = Cardinality(Deps)
      BY <2>2 DEF Compiled, Deps
    <3>2. DOMAIN output = 1..Len(output) /\ output \in [1..Len(output) -> Deps]
      BY DEF OrderInv
    <3>3. output \in SetToSeqs(Deps)
      BY <3>1, <3>2 DEF SetToSeqs, OrderInv, OnceEach
    <3> QED
      BY <3>3 DEF RightOrders, OrderInv, Deps
  <2>3. ASSUME Refused, NEW o \in RightOrders(requires) PROVE FALSE
    <3>1. o \in SetToSeqs(Deps) /\ Follows(requires, o)
      BY <2>3 DEF RightOrders, Deps
    <3>2. ToSet(o) = Deps
      BY <2>1, <3>1, Enumerates
    <3>3. CASE Unregistered(requires)
      <4>1. PICK d \in Deps : \E e \in requires[d] : e \notin Deps
        BY <3>3 DEF Unregistered, Deps
      <4> PICK e \in requires[d] : e \notin Deps
        BY <4>1
      <4>2. PICK k \in DOMAIN o : o[k] = d
        BY <3>2, <4>1 DEF ToSet
      <4>3. PICK j \in DOMAIN o : o[j] = e
        BY <3>1, <4>1, <4>2 DEF Follows
      <4> QED
        BY <3>2, <4>1, <4>3 DEF ToSet
    <3>4. CASE ~Unregistered(requires)
      <4>1. Out = Deps
        BY <2>3, <3>1, <3>4, NothingIsLeft DEF Refused
      <4>2. Len(output) \in Nat /\ DOMAIN output = 1..Len(output)
        BY DEF OrderInv
      <4>3. output \in [1..Len(output) -> Deps]
        BY <4>2 DEF OrderInv
      <4>4. output \in Injection(1..Len(output), Deps)
        BY <4>2, <4>3 DEF OrderInv, OnceEach, Injection, IsInjective
      <4>5. output \in Surjection(1..Len(output), Deps)
        BY <4>1, <4>2, <4>3 DEF Out, ToSet, Surjection
      <4>6. Cardinality(1..Len(output)) = Cardinality(Deps)
        BY <2>1, <4>4, <4>5, FS_Injection
      <4>7. \A n \in Nat : Cardinality(1..n) = n
        BY FS_Interval
      <4>8. Cardinality(1..Len(output)) = Len(output)
        BY <4>2, <4>7
      <4> QED
        BY <2>3, <4>6, <4>8 DEF Refused, Deps
    <3> QED
      BY <3>3, <3>4
  <2> QED
    BY <2>2, <2>3 DEF OrderIsRight
<1>2. OrderInv /\ [OrderNext]_orderVars => OrderInv'
  <2>1. ASSUME OrderInv, UNCHANGED orderVars PROVE OrderInv'
    BY <2>1 DEF OrderInv, orderVars, Deps, Out
  <2> QED
    BY <2>1, OrderStep
<1> QED
  BY <1>1, <1>2, OrderStart, PTL DEF OrderSpec

-----------------------------------------------------------------------------
(* Pagination. *)

\* The elements on the first k pages.
FirstPages(k) == IF k < TotalPages THEN k * listing.size ELSE listing.length

WithinLimits ==
  /\ limits.maxItems # 0 => Len(given) < limits.maxItems
  /\ limits.maxPages # 0 => sent <= limits.maxPages

\* Before a request all pages so far were handed out, and the last of them had something.
SendInv ==
  /\ Len(given) = FirstPages(sent) /\ sent <= TotalPages
  /\ request = IF listing.kind = "numbered" THEN sent + 1 ELSE FirstPages(sent)
  /\ Told => sent = 0 \/ sent < TotalPages

\* A page continues the list ...
NewPage ==
  /\ listing.clamps => sent <= TotalPages
  /\ request = IF listing.kind = "numbered" THEN sent ELSE FirstPages(sent - 1)
  /\ Len(given) = FirstPages(sent - 1) + taken /\ fresh = taken

\* ... or is the last one again, of which everything was handed out.
SamePage ==
  /\ listing.clamps /\ sent > TotalPages /\ limits.keyed
  /\ request = sent /\ Len(given) = listing.length /\ fresh = 0

GiveInv ==
  /\ sent >= 1 /\ sent - 1 <= TotalPages /\ taken <= PageLength
  /\ Told => sent = 1 \/ sent <= TotalPages
  /\ NewPage \/ SamePage

OverInv ==
  /\ Len(given) = Wanted /\ sent <= TotalPages + 1
  /\ Told => sent <= TotalPages \/ sent = 1

PhaseInv ==
  /\ phase \in {"send", "give", "over"}
  /\ {request, taken, fresh, sent} \subseteq Nat
  /\ given \in Seq(Nat) /\ \A i \in 1..Len(given) : given[i] = i
  /\ phase = "send" => SendInv /\ WithinLimits
  /\ phase = "give" => GiveInv /\ WithinLimits
  /\ phase = "over" => OverInv

ReadInv == listing \in Listings /\ limits \in Limits /\ (Bounded => PhaseInv)

\* Multiplication by the size of a page.
LEMMA Products ==
  ASSUME NEW p \in Nat \ {0}
  PROVE  /\ \A k \in Nat : k * p \in Nat /\ (k + 1) * p = k * p + p
         /\ \A k, m \in Nat : k <= m => k * p <= m * p
<1>1. \A k \in Nat : k * p \in Nat /\ (k + 1) * p = k * p + p
  OBVIOUS
<1>2. ASSUME NEW k \in Nat, NEW m \in Nat, k <= m PROVE k * p <= m * p
  <2>1. (m - k) * p \in Nat
    BY <1>2
  <2>2. m * p = k * p + (m - k) * p
    OBVIOUS
  <2> QED
    BY <1>1, <2>1, <2>2
<1> QED
  BY <1>1, <1>2

\* A page is one of the total while the pages before it do not reach the end of the list.
LEMMA PagesAreCounted ==
  ASSUME NEW n \in Nat, NEW p \in Nat \ {0}
  PROVE  /\ (n + p - 1) \div p \in Nat
         /\ \A k \in Nat : k < (n + p - 1) \div p <=> k * p < n
<1> DEFINE T == (n + p - 1) \div p
<1>1. T \in Nat /\ T * p <= n + p - 1 /\ n + p - 1 < (T + 1) * p
  OBVIOUS
<1> HIDE DEF T
<1>2. ASSUME NEW k \in Nat, k < T PROVE k * p < n
  <2>1. (k + 1) * p <= T * p
    BY <1>1, <1>2, Products
  <2>2. (k + 1) * p = k * p + p /\ k * p \in Nat /\ T * p \in Nat
    BY <1>1, Products
  <2> QED
    BY <1>1, <2>1, <2>2
<1>3. ASSUME NEW k \in Nat, ~(k < T) PROVE ~(k * p < n)
  <2>1. T * p <= k * p
    BY <1>1, <1>3, Products
  <2>2. (T + 1) * p = T * p + p /\ k * p \in Nat /\ T * p \in Nat
    BY <1>1, Products
  <2> QED
    BY <1>1, <2>1, <2>2
<1> QED
  BY <1>1, <1>2, <1>3 DEF T

\* How far the first pages reach.
LEMMA PagesReach ==
  ASSUME listing \in Listings
  PROVE  /\ TotalPages \in Nat /\ listing.length \in Nat /\ listing.size \in Nat \ {0}
         /\ FirstPages(0) = 0
         /\ \A k \in Nat :
              /\ k * listing.size \in Nat
              /\ FirstPages(k) \in Nat /\ FirstPages(k) <= listing.length
              /\ FirstPages(k) <= k * listing.size
              /\ k >= TotalPages => FirstPages(k) = listing.length
              /\ k < TotalPages =>
                   /\ FirstPages(k) = k * listing.size /\ FirstPages(k) < listing.length
                   /\ FirstPages(k + 1) = Lesser(listing.size + FirstPages(k), listing.length)
                   /\ k + 1 < TotalPages <=> listing.size + FirstPages(k) < listing.length
<1> DEFINE n == listing.length
           p == listing.size
           T == TotalPages
<1>1. n \in Nat /\ p \in Nat \ {0}
  BY PaginationAssumption DEF PaginationAssumption
<1>2. T \in Nat /\ \A k \in Nat : k < T <=> k * p < n
  BY <1>1, PagesAreCounted DEF TotalPages
<1>3. \A k \in Nat : k * p \in Nat /\ (k + 1) * p = k * p + p
  BY <1>1, Products
<1>4. \A k \in Nat : FirstPages(k) = IF k < T THEN k * p ELSE n
  BY DEF FirstPages
<1>5. 0 * p = 0
  BY <1>1
<1> HIDE DEF n, p, T
<1>6. FirstPages(0) = 0
  BY <1>1, <1>2, <1>4, <1>5
<1>7. ASSUME NEW k \in Nat
      PROVE  /\ FirstPages(k) \in Nat /\ FirstPages(k) <= n /\ FirstPages(k) <= k * p
             /\ k >= T => FirstPages(k) = n
  BY <1>1, <1>2, <1>3, <1>4
<1>8. ASSUME NEW k \in Nat, k < T
      PROVE  /\ FirstPages(k) = k * p /\ FirstPages(k) < n
             /\ FirstPages(k + 1) = Lesser(p + FirstPages(k), n)
             /\ k + 1 < T <=> p + FirstPages(k) < n
  <2>1. FirstPages(k) = k * p /\ k * p < n /\ k * p \in Nat /\ (k + 1) * p = k * p + p
    BY <1>2, <1>3, <1>4, <1>8
  <2>2. k + 1 \in Nat
    OBVIOUS
  <2>3. k + 1 < T <=> (k + 1) * p < n
    BY <1>2, <2>2
  <2>4. FirstPages(k + 1) = IF k + 1 < T THEN (k + 1) * p ELSE n
    BY <1>4, <2>2
  <2> QED
    BY <1>1, <2>1, <2>3, <2>4 DEF Lesser
<1> QED
  BY <1>1, <1>2, <1>3, <1>6, <1>7, <1>8 DEF n, p, T

\* A new page begins where the pages before it end, and reaches as far as they do with it.
LEMMA PageIsNext ==
  ASSUME listing \in Listings, NEW s \in Nat, s >= 1, s - 1 <= TotalPages,
         listing.clamps => s <= TotalPages,
         request = IF listing.kind = "numbered" THEN s ELSE FirstPages(s - 1)
  PROVE  /\ PageLength \in Nat /\ PageLength = FirstPages(s) - FirstPages(s - 1)
         /\ s - 1 < TotalPages => PageStart = FirstPages(s - 1) /\ PageLength > 0
         /\ s - 1 < TotalPages /\ PageLength < listing.size => s = TotalPages
         /\ s - 1 = TotalPages => PageLength = 0
<1> DEFINE k == s - 1
           n == listing.length
           p == listing.size
<1>1. k \in Nat /\ k + 1 = s
  OBVIOUS
<1>2. /\ TotalPages \in Nat /\ n \in Nat /\ p \in Nat \ {0} /\ k * p \in Nat
      /\ FirstPages(k) \in Nat /\ FirstPages(s) \in Nat
  BY <1>1, PagesReach
<1>3. PageStart = IF listing.kind = "numbered" THEN k * p ELSE FirstPages(k)
  <2>1. CASE listing.kind = "numbered"
    <3>1. ~(listing.clamps /\ request > TotalPages)
      BY <1>1, <1>2, <2>1
    <3> QED
      BY <2>1, <3>1 DEF PageStart
  <2> QED
    BY <2>1 DEF PageStart
<1>4. PageLength = IF PageStart < n THEN Lesser(p, n - PageStart) ELSE 0
  BY DEF PageLength
<1>5. CASE k < TotalPages
  <2>1. /\ FirstPages(k) = k * p /\ FirstPages(k) < n
        /\ FirstPages(s) = Lesser(p + FirstPages(k), n)
        /\ s < TotalPages <=> p + FirstPages(k) < n
    BY <1>1, <1>5, PagesReach
  <2>2. PageStart = FirstPages(k) /\ PageLength = Lesser(p, n - FirstPages(k))
    BY <1>3, <1>4, <2>1
  <2> HIDE DEF k, n, p
  <2>3. PageLength = FirstPages(s) - FirstPages(k) /\ PageLength > 0
    BY <1>2, <2>1, <2>2 DEF Lesser
  <2>4. PageLength < p => ~(p + FirstPages(k) < n)
    BY <1>2, <2>1, <2>2 DEF Lesser
  <2>5. PageLength < p => s = TotalPages
    BY <1>1, <1>2, <1>5, <2>1, <2>4
  <2> QED
    BY <1>1, <1>2, <1>5, <2>2, <2>3, <2>5 DEF k, p
<1>6. CASE k = TotalPages
  <2>1. FirstPages(k) = n /\ FirstPages(s) = n
    BY <1>1, <1>2, <1>6, PagesReach
  <2>2. n <= k * p
    BY <1>1, <2>1, PagesReach
  <2>3. PageLength = 0
    BY <1>2, <1>3, <1>4, <2>1, <2>2
  <2> QED
    BY <1>2, <1>6, <2>1, <2>3
<1> QED
  BY <1>1, <1>2, <1>5, <1>6

\* A server that clamps answers a number past the last with the last page.
LEMMA PageIsLast ==
  ASSUME listing \in Listings, listing.clamps, request \in Nat, request > TotalPages
  PROVE  /\ PageStart \in Nat /\ PageLength \in Nat
         /\ PageStart + PageLength <= listing.length
<1> DEFINE k == TotalPages - 1
           n == listing.length
           p == listing.size
<1>1. TotalPages \in Nat /\ n \in Nat /\ p \in Nat \ {0} /\ n # 0 /\ listing.kind = "numbered"
  BY PagesReach, PaginationAssumption DEF PaginationAssumption
<1>2. TotalPages # 0
  <2>1. FirstPages(0) = 0 /\ (0 >= TotalPages => FirstPages(0) = n)
    BY PagesReach
  <2> QED
    BY <1>1, <2>1
<1>3. k \in Nat /\ k < TotalPages
  BY <1>1, <1>2
<1>4. k * p \in Nat /\ k * p < n
  BY <1>3, PagesReach
<1>5. PageStart = k * p /\ PageLength = Lesser(p, n - k * p)
  BY <1>1, <1>4 DEF PageStart, PageLength
<1> HIDE DEF k, n, p
<1> QED
  BY <1>1, <1>4, <1>5 DEF Lesser, n

\* What a page is does not change while it is handed out.
LEMMA PageStays ==
  ASSUME listing' = listing, limits' = limits
  PROVE  /\ TotalPages' = TotalPages /\ Told' = Told /\ Wanted' = Wanted /\ Bounded' = Bounded
         /\ \A k \in Nat : FirstPages(k)' = FirstPages(k)
         /\ request' = request => PageLength' = PageLength /\ PageStart' = PageStart
  BY DEF TotalPages, Told, Wanted, Bounded, FirstPages, PageLength, PageStart

\* The pages asked for reach no further than the caller's limit of pages.
LEMMA PagesAreWithin ==
  ASSUME listing \in Listings, limits \in Limits, WithinLimits, sent \in Nat
  PROVE  \E a \in Nat :
           /\ Wanted = Capped(Capped(listing.length, limits.maxItems), a)
           /\ a = limits.maxPages * listing.size
           /\ limits.maxPages # 0 => a # 0 /\ FirstPages(sent) <= a
           /\ limits.maxPages = 0 => a = 0
<1> DEFINE m == limits.maxPages
           p == listing.size
<1>1. m \in Nat /\ p \in Nat \ {0} /\ m * p \in Nat
  BY PaginationAssumption DEF PaginationAssumption
<1>2. sent * p \in Nat /\ FirstPages(sent) <= sent * p /\ FirstPages(sent) \in Nat
  BY PagesReach
<1>3. m # 0 => sent * p <= m * p
  BY <1>1, Products DEF WithinLimits
<1>4. m # 0 <=> m * p # 0
  BY <1>1
<1>5. Wanted = Capped(Capped(listing.length, limits.maxItems), m * p)
  BY DEF Wanted
<1> HIDE DEF m, p
<1>6. m # 0 => FirstPages(sent) <= m * p
  BY <1>1, <1>2, <1>3
<1> QED
  BY <1>1, <1>4, <1>5, <1>6 DEF m, p

\* No limit of the caller is passed before the iteration is over.
LEMMA LimitsAreKept ==
  ASSUME listing \in Listings, limits \in Limits, WithinLimits, given \in Seq(Nat),
         sent \in Nat, Len(given) <= FirstPages(sent)
  PROVE  Len(given) <= Wanted
<1>1. PICK a \in Nat :
        /\ Wanted = Capped(Capped(listing.length, limits.maxItems), a)
        /\ limits.maxPages # 0 => a # 0 /\ FirstPages(sent) <= a
        /\ limits.maxPages = 0 => a = 0
  BY PagesAreWithin
<1>2. /\ FirstPages(sent) \in Nat /\ FirstPages(sent) <= listing.length
      /\ listing.length \in Nat /\ limits.maxItems \in Nat
  BY PagesReach, PaginationAssumption DEF PaginationAssumption
<1>3. Len(given) \in Nat /\ (limits.maxItems # 0 => Len(given) < limits.maxItems)
  BY DEF WithinLimits
<1> QED
  BY <1>1, <1>2, <1>3 DEF Capped, Lesser

\* A request asks for the page after those handed out, or for the last one again.
LEMMA SendStep ==
  ASSUME ReadInv, Bounded, Send PROVE PhaseInv'
<1> DEFINE s == sent + 1
<1>1. /\ listing \in Listings /\ limits \in Limits /\ SendInv
      /\ WithinLimits /\ MaySend /\ sent \in Nat /\ given \in Seq(Nat) /\ request \in Nat
      /\ \A i \in 1..Len(given) : given[i] = i
  BY DEF ReadInv, PhaseInv, Send
<1>2. /\ phase' = "give" /\ sent' = s /\ taken' = 0 /\ fresh' = 0
      /\ listing' = listing /\ limits' = limits /\ request' = request /\ given' = given
  BY DEF Send
<1>3. /\ TotalPages \in Nat /\ FirstPages(sent) \in Nat
      /\ sent >= TotalPages => FirstPages(sent) = listing.length
  BY <1>1, PagesReach
<1>4. s \in Nat /\ s >= 1 /\ s - 1 = sent /\ sent <= TotalPages /\ Len(given) = FirstPages(sent)
  BY <1>1 DEF SendInv
<1>5. request = IF listing.kind = "numbered" THEN s ELSE FirstPages(s - 1)
  BY <1>1, <1>4 DEF SendInv
<1>6. Told => s = 1 \/ s <= TotalPages
  BY <1>1, <1>3 DEF SendInv
<1>7. WithinLimits'
  BY <1>1, <1>2, PaginationAssumption DEF WithinLimits, MaySend, PaginationAssumption
<1> HIDE DEF s
<1>8. CASE listing.clamps => s <= TotalPages
  <2>1. PageLength \in Nat
    BY <1>1, <1>4, <1>5, <1>8, PageIsNext
  <2>2. NewPage'
    BY <1>2, <1>3, <1>4, <1>5, <1>8, PageStays DEF NewPage
  <2>3. GiveInv'
    BY <1>2, <1>4, <1>6, <2>1, <2>2, PageStays DEF GiveInv
  <2> QED
    BY <1>1, <1>2, <1>4, <1>7, <2>3 DEF PhaseInv
<1>9. CASE listing.clamps /\ ~(s <= TotalPages)
  <2>1. listing.kind = "numbered" /\ listing.length # 0 /\ listing.length \in Nat
    BY <1>1, <1>9, PaginationAssumption DEF PaginationAssumption
  <2>2. request = s /\ request > TotalPages
    BY <1>3, <1>4, <1>5, <1>9, <2>1
  <2>3. PageLength \in Nat
    BY <1>1, <1>9, <2>2, PageIsLast
  <2>4. FirstPages(0) = 0 /\ (0 >= TotalPages => FirstPages(0) = listing.length)
    BY <1>1, PagesReach
  <2>5. TotalPages # 0 /\ s # 1
    BY <1>3, <1>4, <1>9, <2>1, <2>4
  <2>6. limits.keyed
    BY <1>6, <1>9, <2>5 DEF Bounded, Told
  <2>7. Len(given) = listing.length
    BY <1>3, <1>4, <1>9
  <2>8. SamePage'
    BY <1>2, <1>3, <1>4, <1>9, <2>2, <2>6, <2>7, PageStays DEF SamePage
  <2>9. GiveInv'
    BY <1>2, <1>4, <1>6, <2>3, <2>8, PageStays DEF GiveInv
  <2> QED
    BY <1>1, <1>2, <1>4, <1>7, <2>9 DEF PhaseInv
<1> QED
  BY <1>8, <1>9

\* At the limit of pages the pages asked for were all handed out.
LEMMA EnoughStep ==
  ASSUME ReadInv, Bounded, EnoughPages PROVE PhaseInv'
<1>1. /\ listing \in Listings /\ limits \in Limits /\ SendInv
      /\ WithinLimits /\ ~MaySend /\ sent \in Nat /\ given \in Seq(Nat)
      /\ \A i \in 1..Len(given) : given[i] = i
      /\ {request, taken, fresh, sent} \subseteq Nat
  BY DEF ReadInv, PhaseInv, EnoughPages
<1>2. /\ phase' = "over"
      /\ UNCHANGED <<listing, limits, request, taken, fresh, given, sent>>
  BY DEF EnoughPages
<1>3. limits.maxPages = sent /\ sent # 0
  BY <1>1, PaginationAssumption DEF MaySend, WithinLimits, PaginationAssumption
<1>4. /\ TotalPages \in Nat /\ FirstPages(sent) \in Nat /\ sent * listing.size \in Nat
      /\ listing.length \in Nat /\ FirstPages(sent) <= listing.length
      /\ FirstPages(sent) <= sent * listing.size
      /\ FirstPages(sent) = sent * listing.size \/ FirstPages(sent) = listing.length
  <2>1. FirstPages(sent) = sent * listing.size \/ FirstPages(sent) = listing.length
    BY DEF FirstPages
  <2> QED
    BY <1>1, <2>1, PagesReach
<1>5. Len(given) = FirstPages(sent) /\ sent <= TotalPages /\ Len(given) \in Nat
  BY <1>1 DEF SendInv
<1>6. Len(given) = Wanted
  <2> DEFINE a == sent * listing.size
             b == listing.length
             i == limits.maxItems
  <2>1. i \in Nat /\ (i # 0 => Len(given) < i)
    BY <1>1, PaginationAssumption DEF WithinLimits, PaginationAssumption
  <2>2. a # 0
    BY <1>1, <1>3, PaginationAssumption DEF PaginationAssumption
  <2>3. Wanted = Capped(Capped(b, i), a)
    BY <1>3 DEF Wanted
  <2>4. Len(given) <= b /\ Len(given) <= a /\ (Len(given) = a \/ Len(given) = b)
        /\ a \in Nat /\ b \in Nat
    BY <1>4, <1>5
  <2> HIDE DEF a, b, i
  <2> QED
    BY <1>5, <2>1, <2>2, <2>3, <2>4 DEF Capped, Lesser
<1>7. OverInv
  BY <1>1, <1>4, <1>5, <1>6 DEF OverInv, SendInv
<1>8. OverInv'
  BY <1>2, <1>7, PageStays DEF OverInv
<1> QED
  BY <1>1, <1>2, <1>8 DEF PhaseInv

\* Only an element of the last page, sent again, is passed over.
LEMMA SkipStep ==
  ASSUME ReadInv, Bounded, Skip PROVE PhaseInv'
<1>1. /\ listing \in Listings /\ limits \in Limits /\ GiveInv
      /\ WithinLimits /\ sent \in Nat /\ given \in Seq(Nat) /\ taken \in Nat
      /\ \A i \in 1..Len(given) : given[i] = i
      /\ {request, taken, fresh, sent} \subseteq Nat
      /\ taken < PageLength /\ Seen
  BY DEF ReadInv, PhaseInv, Skip
<1>2. /\ phase' = "give" /\ taken' = taken + 1
      /\ UNCHANGED <<listing, limits, request, fresh, given, sent>>
  BY DEF Skip
<1>3. TotalPages \in Nat
  BY <1>1, PagesReach
<1>4. CASE NewPage
  <2>1. /\ sent - 1 < TotalPages => PageStart = FirstPages(sent - 1)
        /\ sent - 1 = TotalPages => PageLength = 0
    BY <1>1, <1>4, PageIsNext DEF NewPage, GiveInv
  <2>2. PageStart = FirstPages(sent - 1)
    BY <1>1, <1>3, <2>1 DEF GiveInv
  <2>3. Item = Len(given) + 1
    BY <1>4, <2>2 DEF Item, NewPage
  <2>4. \A x \in ToSet(given) : x <= Len(given)
    BY <1>1 DEF ToSet
  <2> QED
    BY <1>1, <2>3, <2>4 DEF Seen
<1>5. CASE SamePage
  <2>1. PageLength \in Nat
    BY <1>1, <1>3, <1>5, PageIsLast DEF SamePage
  <2>2. taken + 1 <= PageLength /\ taken + 1 \in Nat
    BY <1>1, <2>1
  <2>3. SamePage'
    BY <1>2, <1>5, PageStays DEF SamePage
  <2>4. GiveInv'
    BY <1>1, <1>2, <2>2, <2>3, PageStays DEF GiveInv
  <2>5. WithinLimits'
    BY <1>1, <1>2 DEF WithinLimits
  <2> QED
    BY <1>1, <1>2, <2>2, <2>4, <2>5 DEF PhaseInv
<1> QED
  BY <1>1, <1>4, <1>5 DEF GiveInv

\* An element handed out is the next one; of the last page, sent again, none is.
LEMMA GiveStep ==
  ASSUME ReadInv, Bounded, Give PROVE PhaseInv'
<1> DEFINE m == Len(given)
<1>1. /\ listing \in Listings /\ limits \in Limits /\ GiveInv
      /\ WithinLimits /\ sent \in Nat /\ given \in Seq(Nat) /\ taken \in Nat
      /\ \A i \in 1..m : given[i] = i
      /\ {request, taken, fresh, sent} \subseteq Nat
      /\ taken < PageLength /\ ~Seen
  BY DEF ReadInv, PhaseInv, Give
<1>2. /\ taken' = taken + 1 /\ fresh' = fresh + 1 /\ given' = Append(given, Item)
      /\ phase' = IF Len(given') = limits.maxItems THEN "over" ELSE "give"
      /\ UNCHANGED <<listing, limits, request, sent>>
  BY DEF Give
<1>3. TotalPages \in Nat /\ listing.length \in Nat /\ FirstPages(sent) \in Nat
      /\ FirstPages(sent) <= listing.length
  BY <1>1, PagesReach
<1>4. CASE SamePage
  <2>1. PageStart \in Nat /\ PageLength \in Nat /\ PageStart + PageLength <= listing.length
    BY <1>1, <1>3, <1>4, PageIsLast DEF SamePage
  <2>2. Item \in 1..m
    BY <1>1, <1>3, <1>4, <2>1 DEF Item, SamePage
  <2>3. Item \in DOMAIN given /\ given[Item] = Item
    BY <1>1, <2>2
  <2> QED
    BY <1>1, <1>4, <2>3 DEF Seen, SamePage, ToSet
<1>5. CASE NewPage
  <2>1. /\ sent - 1 < TotalPages => PageStart = FirstPages(sent - 1)
        /\ sent - 1 = TotalPages => PageLength = 0
        /\ PageLength \in Nat /\ PageLength = FirstPages(sent) - FirstPages(sent - 1)
    BY <1>1, <1>5, PageIsNext DEF NewPage, GiveInv
  <2>2. PageStart = FirstPages(sent - 1) /\ sent - 1 < TotalPages /\ FirstPages(sent - 1) \in Nat
    <3>1. sent - 1 \in Nat
      BY <1>1 DEF GiveInv
    <3>2. sent - 1 <= TotalPages /\ PageLength # 0
      BY <1>1, <2>1 DEF GiveInv
    <3>3. sent - 1 < TotalPages
      BY <1>3, <2>1, <3>1, <3>2
    <3>4. FirstPages(sent - 1) \in Nat
      BY <1>1, <3>1, PagesReach
    <3> QED
      BY <2>1, <3>3, <3>4
  <2>3. Item = m + 1 /\ m \in Nat
    BY <1>1, <1>5, <2>2 DEF Item, NewPage
  <2>4. /\ given' \in Seq(Nat) /\ Len(given') = m + 1
        /\ \A i \in 1..Len(given') : given'[i] = i
    BY <1>1, <1>2, <2>3
  <2>5. m + 1 <= FirstPages(sent)
    BY <1>1, <1>3, <1>5, <2>1, <2>2, <2>3 DEF NewPage
  <2>6. NewPage'
    <3>1. FirstPages(sent - 1)' = FirstPages(sent - 1)
      BY <1>1, <1>2, PageStays DEF GiveInv
    <3>2. m + 1 = FirstPages(sent - 1) + (taken + 1) /\ fresh + 1 = taken + 1
      BY <1>1, <1>5, <2>2, <2>3 DEF NewPage
    <3> HIDE DEF m
    <3> QED
      BY <1>2, <1>5, <2>4, <3>1, <3>2, PageStays DEF NewPage
  <2>7. taken + 1 <= PageLength /\ taken + 1 \in Nat /\ fresh + 1 \in Nat
    BY <1>1, <2>1
  <2>8. GiveInv'
    BY <1>1, <1>2, <2>6, <2>7, PageStays DEF GiveInv
  <2>9. CASE Len(given') = limits.maxItems
    <3>1. PICK a \in Nat :
            /\ Wanted = Capped(Capped(listing.length, limits.maxItems), a)
            /\ limits.maxPages # 0 => a # 0 /\ FirstPages(sent) <= a
            /\ limits.maxPages = 0 => a = 0
      BY <1>1, PagesAreWithin
    <3>2. limits.maxItems = m + 1 /\ m + 1 \in Nat /\ m + 1 # 0 /\ m + 1 <= listing.length
      BY <1>3, <2>3, <2>4, <2>5, <2>9
    <3>3. Wanted = m + 1
      BY <1>3, <2>5, <3>1, <3>2 DEF Capped, Lesser
    <3>4. OverInv'
      BY <1>1, <1>2, <1>3, <2>4, <3>3, PageStays DEF OverInv, GiveInv
    <3> QED
      BY <1>1, <1>2, <2>4, <2>7, <2>9, <3>4 DEF PhaseInv
  <2>10. CASE Len(given') # limits.maxItems
    <3>1. WithinLimits'
      BY <1>1, <1>2, <2>3, <2>4, <2>10, PaginationAssumption DEF WithinLimits, PaginationAssumption
    <3> QED
      BY <1>1, <1>2, <2>4, <2>7, <2>8, <2>10, <3>1 DEF PhaseInv
  <2> QED
    BY <2>9, <2>10
<1> QED
  BY <1>1, <1>4, <1>5 DEF GiveInv

\* After a page with something on it a strategy goes on behind it, or the list was read.
LEMMA StrategyGoesOn ==
  ASSUME listing \in Listings, sent \in Nat, sent >= 1, sent - 1 < TotalPages,
         request = IF listing.kind = "numbered" THEN sent ELSE FirstPages(sent - 1),
         fresh = PageLength
  PROVE  /\ NextChanges = Over => FirstPages(sent) = listing.length
         /\ NextChanges # Over =>
              /\ NextChanges = IF listing.kind = "numbered" THEN sent + 1 ELSE FirstPages(sent)
              /\ Told => sent < TotalPages
<1> DEFINE k == sent - 1
           n == listing.length
           p == listing.size
<1>1. k \in Nat /\ k + 1 = sent /\ k < TotalPages /\ listing.kind \in Kinds
  BY PaginationAssumption DEF PaginationAssumption
<1>2. /\ TotalPages \in Nat /\ n \in Nat /\ p \in Nat \ {0}
      /\ FirstPages(k) \in Nat /\ FirstPages(sent) \in Nat /\ FirstPages(sent) <= n
      /\ sent >= TotalPages => FirstPages(sent) = n
      /\ FirstPages(sent) = Lesser(p + FirstPages(k), n)
      /\ sent < TotalPages <=> p + FirstPages(k) < n
  BY <1>1, PagesReach
<1>3. sent <= TotalPages
  BY <1>1, <1>2
<1>4. /\ PageLength \in Nat /\ PageLength = FirstPages(sent) - FirstPages(k)
      /\ PageStart = FirstPages(k) /\ PageLength > 0
      /\ PageLength < p => sent = TotalPages
  <2>1. sent - 1 <= TotalPages
    BY <1>1, <1>2
  <2>2. /\ PageLength \in Nat /\ PageLength = FirstPages(sent) - FirstPages(sent - 1)
        /\ PageStart = FirstPages(sent - 1) /\ PageLength > 0
        /\ PageLength < listing.size => sent = TotalPages
    BY <1>3, <2>1, PageIsNext
  <2> QED
    BY <2>2
<1>5. IsShort => FirstPages(sent) = n /\ sent = TotalPages
  BY <1>2, <1>4 DEF IsShort
<1> HIDE DEF k, n, p
<1>6. CASE listing.kind = "numbered"
  <2>1. NextChanges = IF (listing.counted /\ sent >= TotalPages) \/ IsShort THEN Over ELSE sent + 1
    BY <1>4, <1>6 DEF NextChanges, NextNumbered
  <2>2. Told => listing.counted
    BY <1>6 DEF Told
  <2> QED
    BY <1>2, <1>5, <1>6, <2>1, <2>2 DEF Over, n
<1>7. CASE listing.kind = "offset"
  <2>1. request = FirstPages(k)
    BY <1>7 DEF k
  <2>2. request + PageLength = FirstPages(sent)
    BY <1>2, <1>4, <2>1
  <2>3. NextChanges = IF (listing.counted /\ FirstPages(sent) >= n) \/ IsShort
                      THEN Over ELSE FirstPages(sent)
    BY <1>4, <1>7, <2>2 DEF NextChanges, NextOffset, n
  <2>4. Told => listing.counted
    BY <1>7 DEF Told
  <2> QED
    BY <1>2, <1>5, <1>7, <2>3, <2>4 DEF Over, n
<1>8. CASE listing.kind = "cursor"
  <2>1. NextChanges = IF FirstPages(k) + p < n THEN FirstPages(k) + p ELSE Over
    BY <1>4, <1>8 DEF NextChanges, NextCursor, Token, n, p
  <2>2. FirstPages(k) + p \in Nat /\ FirstPages(k) + p = p + FirstPages(k)
    BY <1>2
  <2>3. CASE FirstPages(k) + p < n
    BY <1>2, <1>8, <2>1, <2>2, <2>3 DEF Over, Lesser, n
  <2>4. CASE ~(FirstPages(k) + p < n)
    BY <1>2, <2>1, <2>2, <2>4 DEF Over, n
  <2> QED
    BY <2>3, <2>4
<1> QED
  BY <1>1, <1>6, <1>7, <1>8 DEF Kinds

\* When the whole list was handed out, that is what was wanted.
LEMMA ListIsWanted ==
  ASSUME listing \in Listings, limits \in Limits, WithinLimits, sent \in Nat,
         given \in Seq(Nat), Len(given) = listing.length, FirstPages(sent) = listing.length
  PROVE  Len(given) = Wanted
<1>1. PICK a \in Nat :
        /\ Wanted = Capped(Capped(listing.length, limits.maxItems), a)
        /\ limits.maxPages # 0 => a # 0 /\ FirstPages(sent) <= a
        /\ limits.maxPages = 0 => a = 0
  BY PagesAreWithin
<1>2. limits.maxItems \in Nat /\ limits.maxPages \in Nat /\ listing.length \in Nat
  BY PaginationAssumption DEF PaginationAssumption
<1>3. limits.maxItems # 0 => listing.length < limits.maxItems
  BY DEF WithinLimits
<1> QED
  BY <1>1, <1>2, <1>3 DEF Capped, Lesser

\* The strategy is asked after the last element of a page.
LEMMA TurnStep ==
  ASSUME ReadInv, Bounded, Turn PROVE PhaseInv'
<1>1. /\ listing \in Listings /\ limits \in Limits /\ GiveInv
      /\ WithinLimits /\ sent \in Nat /\ given \in Seq(Nat)
      /\ \A i \in 1..Len(given) : given[i] = i
      /\ {request, taken, fresh, sent} \subseteq Nat
      /\ taken = PageLength
  BY DEF ReadInv, PhaseInv, Turn
<1>2. UNCHANGED <<listing, limits, taken, fresh, given, sent>>
  BY DEF Turn
<1>3. /\ TotalPages \in Nat /\ listing.length \in Nat /\ FirstPages(sent) \in Nat
      /\ sent >= TotalPages => FirstPages(sent) = listing.length
  BY <1>1, PagesReach
<1>4. /\ NextChanges = Over => phase' = "over" /\ request' = request
      /\ NextChanges # Over => phase' = "send" /\ request' = NextChanges
  BY DEF Turn
<1>5. ASSUME NextChanges = Over, Len(given) = listing.length, FirstPages(sent) = listing.length
      PROVE  PhaseInv'
  <2>1. Len(given) = Wanted
    BY <1>1, <1>5, ListIsWanted
  <2>2. OverInv
    BY <1>1, <1>3, <2>1 DEF OverInv, GiveInv
  <2>3. OverInv'
    BY <1>2, <2>2, PageStays DEF OverInv
  <2> QED
    BY <1>1, <1>2, <1>4, <1>5, <2>3 DEF PhaseInv
<1>6. fresh = 0 => NextChanges = Over
  BY DEF NextChanges
<1>7. CASE SamePage
  <2>1. Len(given) = listing.length /\ FirstPages(sent) = listing.length /\ fresh = 0
    BY <1>1, <1>3, <1>7 DEF SamePage
  <2> QED
    BY <1>5, <1>6, <2>1
<1>8. CASE NewPage
  <2>1. /\ sent >= 1 /\ sent - 1 <= TotalPages /\ sent - 1 \in Nat
        /\ FirstPages(sent - 1) \in Nat
        /\ PageLength \in Nat /\ PageLength = FirstPages(sent) - FirstPages(sent - 1)
        /\ sent - 1 = TotalPages => PageLength = 0
    <3>1. sent >= 1 /\ sent - 1 <= TotalPages /\ sent - 1 \in Nat
      BY <1>1 DEF GiveInv
    <3>2. FirstPages(sent - 1) \in Nat
      BY <1>1, <3>1, PagesReach
    <3> QED
      BY <1>1, <1>8, <3>1, <3>2, PageIsNext DEF NewPage
  <2>2. Len(given) = FirstPages(sent) /\ fresh = PageLength
    BY <1>1, <1>3, <1>8, <2>1 DEF NewPage
  <2>3. CASE sent - 1 = TotalPages
    <3>1. fresh = 0
      BY <2>1, <2>2, <2>3
    <3>2. sent >= TotalPages
      BY <1>1, <1>3, <2>3
    <3> QED
      BY <1>3, <1>5, <1>6, <2>2, <3>1, <3>2
  <2>4. CASE sent - 1 < TotalPages
    <3>1. /\ NextChanges = Over => FirstPages(sent) = listing.length
          /\ NextChanges # Over =>
               /\ NextChanges = IF listing.kind = "numbered" THEN sent + 1 ELSE FirstPages(sent)
               /\ Told => sent < TotalPages
      BY <1>1, <1>8, <2>1, <2>2, <2>4, StrategyGoesOn DEF NewPage
    <3>2. CASE NextChanges = Over
      BY <1>5, <2>2, <3>1, <3>2
    <3>3. CASE NextChanges # Over
      <4>1. phase' = "send" /\ request' = NextChanges /\ NextChanges \in Nat
        BY <1>1, <1>3, <1>4, <3>1, <3>3
      <4>2. FirstPages(sent)' = FirstPages(sent) /\ TotalPages' = TotalPages /\ Told' = Told
        BY <1>1, <1>2, PageStays
      <4>3. SendInv'
        <5>1. sent <= TotalPages
          BY <1>1, <1>3, <2>4
        <5>2. sent' = sent /\ Len(given') = Len(given) /\ listing' = listing
          BY <1>2
        <5> QED
          BY <2>2, <3>1, <3>3, <4>1, <4>2, <5>1, <5>2 DEF SendInv
      <4>4. WithinLimits'
        BY <1>1, <1>2 DEF WithinLimits
      <4> QED
        BY <1>1, <1>2, <4>1, <4>3, <4>4 DEF PhaseInv
    <3> QED
      BY <3>2, <3>3
  <2> QED
    BY <1>3, <2>1, <2>3, <2>4
<1> QED
  BY <1>1, <1>7, <1>8 DEF GiveInv

\* Reading begins before the first page.
LEMMA ReadStart == ReadInit => ReadInv
<1> SUFFICES ASSUME NEW l \in Listings, NEW a \in Limits, ReadingBegins(l, a)
             PROVE  ReadInv
  BY DEF ReadInit
<1>1. /\ listing \in Listings /\ limits \in Limits /\ phase = "send"
      /\ request = IF listing.kind = "numbered" THEN 1 ELSE 0
      /\ taken = 0 /\ fresh = 0 /\ given = <<>> /\ sent = 0
  BY DEF ReadingBegins
<1>2. TotalPages \in Nat /\ FirstPages(0) = 0
  BY <1>1, PagesReach
<1>3. SendInv
  BY <1>1, <1>2 DEF SendInv
<1>4. WithinLimits
  BY <1>1, PaginationAssumption DEF WithinLimits, PaginationAssumption
<1> QED
  BY <1>1, <1>3, <1>4 DEF ReadInv, PhaseInv

\* Every step of the reading keeps what holds in its phase.
LEMMA ReadStep == ReadInv /\ [ReadNext]_readVars => ReadInv'
<1> SUFFICES ASSUME ReadInv, [ReadNext]_readVars PROVE ReadInv'
  OBVIOUS
<1>1. listing' = listing /\ limits' = limits
  BY DEF ReadNext, readVars, Send, EnoughPages, Skip, Give, Turn
<1>2. Bounded' = Bounded
  BY <1>1, PageStays
<1>3. ASSUME Bounded PROVE PhaseInv'
  <2>1. CASE UNCHANGED readVars
    <3>1. PhaseInv
      BY <1>3 DEF ReadInv
    <3>2. /\ sent \in Nat /\ request' = request /\ sent' = sent /\ phase' = phase
          /\ taken' = taken /\ fresh' = fresh /\ given' = given
      BY <2>1, <3>1 DEF readVars, PhaseInv
    <3>3. /\ TotalPages' = TotalPages /\ Told' = Told /\ Wanted' = Wanted
          /\ PageLength' = PageLength /\ FirstPages(sent)' = FirstPages(sent)
      BY <1>1, <3>2, PageStays
    <3>4. phase = "send" => SendInv' /\ WithinLimits'
      BY <1>1, <3>1, <3>2, <3>3 DEF PhaseInv, SendInv, WithinLimits
    <3>5. phase = "give" => GiveInv' /\ WithinLimits'
      <4> SUFFICES ASSUME phase = "give" PROVE GiveInv' /\ WithinLimits'
        OBVIOUS
      <4>1. GiveInv /\ WithinLimits
        BY <3>1 DEF PhaseInv
      <4>2. FirstPages(sent - 1)' = FirstPages(sent - 1)
        BY <1>1, <3>2, <4>1, PageStays DEF GiveInv
      <4>3. NewPage => NewPage'
        BY <1>1, <3>2, <3>3, <4>2 DEF NewPage
      <4>4. SamePage => SamePage'
        BY <1>1, <3>2, <3>3 DEF SamePage
      <4> QED
        BY <1>1, <3>2, <3>3, <4>1, <4>3, <4>4 DEF GiveInv, WithinLimits
    <3>6. phase = "over" => OverInv'
      BY <3>1, <3>2, <3>3 DEF PhaseInv, OverInv
    <3> QED
      BY <3>1, <3>2, <3>4, <3>5, <3>6 DEF PhaseInv
  <2>2. CASE ReadNext
    BY <1>3, <2>2, SendStep, EnoughStep, SkipStep, GiveStep, TurnStep DEF ReadNext
  <2> QED
    BY <2>1, <2>2
<1> QED
  BY <1>1, <1>2, <1>3 DEF ReadInv

\* In every phase of it the reading handed out the first elements, and no more than wanted.
LEMMA ReadIsRight == ReadInv => EveryItemOnce
<1> SUFFICES ASSUME ReadInv, Bounded
             PROVE  /\ \A i \in DOMAIN given : given[i] = i
                    /\ Len(given) <= Wanted
                    /\ phase = "over" => Len(given) = Wanted
                    /\ sent <= TotalPages + 1
                    /\ Told => sent <= TotalPages \/ sent = 1
  BY DEF EveryItemOnce
<1>1. /\ listing \in Listings /\ limits \in Limits /\ PhaseInv
      /\ given \in Seq(Nat) /\ sent \in Nat /\ Len(given) \in Nat
  BY DEF ReadInv, PhaseInv
<1>2. /\ TotalPages \in Nat /\ listing.length \in Nat
      /\ FirstPages(sent) \in Nat
      /\ sent >= TotalPages => FirstPages(sent) = listing.length
  BY <1>1, PagesReach
<1>3. \A i \in DOMAIN given : given[i] = i
  BY <1>1 DEF PhaseInv
<1>4. CASE phase = "send"
  <2>1. SendInv /\ WithinLimits
    BY <1>1, <1>4 DEF PhaseInv
  <2>2. Len(given) <= Wanted
    BY <1>1, <1>2, <2>1, LimitsAreKept DEF SendInv
  <2> QED
    BY <1>1, <1>2, <1>3, <1>4, <2>1, <2>2 DEF SendInv
<1>5. CASE phase = "give"
  <2>1. GiveInv /\ WithinLimits
    BY <1>1, <1>5 DEF PhaseInv
  <2>2. Len(given) <= FirstPages(sent)
    <3>1. CASE SamePage
      BY <1>1, <1>2, <3>1 DEF SamePage
    <3>2. CASE NewPage
      <4>1. sent - 1 \in Nat /\ sent >= 1 /\ sent - 1 <= TotalPages
        BY <1>1, <2>1 DEF GiveInv
      <4>2. FirstPages(sent - 1) \in Nat
        BY <1>1, <4>1, PagesReach
      <4>3. PageLength \in Nat /\ PageLength = FirstPages(sent) - FirstPages(sent - 1)
        BY <1>1, <3>2, <4>1, PageIsNext DEF NewPage
      <4>4. taken \in Nat /\ taken <= PageLength
        BY <1>1, <2>1 DEF PhaseInv, GiveInv
      <4>5. Len(given) = FirstPages(sent - 1) + taken
        BY <3>2 DEF NewPage
      <4> QED
        BY <1>2, <4>2, <4>3, <4>4, <4>5
    <3> QED
      BY <2>1, <3>1, <3>2 DEF GiveInv
  <2>3. Len(given) <= Wanted
    BY <1>1, <2>1, <2>2, LimitsAreKept
  <2> QED
    BY <1>1, <1>2, <1>3, <1>5, <2>1, <2>3 DEF GiveInv
<1>6. CASE phase = "over"
  BY <1>1, <1>2, <1>3, <1>6 DEF PhaseInv, OverInv
<1> QED
  BY <1>1, <1>4, <1>5, <1>6 DEF PhaseInv

(* Every listing, strategy and limit: the elements are handed out in order, *)
(* every one once, to the end or to the caller's limit, and no request goes *)
(* past the end a strategy was told of (items and next_changes).            *)
THEOREM ItemsAreGivenOnce == ReadSpec => []EveryItemOnce
<1>1. ReadInit => ReadInv
  BY ReadStart
<1>2. ReadInv /\ [ReadNext]_readVars => ReadInv'
  BY ReadStep
<1>3. ReadInv => EveryItemOnce
  BY ReadIsRight
<1> QED
  BY <1>1, <1>2, <1>3, PTL DEF ReadSpec
==============================================================================
