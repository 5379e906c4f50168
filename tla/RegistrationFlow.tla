--------------------------- MODULE RegistrationFlow ---------------------------
(***************************************************************************)
(* Account registration (plugins/accounts, with the SQL store of           *)
(* plugins/sqlmodel): flows of several processes create, verify, resend    *)
(* and resume accounts of one remote service.  A row is written before the *)
(* remote effect and after it; every write is a transaction of its own     *)
(* that checks the revision of the row.                                    *)
(*                                                                         *)
(* A challenge is the number under which the server issued it.  An action  *)
(* is what one call does between two awaits, a transaction, or what the    *)
(* server does with a request.                                             *)
(***************************************************************************)
EXTENDS Integers, FiniteSets

CONSTANTS
  Accounts,       \* identifiers
  Uses,           \* Uses[a]: the resources, exclusive, of a registration
  Resources,
  Processes,
  Calls,
  ProcessOf,      \* the process, with one RegistrationFlow, of a call
  Targets,        \* Targets[c]: the accounts a call may be about
  Provided,       \* challenges whose kind has a verification provider
  MaxSteps,       \* max_verification_steps
  MaxChallenges   \* bound on the challenges, for TLC

ASSUME RegistrationAssumption ==
  /\ Accounts # {}
  /\ Uses \in [Accounts -> SUBSET Resources]
  /\ ProcessOf \in [Calls -> Processes]
  /\ Targets \in [Calls -> SUBSET Accounts]
  /\ MaxSteps \in Nat \ {0}
  /\ MaxChallenges \in Nat

VARIABLES
  row,          \* per account: status, revision, challenge (or 0), and links,
                \* the resources it has reserved
  created,      \* accounts the server has made of an identifier
  asked,        \* the challenge the server waits for, or 0
  issued,       \* challenges issued
  pc,           \* where a call is suspended
  call,         \* the operation, its account and what the call knows of it
  outcome,      \* what the call has returned
  misreported   \* history: creates that failed after the server had acted

server == <<created, asked, issued>>
vars == <<row, server, pc, call, outcome, misreported>>

Blank(c) ==
  [op |-> "none", account |-> CHOOSE a \in Accounts : TRUE, status |-> "none",
   revision |-> 0, challenge |-> 0, next |-> 0, steps |-> 0, seen |-> {}]

Init ==
  /\ row = [a \in Accounts |->
              [status |-> "none", revision |-> 0, challenge |-> 0, links |-> {}]]
  /\ created = [a \in Accounts |-> 0]
  /\ asked = [a \in Accounts |-> 0]
  /\ issued = 0
  /\ pc = [c \in Calls |-> "idle"]
  /\ call = [c \in Calls |-> Blank(c)]
  /\ outcome = [c \in Calls |-> "none"]
  /\ misreported = {}
------------------------------------------------------------------------------
My(c) == call[c].account

Goto(c, step, state) ==
  /\ pc' = [pc EXCEPT ![c] = step] /\ call' = [call EXCEPT ![c] = state]
  /\ UNCHANGED outcome

Return(c, result, state) ==
  /\ pc' = [pc EXCEPT ![c] = "done"]
  /\ call' = [call EXCEPT ![c] = [Blank(c) EXCEPT !.op = state.op, !.status = state.status]]
  /\ outcome' = [outcome EXCEPT ![c] = result]

Raise(c) == Return(c, "raised", Blank(c))

\* What a store method returns of a row.
Knowing(state, stored) ==
  [state EXCEPT !.status = stored.status, !.revision = stored.revision,
                !.challenge = stored.challenge]

\* _outcome_from_account, and what follows a commit: automatic verification
\* while there is a challenge, the session otherwise.
Continue(c, state) ==
  Goto(c, IF state.challenge = 0 THEN "complete" ELSE "pending", state)

Start(c, op, step, a) ==
  /\ pc[c] = "idle" /\ a \in Targets[c]
  /\ Goto(c, step, [Blank(c) EXCEPT !.op = op, !.account = a])
  /\ UNCHANGED <<row, server, misreported>>

Store(c, step) == pc[c] = step /\ UNCHANGED <<server, misreported>>

(***************************************************************************)
(* create                                                                  *)
(***************************************************************************)
StartCreate(c, a) == Start(c, "create", "lock", a)

\* A fault: a create that has returned keeps the lock.
CreatingOrDone == {"load", "begin", "create", "created", "record", "fail", "unsure",
                   "pending", "resolve", "verify", "verified", "complete", "done"}

Creating == {"load", "begin", "create", "created", "record", "fail", "unsure",
             "pending", "resolve", "verify", "verified", "complete"}

\* One lock per process and identifier, held to the end of create.
Acquire(c) ==
  /\ pc[c] = "lock"
  /\ \A d \in Calls : ~ /\ ProcessOf[d] = ProcessOf[c] /\ My(d) = My(c)
                        /\ call[d].op = "create" /\ pc[d] \in Creating
  /\ Goto(c, "load", call[c])
  /\ UNCHANGED <<row, server, misreported>>

\* Accounts whose remote outcome is open: create refuses to touch them.
Undecided == {"provisioning", "reconciliation"}

LoadAccount(c) ==
  /\ Store(c, "load") /\ UNCHANGED row
  /\ LET stored == row[My(c)] IN
       IF stored.status \in {"none", "failed"} THEN Goto(c, "begin", call[c])
       ELSE IF stored.status \in Undecided THEN Raise(c)
       ELSE Continue(c, Knowing(call[c], stored))

\* A fault: begin_registration relies on what create has loaded before.
MayBeginAnyway(a) == TRUE

\* The row is new or failed, and nobody else holds the resources.
MayBegin(a) ==
  /\ row[a].status \in {"none", "failed"}
  /\ \A b \in Accounts \ {a} : Uses[a] \cap row[b].links = {}

BeginRegistration(c) ==
  /\ Store(c, "begin")
  /\ LET a == My(c)
         begun == [row[a] EXCEPT
           !.status = "provisioning", !.links = Uses[a], !.challenge = 0,
           !.revision = IF row[a].status = "none" THEN 0 ELSE @ + 1]
     IN IF MayBegin(a)
        THEN row' = [row EXCEPT ![a] = begun] /\ Goto(c, "create", Knowing(call[c], begun))
        ELSE Raise(c) /\ UNCHANGED row

\* The server makes the account, with or without a challenge.
ServerCreates(c, challenge) ==
  /\ pc[c] = "create"
  /\ challenge \in {0, issued + 1} /\ challenge <= MaxChallenges
  /\ issued' = IF challenge = 0 THEN issued ELSE challenge
  /\ created' = [created EXCEPT ![My(c)] = @ + 1]
  /\ asked' = [asked EXCEPT ![My(c)] = challenge]
  /\ Goto(c, "created", [call[c] EXCEPT !.next = challenge])
  /\ UNCHANGED <<row, misreported>>

CreateReturns(c) == Store(c, "created") /\ Goto(c, "record", call[c]) /\ UNCHANGED row

\* The service raises, or the call is cancelled or late, before or after the
\* server has acted: create compensates.
CreateRaises(c) ==
  /\ pc[c] \in {"create", "created"}
  /\ misreported' = IF pc[c] = "created" THEN misreported \cup {My(c)} ELSE misreported
  /\ Goto(c, "fail", call[c])
  /\ UNCHANGED <<row, server>>

\* RegistrationOutcomeUnknownError.
CreateUnknown(c) ==
  /\ pc[c] \in {"create", "created"}
  /\ Goto(c, "unsure", call[c])
  /\ UNCHANGED <<row, server, misreported>>

\* A transaction over a row the call knows: the revision must be the same.
Update(c, stored) ==
  row' = [row EXCEPT ![My(c)] = [stored EXCEPT !.revision = @ + 1]]

Current(c) == row[My(c)].revision = call[c].revision

RecordRemoteCreated(c) ==
  /\ Store(c, "record")
  /\ IF Current(c) /\ row[My(c)].status = "provisioning"
     THEN /\ Update(c, [row[My(c)] EXCEPT
               !.status = IF call[c].next = 0 THEN "active" ELSE "pending",
               !.challenge = call[c].next])
          /\ Continue(c, Knowing(call[c], row'[My(c)]))
     ELSE Raise(c) /\ UNCHANGED row

RecordRegistrationFailed(c) ==
  /\ Store(c, "fail") /\ Raise(c)
  /\ IF Current(c) THEN Update(c, [row[My(c)] EXCEPT !.status = "failed", !.links = {}])
     ELSE UNCHANGED row

RecordRegistrationUncertain(c) ==
  /\ Store(c, "unsure") /\ Raise(c)
  /\ IF Current(c) THEN Update(c, [row[My(c)] EXCEPT !.status = "reconciliation"])
     ELSE UNCHANGED row

(***************************************************************************)
(* verify and automatic verification                                       *)
(***************************************************************************)

\* The application verifies what load_pending has given it; the handle grows
\* old while the call is under way.
StartVerify(c, a) ==
  /\ row[a].challenge # 0
  /\ pc[c] = "idle" /\ a \in Targets[c]
  /\ Goto(c, "verify", Knowing([Blank(c) EXCEPT !.op = "verify", !.account = a], row[a]))
  /\ UNCHANGED <<row, server, misreported>>

\* _continue_automatically: the next challenge is left to the application, or
\* it is a cycle or one too many, or its provider resolves it.
Proceed(c) ==
  /\ Store(c, "pending") /\ UNCHANGED row
  /\ IF call[c].challenge \notin Provided THEN Return(c, "pending", call[c])
     ELSE IF call[c].challenge \in call[c].seen \/ call[c].steps >= MaxSteps THEN Raise(c)
     ELSE Goto(c, "resolve", [call[c] EXCEPT !.seen = @ \cup {call[c].challenge}])

Resolve(c) == Store(c, "resolve") /\ Goto(c, "verify", call[c]) /\ UNCHANGED row

\* The server accepts the proof of the challenge it waits for, and may ask for
\* another one or, misbehaving, for the same again.
ServerVerifies(c, challenge) ==
  /\ pc[c] = "verify" /\ asked[My(c)] = call[c].challenge
  /\ challenge \in {0, asked[My(c)], issued + 1} /\ challenge <= MaxChallenges
  /\ issued' = IF challenge > issued THEN challenge ELSE issued
  /\ asked' = [asked EXCEPT ![My(c)] = challenge]
  /\ Goto(c, "verified", [call[c] EXCEPT !.next = challenge])
  /\ UNCHANGED <<row, created, misreported>>

VerifyRefused(c) ==
  /\ Store(c, "verify") /\ asked[My(c)] # call[c].challenge
  /\ Raise(c) /\ UNCHANGED row

\* A fault: a commit does not look at what the row has become.
UnchangedNever(c) == TRUE

\* The row still has the revision and the challenge the call started from.
Unchanged(c) == Current(c) /\ row[My(c)].challenge = call[c].challenge

CommitVerification(c) ==
  /\ Store(c, "verified")
  /\ IF Unchanged(c)
     THEN /\ Update(c, [row[My(c)] EXCEPT
               !.status = IF call[c].next = 0 THEN "active" ELSE "pending",
               !.challenge = call[c].next])
          /\ Continue(c, [Knowing(call[c], row'[My(c)]) EXCEPT
               !.steps = @ + 1, !.seen = @ \cup {call[c].challenge}])
     ELSE Raise(c) /\ UNCHANGED row

\* The session of the account, if any, is adopted.
Complete(c) == Store(c, "complete") /\ Return(c, "complete", call[c]) /\ UNCHANGED row

(***************************************************************************)
(* resend and resume                                                       *)
(***************************************************************************)
StartResend(c, a) ==
  /\ row[a].challenge # 0
  /\ pc[c] = "idle" /\ a \in Targets[c]
  /\ Goto(c, "resend", Knowing([Blank(c) EXCEPT !.op = "resend", !.account = a], row[a]))
  /\ UNCHANGED <<row, server, misreported>>

\* The server replaces whatever challenge it waits for.
ServerResends(c) ==
  /\ pc[c] = "resend" /\ asked[My(c)] # 0 /\ issued < MaxChallenges
  /\ issued' = issued + 1
  /\ asked' = [asked EXCEPT ![My(c)] = issued']
  /\ Goto(c, "resent", [call[c] EXCEPT !.next = issued'])
  /\ UNCHANGED <<row, created, misreported>>

ResendRefused(c) ==
  /\ Store(c, "resend") /\ (asked[My(c)] = 0 \/ issued = MaxChallenges)
  /\ Raise(c) /\ UNCHANGED row

CommitResend(c) ==
  /\ Store(c, "resent")
  /\ IF Unchanged(c)
     THEN /\ Update(c, [row[My(c)] EXCEPT !.challenge = call[c].next])
          /\ Return(c, "pending", call[c])
     ELSE Raise(c) /\ UNCHANGED row

\* resume goes on from whatever the row holds, unless its outcome is unknown.
Resume(c, a) ==
  /\ pc[c] = "idle" /\ a \in Targets[c]
  /\ UNCHANGED <<row, server, misreported>>
  /\ IF row[a].status \in {"none", "reconciliation"} THEN Raise(c)
     ELSE Continue(c, Knowing([Blank(c) EXCEPT !.op = "resume", !.account = a], row[a]))

(***************************************************************************)
(* What can go wrong anywhere                                              *)
(***************************************************************************)

\* A transaction, a provider, the service or the session store raises, or the
\* call is cancelled or late; only a create in progress is compensated.
GiveUp(c) ==
  /\ pc[c] \notin {"idle", "done", "create", "created"}
  /\ Raise(c)
  /\ UNCHANGED <<row, server, misreported>>

\* A process dies with its calls; rows and the server's accounts stay.
Crash(p) ==
  /\ pc' = [c \in Calls |-> IF ProcessOf[c] = p /\ pc[c] # "idle" THEN "done" ELSE pc[c]]
  /\ call' = [c \in Calls |-> IF ProcessOf[c] = p /\ pc[c] \notin {"idle", "done"}
                              THEN Blank(c) ELSE call[c]]
  /\ UNCHANGED <<row, server, outcome, misreported>>
------------------------------------------------------------------------------
Begin(c) ==
  \E a \in Accounts : StartCreate(c, a) \/ StartVerify(c, a) \/ StartResend(c, a) \/ Resume(c, a)

Step(c) ==
  \/ Acquire(c) \/ LoadAccount(c) \/ BeginRegistration(c)
  \/ (\E challenge \in 0..MaxChallenges : ServerCreates(c, challenge))
  \/ CreateReturns(c) \/ CreateRaises(c) \/ CreateUnknown(c)
  \/ RecordRemoteCreated(c) \/ RecordRegistrationFailed(c) \/ RecordRegistrationUncertain(c)
  \/ Proceed(c) \/ Resolve(c)
  \/ (\E challenge \in 0..MaxChallenges : ServerVerifies(c, challenge))
  \/ VerifyRefused(c) \/ CommitVerification(c) \/ Complete(c)
  \/ ServerResends(c) \/ ResendRefused(c) \/ CommitResend(c)

Next ==
  \/ \E c \in Calls : Begin(c) \/ Step(c) \/ GiveUp(c)
  \/ \E p \in Processes : Crash(p)

Spec == Init /\ [][Next]_vars

\* The service, the store and the providers answer or raise.
FairSpec == Spec /\ \A c \in Calls : WF_vars(Step(c))
------------------------------------------------------------------------------
Statuses == {"none", "provisioning", "pending", "active", "failed", "reconciliation"}

Operations == {"none", "create", "verify", "resend", "resume"}

Steps == {"idle", "lock"} \cup CreatingOrDone \cup {"resend", "resent"}

TypeOK ==
  /\ row \in [Accounts -> [status : Statuses, revision : Nat, challenge : Nat,
                           links : SUBSET Resources]]
  /\ created \in [Accounts -> Nat] /\ asked \in [Accounts -> Nat] /\ issued \in Nat
  /\ pc \in [Calls -> Steps]
  /\ call \in [Calls -> [op : Operations, account : Accounts, status : Statuses,
                         revision : Nat, challenge : Nat, next : Nat, steps : Nat,
                         seen : SUBSET Nat]]
  /\ outcome \in [Calls -> {"none", "raised", "pending", "complete"}]
  /\ misreported \subseteq Accounts

\* Whatever processes race, crash or fail to write, the server makes a second
\* account of an identifier only if an earlier create was reported as failed
\* after the server had acted.
OneRemoteAccount == \A a \in Accounts : created[a] > 1 => a \in misreported

\* Attempts do not collide.  What the server answers to a create can be recorded:
\* while a call creates an account, the row is its own, as it has left it.  And a
\* resource belongs to one registration, from before its remote effect until it is
\* known to have failed, and to none after that.
RowsAreOwned ==
  \A c \in Calls : pc[c] \in {"create", "created", "record", "fail", "unsure"} =>
    /\ row[My(c)].status = "provisioning" /\ Current(c)
    /\ \A d \in Calls \ {c} :
         pc[d] \in {"create", "created", "record", "fail", "unsure"} => My(d) # My(c)

ResourcesAreReserved ==
  \A a \in Accounts :
    /\ row[a].links = IF row[a].status \in {"none", "failed"} THEN {} ELSE Uses[a]
    /\ \A b \in Accounts \ {a} : row[a].links \cap row[b].links = {}

AttemptsAreApart == RowsAreOwned /\ ResourcesAreReserved

\* Verifications and resends that overlap never bring back a challenge the
\* server issued before the one that is stored.
ChallengesAdvance ==
  [][\A a \in Accounts : row[a].challenge # 0 /\ row'[a].challenge # 0 =>
       row'[a].challenge >= row[a].challenge]_vars

\* A registration call that was started ends.
CallsReturn == \A c \in Calls : pc[c] # "idle" ~> pc[c] = "done"
==============================================================================
