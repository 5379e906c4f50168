--------------------------- MODULE PageOperation ---------------------------
(***************************************************************************)
(* One operation on a page of a browser (plugins/browser operations.py and *)
(* outcomes.py): readiness, interceptors, the action or the navigation,    *)
(* then rounds that look for a disturbance, a refusal, an outcome, until   *)
(* the deadline; on a page that changes between any two looks at it, and a *)
(* driver that collects the page's replies in a bounded buffer.            *)
(*                                                                         *)
(* The page shows a set of signs: "form" (the operation's condition at=),  *)
(* "banner" (a disturbance, with one interceptor), "denied" (a refusal     *)
(* rule) and "dialog" (with navigated(), the second outcome).  The first   *)
(* outcome is response.arrived(), built from the reply.                    *)
(***************************************************************************)
EXTENDS Naturals, Sequences, SequencesExt

CONSTANTS
  Once,        \* the interceptor is declared once=True
  Replies,     \* replies the page may receive: each [kind, size]
  Budget,      \* CapturePolicy.max_total_bytes
  MaxChanges   \* bound on changes of the page, for TLC

Signs == {"form", "banner", "denied", "dialog"}

\* kind "answer": to the address the operation reads; "other": to another one.
ASSUME PageAssumption ==
  /\ Once \in BOOLEAN /\ Budget \in Nat /\ MaxChanges \in Nat
  /\ \A r \in Replies : r.kind \in {"answer", "other"} /\ r.size \in Nat

VARIABLES
  pc,       \* where the operation is
  verb,     \* Browser.act or Browser.goto
  handled,  \* page.handled: the interceptor has done its work
  since,    \* the network watershed of the snapshot and of the card
  first,    \* the navigation watershed
  over,     \* the deadline of the current wait has passed
  page,     \* the signs on the page
  navs,     \* navigations of the main frame so far
  changes,  \* changes of the page so far (bounds the model)
  reading,  \* replies received whose body is being read, with the time received
  buffer,   \* the replies kept, oldest first
  seen,     \* replies ever added: the position of the next
  coming,   \* replies the page has not received yet
  steady,   \* history: signs on the page ever since the current round began
  answer    \* history: when the reply that built the outcome was received

operation == <<pc, verb, handled, since, first, over>>
network == <<reading, buffer, seen, coming>>
history == <<steady, answer>>
vars == <<pc, verb, handled, since, first, over, page, navs, changes, reading, buffer, seen,
          coming, steady, answer>>

Ended == {"outcome", "refused", "default", "not_ready", "missing", "broken"}

Init ==
  /\ pc = "start" /\ verb \in {"act", "goto"}
  /\ handled = FALSE /\ since = 0 /\ first = 0 /\ over = FALSE
  /\ page \in SUBSET Signs /\ navs = 0 /\ changes = 0
  /\ reading = {} /\ buffer = <<>> /\ seen = 0 /\ coming = Replies
  /\ steady = {} /\ answer = "none"
------------------------------------------------------------------------------
(***************************************************************************)
(* The driver: ResponseBuffer and the events that fill it                  *)
(***************************************************************************)

BytesOf(b) == FoldLeft(LAMBDA n, view : n + view.size, 0, b)

\* ResponseBuffer.add: over the budget the oldest go, but one always stays.
Evicted(b) ==
  LET From(i) == SubSeq(b, i, Len(b)) IN
  From(Min({i \in 1..Len(b) : BytesOf(From(i)) <= Budget} \cup {Len(b)}))

Add(view) == buffer' = Evicted(Append(buffer, view)) /\ seen' = seen + 1

\* A fault: a reply before the watershed will do.
FoundAnywhere == SelectLastInSeq(buffer, LAMBDA v : v.kind = "answer")

\* _find: the newest kept reply to the address, at or after the watershed.
Found == SelectLastInSeq(buffer, LAMBDA v : v.kind = "answer" /\ v.at >= since)

\* The page receives a reply; its body is read in a task of its own ...
Receive(r) ==
  /\ pc \notin Ended /\ r \in coming /\ coming' = coming \ {r}
  /\ reading' = reading \cup {[reply |-> r, got |-> IF pc = "start" THEN "before" ELSE "after"]}
  /\ UNCHANGED <<operation, page, navs, changes, buffer, seen, history>>

\* ... and then, in any order, it enters the buffer, or is lost with its body.
Store(x) ==
  /\ pc \notin Ended /\ x \in reading /\ reading' = reading \ {x}
  /\ \/ Add([kind |-> x.reply.kind, size |-> x.reply.size, at |-> seen,
             got |-> IF pc # "start" /\ x.got = "before" THEN "late" ELSE x.got])
     \/ UNCHANGED <<buffer, seen>>
  /\ UNCHANGED <<operation, page, navs, changes, coming, history>>

\* What stays of a history when the page changes; a navigation has been for good.
Kept == page' \cup {"navigated"}

\* The page changes by itself, in place or by a navigation.
Change ==
  /\ changes < MaxChanges /\ changes' = changes + 1 /\ pc \notin Ended
  /\ \/ page' \in SUBSET Signs /\ navs' = navs + 1
     \/ (\E s \in Signs : page' \in {page \cup {s}, page \ {s}}) /\ UNCHANGED navs
  /\ steady' = steady \cap Kept
  /\ UNCHANGED <<operation, network, answer>>
------------------------------------------------------------------------------
(***************************************************************************)
(* run                                                                     *)
(***************************************************************************)
Goto(step) == pc' = step

\* A round sees the page afresh.
Round == steady' = page \cup (IF navs > first THEN {"navigated"} ELSE {})

\* network_mark and navigation_mark, just before the action or the navigation.  The
\* readiness of an act operation is looked at first.
Watershed == since' = seen /\ first' = navs

\* _ensure_ready of Browser.act; find() waits for its element, then gives up.
Start ==
  /\ pc = "start"
  /\ \/ verb = "act" /\ "form" \in page /\ Goto("intercept") /\ Watershed
     \/ verb = "act" /\ "form" \notin page /\ Goto("explain") /\ UNCHANGED <<since, first>>
     \/ verb = "goto" /\ Goto("navigate") /\ Watershed
  /\ Round
  /\ UNCHANGED <<verb, handled, over, page, navs, changes, network, answer>>

\* Not ready: the refusal rules have the word before NotReadyError.
Explain ==
  /\ pc = "explain"
  /\ Goto(IF "denied" \in page THEN "refused" ELSE "not_ready")
  /\ UNCHANGED <<verb, handled, since, first, over, page, navs, changes, network, history>>

\* driver.goto opens the address, or raises TransportError.
Navigate ==
  /\ pc = "navigate"
  /\ \/ Goto("landed") /\ page' \in SUBSET (Signs \ {"banner"}) /\ navs' = navs + 1
     \/ Goto("broken") /\ UNCHANGED <<page, navs>>
  /\ steady' = {}
  /\ UNCHANGED <<verb, handled, since, first, over, changes, network, answer>>

\* Browser.goto looks at the refusal rules before the readiness.
Landed ==
  /\ pc = "landed"
  /\ Goto(IF "denied" \in page THEN "refused" ELSE "ready")
  /\ UNCHANGED <<verb, handled, since, first, over, page, navs, changes, network, history>>

Ready ==
  /\ pc = "ready"
  /\ Goto(IF "form" \in page THEN "intercept" ELSE "explain")
  /\ Round
  /\ UNCHANGED <<verb, handled, since, first, over, page, navs, changes, network, answer>>

\* Handle.apply finds its sign.
Meets == "banner" \in page /\ ~(Once /\ handled)

\* A fault: the interceptor forgets that it has worked.
InterceptForgetting(next, otherwise) ==
  IF Meets
  THEN /\ page' \in {page, page \ {"banner"}}
       /\ steady' = steady \cap Kept
       /\ Goto(next) /\ UNCHANGED handled
  ELSE Goto(otherwise) /\ UNCHANGED <<page, handled, steady>>

\* handle(): the interceptor's action removes the disturbance, or does not, or raises.
Intercept(next, otherwise) ==
  \/ /\ Meets
     /\ page' \in {page, page \ {"banner"}}
     /\ handled' = TRUE
     /\ steady' = steady \cap Kept
     /\ Goto(next)
  \/ Meets /\ Goto("broken") /\ UNCHANGED <<page, handled, steady>>
  \/ ~Meets /\ Goto(otherwise) /\ UNCHANGED <<page, handled, steady>>

\* Disturbances are removed before the action, or after the navigation.
Clear ==
  /\ pc = "intercept"
  /\ LET then == IF verb = "act" THEN "act" ELSE "settle" IN Intercept(then, then)
  /\ UNCHANGED <<verb, since, first, over, navs, changes, network, answer>>

\* The action changes the page in any way, or raises.
Act ==
  /\ pc = "act"
  /\ \/ Goto("settle") /\ page' \in SUBSET Signs /\ navs' \in {navs, navs + 1}
     \/ Goto("broken") /\ UNCHANGED <<page, navs>>
  /\ steady' = steady \cap Kept
  /\ UNCHANGED <<verb, handled, since, first, over, changes, network, answer>>
------------------------------------------------------------------------------
(***************************************************************************)
(* settle                                                                  *)
(***************************************************************************)

\* A fresh snapshot.
NextRound ==
  /\ pc = "settle" /\ Goto("disturbed") /\ Round
  /\ UNCHANGED <<verb, handled, since, first, over, page, navs, changes, network, answer>>

\* A disturbance removed begins the next round at once, without a look at the clock.
Disturbed ==
  /\ pc = "disturbed" /\ Intercept("settle", "rules")
  /\ UNCHANGED <<verb, since, first, over, navs, changes, network, answer>>

\* A fault: outcomes are looked for before the refusal rules.
EnforceLast ==
  /\ pc = "rules" /\ Goto("cases")
  /\ UNCHANGED <<verb, handled, since, first, over, page, navs, changes, network, history>>

Enforce ==
  /\ pc = "rules"
  /\ Goto(IF "denied" \in page THEN "refused" ELSE "cases")
  /\ UNCHANGED <<verb, handled, since, first, over, page, navs, changes, network, history>>

\* response.arrived: a reply to the address, after the watershed.
Arrived ==
  /\ pc = "cases"
  /\ Goto(IF Found # 0 THEN "value" ELSE "second")
  /\ UNCHANGED <<verb, handled, since, first, over, page, navs, changes, network, history>>

\* ApiValue.value: the reply is looked for again, and may have been evicted; it waits
\* for another to come.
Value ==
  /\ pc = "value"
  /\ \/ Found # 0 /\ Goto("outcome") /\ answer' = buffer[Found].got
     \/ Found = 0 /\ Goto("missing") /\ UNCHANGED answer
  /\ UNCHANGED <<verb, handled, since, first, over, page, navs, changes, network, steady>>

\* A fault: past the deadline the last round is cut short.
SecondOverdue ==
  /\ pc = "second"
  /\ Goto(IF over THEN "default"
          ELSE IF navs > first /\ "dialog" \in page THEN "outcome" ELSE "clock")
  /\ UNCHANGED <<verb, handled, since, first, over, page, navs, changes, network, history>>

\* navigated() & visible(dialog).
Second ==
  /\ pc = "second"
  /\ Goto(IF navs > first /\ "dialog" \in page THEN "outcome" ELSE "clock")
  /\ UNCHANGED <<verb, handled, since, first, over, page, navs, changes, network, history>>

\* After a whole round without an outcome the deadline is looked at.
Clock ==
  /\ pc = "clock"
  /\ Goto(IF over THEN "default" ELSE "settle")
  /\ UNCHANGED <<verb, handled, since, first, over, page, navs, changes, network, history>>

\* The deadline of the wait for an outcome passes.
Deadline ==
  /\ pc \in {"settle", "disturbed", "rules", "cases", "second", "clock"} /\ ~over
  /\ over' = TRUE
  /\ UNCHANGED <<pc, verb, handled, since, first, page, navs, changes, network, steady, answer>>

Step ==
  \/ Start \/ Explain \/ Navigate \/ Landed \/ Ready \/ Clear \/ Act
  \/ NextRound \/ Disturbed \/ Enforce \/ Arrived \/ Value \/ Second \/ Clock

Next ==
  \/ Step \/ Deadline \/ Change
  \/ \E r \in Replies : Receive(r)
  \/ \E x \in reading : Store(x)

\* The task runs and time passes; nothing is asked of the page.
Spec == Init /\ [][Next]_vars /\ WF_vars(Step) /\ WF_vars(Deadline)
------------------------------------------------------------------------------
(***************************************************************************)
(* Properties                                                              *)
(***************************************************************************)
\* An outcome is never announced over a refusal, nor over a disturbance nobody has tried
\* to remove, that was on the page during the whole round which found the outcome.
RefusalComesFirst ==
  pc = "outcome" => "denied" \notin steady /\ ("banner" \notin steady \/ handled)

\* The result "not found in time" comes after the deadline, and after a whole round: no
\* refusal and no outcome that stood on the page during the last round was overlooked.
DefaultIsRight ==
  pc = "default" =>
    over /\ "denied" \notin steady /\ ~({"navigated", "dialog"} \subseteq steady)

\* The outcome of an action is not built from a reply that lay in the buffer before it,
\* however the buffer was trimmed since.
OldRepliesAreNotRead == answer # "before"

\* An operation ends, with an outcome, a refusal or the default, whatever the page does.
OperationEnds == <>(pc \in Ended)
==============================================================================
