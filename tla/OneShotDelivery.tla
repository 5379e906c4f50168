--------------------------- MODULE OneShotDelivery ---------------------------
(***************************************************************************)
(* What a one-shot WebSocket operation (send or call) promises its caller, *)
(* whatever connections, queues and retries are used underneath:           *)
(*                                                                         *)
(*   - the operation's frame is handed to the socket at most once, unless  *)
(*     the caller supplied a deduplication proof;                          *)
(*   - the verdict reported to the caller is true of the frame: "notsent"  *)
(*     only for a frame that was never handed over, "ok", "unknown" and    *)
(*     "timeout" only for one that was;                                    *)
(*   - a verdict is final, and nothing is sent after it except for an      *)
(*     operation whose caller went away while its frame was queued.        *)
(***************************************************************************)
EXTENDS Naturals

CONSTANTS Ops,   \* the one-shot operations issued by the application
          Dedup  \* those that carry a ReplayWithDeduplication policy

VARIABLES sent,    \* how often the operation's frame went to socket.send
          verdict  \* what the caller was told

avars == <<sent, verdict>>

Verdicts == {"none", "ok", "notsent", "unknown", "timeout", "overflow",
             "connecterror", "closed", "error", "cancelled"}

\* What a verdict says about the frame.
Evidence(o, v) ==
  /\ v = "notsent" => sent[o] = 0
  /\ v \in {"ok", "unknown", "timeout"} => sent[o] > 0

AInit ==
  /\ sent = [o \in Ops |-> 0]
  /\ verdict = [o \in Ops |-> "none"]

Transmit(o) ==
  /\ verdict[o] \in {"none", "cancelled"}
  /\ o \in Dedup \/ sent[o] = 0
  /\ sent' = [sent EXCEPT ![o] = @ + 1]
  /\ UNCHANGED verdict

Conclude(o, v) ==
  /\ verdict[o] = "none"
  /\ Evidence(o, v)
  /\ verdict' = [verdict EXCEPT ![o] = v]
  /\ UNCHANGED sent

ANext ==
  \E o \in Ops : Transmit(o) \/ \E v \in Verdicts \ {"none"} : Conclude(o, v)

ASpec == AInit /\ [][ANext]_avars
==============================================================================
