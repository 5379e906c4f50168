-------------------------- MODULE MCRegistrationFlow --------------------------
(* A small instance of RegistrationFlow for TLC: two processes, two accounts *)
(* that need the same resource; the second challenge has no provider.        *)
EXTENDS RegistrationFlow, TLC

CONSTANTS a1, a2, c1, c2, c3, p1, p2, mailbox

MCUses == [a \in {a1, a2} |-> {mailbox}]
MCProcessOf == (c1 :> p1) @@ (c2 :> p1) @@ (c3 :> p2)
MCTargets == (c1 :> {a1}) @@ (c2 :> {a1, a2}) @@ (c3 :> {a1, a2})
==============================================================================
