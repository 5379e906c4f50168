---------------------------- MODULE MCGuardedCalls ----------------------------
(* A small instance of GuardedCalls for TLC: a guard whose solutions the     *)
(* client shares under two keys and one whose solutions belong to a match;   *)
(* c1 is idempotent, changes its proxy and has middleware, c2 does none.     *)
EXTENDS GuardedCalls, TLC

CONSTANTS c1, c2, clearance, captcha, k1, k2

Allow(transport, auth, redirect) ==
  [transport |-> transport, auth |-> auth, redirect |-> redirect]

MCMode == (clearance :> "shared") @@ (captcha :> "match")
MCMaxReplays == (clearance :> 1) @@ (captcha :> 1)
MCAsks == (clearance :> {k1, k2}) @@ (captcha :> {k1})
MCMayHave == (c1 :> {"i1", "i2"}) @@ (c2 :> {"i1"})
MCAllowance == (c1 :> Allow(1, 1, 0)) @@ (c2 :> Allow(1, 0, 1))
MCProposals == (c1 :> 1) @@ (c2 :> 0)
==============================================================================
