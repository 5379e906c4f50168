-------------------------- MODULE MCSessionLifecycle --------------------------
(* Small instances of SessionLifecycle for TLC: c1 and c2 share a lifecycle, *)
(* c3 belongs to another process.                                            *)
EXTENDS SessionLifecycle

CONSTANTS c1, c2, c3, l1, l2

MCOwner == [c \in Calls |-> IF c = c3 THEN l2 ELSE l1]
==============================================================================
