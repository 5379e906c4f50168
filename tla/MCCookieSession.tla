-------------------------- MODULE MCCookieSession ---------------------------
\* Small instances of CookieSession: two calls of one process, one of another.
EXTENDS CookieSession, TLC

CONSTANTS p1, p2, c1, c2, c3

MCOwner == [c \in {c1, c2, c3} |-> IF c = c3 THEN p2 ELSE p1]
Twins == Permutations({c1, c2})
==============================================================================
