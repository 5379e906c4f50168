-------------------------- MODULE MCBrowserSession --------------------------
\* Small instances of BrowserSession: two tabs of one context, one of another.
EXTENDS BrowserSession, TLC

CONSTANTS k1, k2, c1, c2, c3

MCHome == [c \in {c1, c2, c3} |-> IF c = c3 THEN k2 ELSE k1]
Tabs == Permutations({c1, c2})
==============================================================================
