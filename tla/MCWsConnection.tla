---------------------------- MODULE MCWsConnection ----------------------------
(* Small instances of WsConnection for TLC. *)
EXTENDS WsConnection

CONSTANTS s1, s2

MCSettings ==
  {[suspends |-> FALSE, early |-> FALSE, delays |-> 2, retained |-> {s1},
    heartbeat |-> TRUE, cancel |-> TRUE],
   [suspends |-> FALSE, early |-> FALSE, delays |-> 2, retained |-> {s1, s2},
    heartbeat |-> FALSE, cancel |-> FALSE],
   [suspends |-> TRUE, early |-> TRUE, delays |-> 1, retained |-> {s2},
    heartbeat |-> TRUE, cancel |-> TRUE]}
==============================================================================
