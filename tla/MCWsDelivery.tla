---------------------------- MODULE MCWsDelivery ----------------------------
(* Small instances of WsDelivery for TLC. *)
EXTENDS WsDelivery
==============================================================================
