---------------------------- MODULE MCEmailDelivery ----------------------------
(* Small instances of EmailDelivery for TLC. *)
EXTENDS EmailDelivery

CONSTANTS w1, w2
===============================================================================
