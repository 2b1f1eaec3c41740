---------------------------- MODULE MCMauticOutbox ----------------------------
(* Small instances of MauticOutbox for TLC. *)
EXTENDS MauticOutbox

CONSTANTS w1, w2
===============================================================================
