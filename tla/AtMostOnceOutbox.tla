---------------------------- MODULE AtMostOnceOutbox ----------------------------
(***************************************************************************)
(* What the queue of operations for Mautic promises: whatever happens, no  *)
(* operation takes effect twice. An operation of which nobody knows        *)
(* whether it took effect is put aside for good; one that is reported as   *)
(* completed took effect, one that is reported as cancelled never does.    *)
(***************************************************************************)
EXTENDS Naturals

CONSTANT Operations

VARIABLES
    promise,        \* what the users are told of each operation
    effects         \* how often each took effect

promiseVars == <<promise, effects>>

Promised == {"none", "open", "completed", "uncertain", "cancelled"}

PromiseInit ==
    /\ promise = [m \in Operations |-> "none"]
    /\ effects = [m \in Operations |-> 0]

Accept(m) ==
    /\ promise[m] = "none"
    /\ promise' = [promise EXCEPT ![m] = "open"]
    /\ UNCHANGED effects

\* A call may still be on its way when the operation has been put aside.
Perform(m) ==
    /\ promise[m] \in {"open", "uncertain"}
    /\ effects[m] = 0
    /\ effects' = [effects EXCEPT ![m] = 1]
    /\ UNCHANGED promise

Complete(m) ==
    /\ promise[m] = "open" /\ effects[m] = 1
    /\ promise' = [promise EXCEPT ![m] = "completed"]
    /\ UNCHANGED effects

\* Several operations can be put aside at once.
PutAside(aside) ==
    /\ \A m \in aside : promise[m] = "open"
    /\ promise' = [m \in Operations |-> IF m \in aside THEN "uncertain" ELSE promise[m]]
    /\ UNCHANGED effects

Drop(m) ==
    /\ promise[m] = "open" /\ effects[m] = 0
    /\ promise' = [promise EXCEPT ![m] = "cancelled"]
    /\ UNCHANGED effects

PromiseNext ==
    \/ \E m \in Operations : Accept(m) \/ Perform(m) \/ Complete(m) \/ Drop(m)
    \/ \E aside \in SUBSET Operations : PutAside(aside)

PromiseSpec == PromiseInit /\ [][PromiseNext]_promiseVars
===============================================================================
