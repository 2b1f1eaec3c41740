-------------------------- MODULE AtLeastOnceOutbox --------------------------
(***************************************************************************)
(* What a durable outbox promises, without leases, workers or retries:     *)
(* every item is open until it is settled, it is settled as delivered only *)
(* when the receiver has it, an item that was given up may be reopened or  *)
(* skipped by a reviewer, and the receiver may get an item more than once  *)
(* and at any time, even after it is settled.                              *)
(***************************************************************************)
CONSTANTS
    Items,        \* the rows of the outbox
    ManualRetry   \* TRUE when an unlocked manual retry can reopen any row

VARIABLES
    status,       \* what the outbox says of each item
    received      \* the items the receiver has

abstractVars == <<status, received>>

Status == {"open", "delivered", "dead", "skipped"}

Init ==
    /\ status = [i \in Items |-> "open"]
    /\ received = {}

\* The receiver gets an item (again).
Receive(i) ==
    /\ received' = received \union {i}
    /\ UNCHANGED status

\* An open item that the receiver has is recorded as delivered.
Deliver(i) ==
    /\ status[i] = "open"
    /\ i \in received
    /\ status' = [status EXCEPT ![i] = "delivered"]
    /\ UNCHANGED received

\* Open items are given up, whether or not the receiver has them.
GiveUp(given) ==
    /\ \A i \in given : status[i] = "open"
    /\ status' = [i \in Items |-> IF i \in given THEN "dead" ELSE status[i]]
    /\ UNCHANGED received

\* A review reopens some of the dead items and skips others.
Review(reopened, skipped) ==
    /\ \A i \in reopened \union skipped : status[i] = "dead"
    /\ status' = [i \in Items |-> IF i \in skipped THEN "skipped"
                                  ELSE IF i \in reopened THEN "open"
                                  ELSE status[i]]
    /\ UNCHANGED received

\* A manual retry that acts on what it read earlier reopens any item.
Reopen(i) ==
    /\ ManualRetry
    /\ status' = [status EXCEPT ![i] = "open"]
    /\ UNCHANGED received

Next ==
    \/ \E i \in Items : Receive(i) \/ Deliver(i) \/ Reopen(i)
    \/ \E given \in SUBSET Items : GiveUp(given)
    \/ \E reopened, skipped \in SUBSET Items : Review(reopened, skipped)

Spec == Init /\ [][Next]_abstractVars
=============================================================================
