------------------------------ MODULE BillingWork ------------------------------
(***************************************************************************)
(* The billing worker (service_worker.billing_tick): it makes a work item  *)
(* for every billing event, returns items whose lease expired, and claims  *)
(* and completes one item.                                                 *)
(*                                                                         *)
(* A tick is four commits. The sweep reads expired items without a lock    *)
(* and writes them at its commit; the completion is written without a look *)
(* at the item's state.                                                    *)
(***************************************************************************)
EXTENDS Integers, FiniteSets

CONSTANTS
    BillingEvents,      \* billing events, numbered in created_at order
    BillingWorkers,     \* processes with the role "billing"
    WorkMaxAttempts,    \* attempts before a dead letter: 8 in the code
    WorkPage,           \* events discovered by one tick: 200 in the code
    WorkMaxFaults       \* bound: ticks that die

ASSUME WorkAssumption ==
    /\ BillingEvents \subseteq Nat
    /\ WorkMaxAttempts \in Nat \ {0} /\ WorkPage \in Nat \ {0} /\ WorkMaxFaults \in Nat

VARIABLES
    booked,         \* the committed billing events
    workItem,       \* the table klyrow_billing_work_items, by event
    tick,           \* what each worker has read
    workFaults      \* faults so far

workVars == <<booked, workItem, tick, workFaults>>

WorkStates == {"none", "PENDING", "PROCESSING", "RETRY", "COMPLETED", "DEAD_LETTER"}
WorkItem == [state : WorkStates, attempts : Nat, due : BOOLEAN, expired : BOOLEAN]

\* step: what comes next. found: the events without an item, the items that
\* were expired with their attempts, or the item that was claimed.
BillingTick == [step : {"discover", "insert", "sweep", "return", "claim", "complete"},
                found : SUBSET BillingEvents, attempts : [BillingEvents -> Nat]]

NoAttempts == [e \in BillingEvents |-> 0]
NewTick == [step |-> "discover", found |-> {}, attempts |-> NoAttempts]

WorkInit ==
    /\ booked = {}
    /\ workItem = [e \in BillingEvents |->
         [state |-> "none", attempts |-> 0, due |-> TRUE, expired |-> FALSE]]
    /\ tick = [w \in BillingWorkers |-> NewTick]
    /\ workFaults = 0

-------------------------------------------------------------------------------
\* A request commits a billing event (billing.py).
Book(e) ==
    /\ e \notin booked
    /\ booked' = booked \union {e}
    /\ UNCHANGED <<workItem, tick, workFaults>>

\* available_at passes.
WorkBecomesDue(e) ==
    /\ workItem[e].state = "RETRY" /\ ~workItem[e].due
    /\ workItem' = [workItem EXCEPT ![e].due = TRUE]
    /\ UNCHANGED <<booked, tick, workFaults>>

\* lease_expires_at passes.
WorkExpires(e) ==
    /\ workItem[e].state = "PROCESSING" /\ ~workItem[e].expired
    /\ workItem' = [workItem EXCEPT ![e].expired = TRUE]
    /\ UNCHANGED <<booked, tick, workFaults>>

\* A faulty variant: the first events are looked at, with an item or without.
UndiscoveredFirst == {e \in booked : Cardinality({d \in booked : d < e}) < WorkPage}

\* The oldest events without an item.
Undiscovered ==
    LET new == {e \in booked : workItem[e].state = "none"}
    IN {e \in new : Cardinality({d \in new : d < e}) < WorkPage}

TickDiscover(w) ==
    /\ tick[w].step = "discover"
    /\ tick' = [tick EXCEPT ![w].step = "insert", ![w].found = Undiscovered]
    /\ UNCHANGED <<booked, workItem, workFaults>>

\* Each event is looked up once more and items are unique by event: an item that
\* another tick has made meanwhile is skipped or fails the tick.
TickInsert(w) ==
    LET new == {e \in tick[w].found : workItem[e].state = "none"}
    IN /\ tick[w].step = "insert"
       /\ \/ /\ workItem' = [e \in BillingEvents |-> IF e \in new
                            THEN [workItem[e] EXCEPT !.state = "PENDING"] ELSE workItem[e]]
             /\ tick' = [tick EXCEPT ![w] = [NewTick EXCEPT !.step = "sweep"]]
          \/ /\ new # tick[w].found
             /\ tick' = [tick EXCEPT ![w] = NewTick]
             /\ UNCHANGED workItem
       /\ UNCHANGED <<booked, workFaults>>

WorkExpired == {e \in BillingEvents : workItem[e].state = "PROCESSING" /\ workItem[e].expired}

TickSweep(w) ==
    /\ tick[w].step = "sweep"
    /\ tick' = [tick EXCEPT ![w] = [step |-> "return", found |-> WorkExpired,
          attempts |-> [e \in BillingEvents |-> IF e \in WorkExpired THEN workItem[e].attempts ELSE 0]]]
    /\ UNCHANGED <<booked, workItem, workFaults>>

Returned(rec, attempts) ==
    [rec EXCEPT !.state = IF attempts >= WorkMaxAttempts THEN "DEAD_LETTER" ELSE "RETRY",
                !.due = FALSE, !.expired = FALSE]

\* What was expired is written, whatever has become of it.
TickReturn(w) ==
    /\ tick[w].step = "return"
    /\ workItem' = [e \in BillingEvents |-> IF e \in tick[w].found
                   THEN Returned(workItem[e], tick[w].attempts[e]) ELSE workItem[e]]
    /\ tick' = [tick EXCEPT ![w].step = "claim"]
    /\ UNCHANGED <<booked, workFaults>>

Waiting == {e \in BillingEvents : workItem[e].state \in {"PENDING", "RETRY"} /\ workItem[e].due}

\* The oldest waiting item is claimed under its lock. Of an item that this tick
\* returned, the session still has the attempts it read then.
TickClaim(w) ==
    /\ tick[w].step = "claim"
    /\ IF Waiting = {}
       THEN /\ tick' = [tick EXCEPT ![w] = NewTick]
            /\ UNCHANGED workItem
       ELSE \E e \in Waiting :
               /\ \A d \in Waiting : e <= d
               /\ workItem' = [workItem EXCEPT ![e] =
                     [state |-> "PROCESSING", due |-> TRUE, expired |-> FALSE,
                      attempts |-> 1 + IF e \in tick[w].found THEN tick[w].attempts[e] ELSE @.attempts]]
               /\ tick' = [tick EXCEPT ![w] = [NewTick EXCEPT !.step = "complete", !.found = {e}]]
    /\ UNCHANGED <<booked, workFaults>>

\* The item is completed, whoever has it by now.
TickComplete(w) ==
    /\ tick[w].step = "complete"
    /\ workItem' = [e \in BillingEvents |-> IF e \in tick[w].found
                   THEN [workItem[e] EXCEPT !.state = "COMPLETED", !.expired = FALSE] ELSE workItem[e]]
    /\ tick' = [tick EXCEPT ![w] = NewTick]
    /\ UNCHANGED <<booked, workFaults>>

\* The worker dies or its tick fails.
TickDies(w) ==
    /\ tick[w].step # "discover" /\ workFaults < WorkMaxFaults
    /\ workFaults' = workFaults + 1
    /\ tick' = [tick EXCEPT ![w] = NewTick]
    /\ UNCHANGED <<booked, workItem>>

TickStep(w) ==
    \/ TickDiscover(w) \/ TickInsert(w) \/ TickSweep(w)
    \/ TickReturn(w) \/ TickClaim(w) \/ TickComplete(w)

WorkNext ==
    \/ \E e \in BillingEvents : Book(e) \/ WorkBecomesDue(e) \/ WorkExpires(e)
    \/ \E w \in BillingWorkers : TickStep(w) \/ TickDies(w)

\* The worker host calls billing_tick for ever, and time passes.
WorkFairness ==
    /\ \A e \in BillingEvents : WF_workVars(WorkBecomesDue(e)) /\ WF_workVars(WorkExpires(e))
    /\ \A w \in BillingWorkers : WF_workVars(TickStep(w))

WorkSpec == WorkInit /\ [][WorkNext]_workVars /\ WorkFairness

-------------------------------------------------------------------------------
WorkTypeOK ==
    /\ booked \in SUBSET BillingEvents
    /\ workItem \in [BillingEvents -> WorkItem]
    /\ tick \in [BillingWorkers -> BillingTick]
    /\ workFaults \in 0..WorkMaxFaults

\* A billing event that was committed is worked off, although a tick looks at a
\* page of events only, items expire and are returned over a slow completion,
\* and ticks die (billing_tick; the backlog is not starved by settled events).
EveryBillingEventSettles ==
    \A e \in BillingEvents :
        e \in booked ~> workItem[e].state \in {"COMPLETED", "DEAD_LETTER"}
===============================================================================
