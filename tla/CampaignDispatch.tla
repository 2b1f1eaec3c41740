--------------------------- MODULE CampaignDispatch ---------------------------
(***************************************************************************)
(* The dispatch of one scheduled campaign: its status, its dispatch run    *)
(* with the fenced lease, the per-recipient items, the workers that call   *)
(* dispatch_campaigns, and the requests that pause, resume and cancel it.  *)
(*                                                                         *)
(* A database transaction is one action, with one exception. Pausing,      *)
(* cancelling and taking over an expired lease lock the run but read the   *)
(* items without locking them, and write what they read later: a sweep,    *)
(* modelled as two actions that hold the run's lock in between. The        *)
(* campaign row is locked by every request, so requests never overlap; the *)
(* deadlock this makes possible (a worker that completes the run waits for *)
(* the campaign) is resolved by the database aborting one side, which is a *)
(* crashed tick or a request without effect.                               *)
(*                                                                         *)
(* Every claim draws a fresh lease owner and the next fence number; both   *)
(* are only compared for equality, so one token stands for the pair.       *)
(***************************************************************************)
EXTENDS Integers, FiniteSets

CONSTANTS
    Recipients,     \* the frozen audience of the campaign
    Workers,        \* processes with the campaign role
    Fences,         \* lease tokens
    NoFence,        \* no lease
    NoRecipient,    \* no recipient
    BatchLimit,     \* items leased by one tick: 100 in the code
    Requests,       \* the kinds of sweep a user may ask for
    SlowWorkers,    \* TRUE when a lease may expire under a live worker
    MaxRequests,    \* bound: pause and cancel requests in one behaviour
    MaxRefusals,    \* bound: refusals of message admission in one behaviour
    MaxCrashes      \* bound: crashed ticks in one behaviour

ASSUME CampaignAssumption ==
    /\ NoFence \notin Fences
    /\ NoRecipient \notin Recipients
    /\ IsFiniteSet(Recipients)
    /\ BatchLimit \in Nat \ {0}
    /\ Requests \subseteq {"pause", "cancel"}
    /\ SlowWorkers \in BOOLEAN
    /\ MaxRequests \in Nat /\ MaxRefusals \in Nat /\ MaxCrashes \in Nat

VARIABLES
    campaign,       \* Campaign.status
    run,            \* the CampaignDispatchRun, state "NONE" before it exists
    item,           \* the CampaignDispatchItems
    worker,         \* the local variables of each worker's tick
    sweep,          \* who holds the run's lock between reading and writing items
    admitted,       \* how many messages were queued for each recipient
    summaries,      \* the terminal business events of the campaign
    count           \* requests, refusals and crashes so far

vars == <<campaign, run, item, worker, sweep, admitted, summaries, count>>

CampaignStates == {"draft", "scheduled", "paused", "completed", "cancelled"}
RunStates == {"NONE", "SCHEDULED", "RUNNING", "RETRYING", "PAUSED", "COMPLETED", "CANCELLED"}
ItemStates == {"PENDING", "LEASED", "RETRYING", "DELIVERED", "SUPPRESSED", "FAILED", "CANCELLED"}

Undispatched == {"PENDING", "LEASED", "RETRYING"}
RunEnded == {"COMPLETED", "CANCELLED"}

\* begun: scheduled_at has passed. due: next_attempt_at has passed. expired:
\* of a RUNNING run, lease_expires_at has passed.
Run == [state : RunStates, begun : BOOLEAN, due : BOOLEAN,
        fence : Fences \union {NoFence}, expired : BOOLEAN]

\* The fence of an item that is not LEASED means nothing.
Item == [state : ItemStates, due : BOOLEAN, fence : Fences \union {NoFence}]

\* step: between two ticks, taking over an expired lease, between claiming the
\* run and leasing items, or sending. sent: admitted and not yet recorded.
Worker == [step : {"idle", "sweeping", "claimed", "sending"},
           fence : Fences \union {NoFence},
           batch : SUBSET Recipients, sent : Recipients \union {NoRecipient}]

Sweep == [kind : {"none", "pause", "cancel", "expiry"}, items : SUBSET Recipients]

Count == [requests : Nat, refusals : Nat, crashes : Nat]

IdleWorker == [step |-> "idle", fence |-> NoFence, batch |-> {}, sent |-> NoRecipient]
NoSweep == [kind |-> "none", items |-> {}]

Init ==
    /\ campaign = "draft"
    /\ run = [state |-> "NONE", begun |-> FALSE, due |-> FALSE,
              fence |-> NoFence, expired |-> FALSE]
    /\ item = [r \in Recipients |-> [state |-> "PENDING", due |-> FALSE, fence |-> NoFence]]
    /\ worker = [w \in Workers |-> IdleWorker]
    /\ sweep = NoSweep
    /\ admitted = [r \in Recipients |-> 0]
    /\ summaries = {}
    /\ count = [requests |-> 0, refusals |-> 0, crashes |-> 0]

Unlocked == sweep.kind = "none"

-------------------------------------------------------------------------------
(* Time. *)

\* scheduled_at passes; next_attempt_at of the run and of every item start
\* with the same value.
Begin ==
    /\ run.state # "NONE" /\ ~run.begun
    /\ run' = [run EXCEPT !.begun = TRUE, !.due = TRUE]
    /\ item' = [r \in Recipients |-> [item[r] EXCEPT !.due = TRUE]]
    /\ UNCHANGED <<campaign, worker, sweep, admitted, summaries, count>>

RunBecomesDue ==
    /\ run.begun /\ ~run.due
    /\ run' = [run EXCEPT !.due = TRUE]
    /\ UNCHANGED <<campaign, item, worker, sweep, admitted, summaries, count>>

ItemBecomesDue(r) ==
    /\ run.begun /\ ~item[r].due
    /\ item' = [item EXCEPT ![r].due = TRUE]
    /\ UNCHANGED <<campaign, run, worker, sweep, admitted, summaries, count>>

\* The lease has a fixed length and is never renewed.
LeaseExpires ==
    /\ run.state = "RUNNING" /\ ~run.expired
    /\ SlowWorkers \/ \A w \in Workers : worker[w].fence # run.fence
    /\ run' = [run EXCEPT !.expired = TRUE]
    /\ UNCHANGED <<campaign, item, worker, sweep, admitted, summaries, count>>

-------------------------------------------------------------------------------
(* Scheduling, and the sweeps of a pause and of a cancellation. *)

\* One transaction freezes the version and the audience and creates the run.
\* A campaign that has its run keeps it.
Schedule ==
    /\ Unlocked
    /\ campaign = "draft"
    /\ campaign' = "scheduled"
    /\ run' = [run EXCEPT !.state = "SCHEDULED"]
    /\ UNCHANGED <<item, worker, sweep, admitted, summaries, count>>

ItemsIn(states) == {r \in Recipients : item[r].state \in states}

\* The items a sweep reads.
SweptItems(kind) == ItemsIn(IF kind = "cancel" THEN Undispatched ELSE {"LEASED"})

\* A user's request has locked the campaign and the run and has read the items.
BeginRequest(kind) ==
    /\ Unlocked
    /\ count.requests < MaxRequests
    /\ \/ kind = "pause" /\ run.state \notin RunEnded \union {"NONE"}
       \/ kind = "cancel" /\ campaign \notin {"completed", "cancelled"} /\ run.state # "NONE"
    /\ sweep' = [kind |-> kind, items |-> SweptItems(kind)]
    /\ count' = [count EXCEPT !.requests = @ + 1]
    /\ UNCHANGED <<campaign, run, item, worker, admitted, summaries>>

\* A faulty variant: items are given the state of the run, which they cannot have.
SweptLikeRun(state) ==
    [r \in Recipients |->
        IF r \in sweep.items
        THEN [state |-> IF state = "RETRYING" THEN "PAUSED" ELSE state,
              due |-> TRUE, fence |-> NoFence]
        ELSE item[r]]

\* A blind write of the items the sweep read, whatever they have become.
Swept(state) ==
    [r \in Recipients |->
        IF r \in sweep.items
        THEN [state |-> state, due |-> item[r].due \/ state = "RETRYING", fence |-> NoFence]
        ELSE item[r]]

\* A faulty variant: pausing forgets to take the run out of RUNNING.
PauseKeepsRunning ==
    /\ sweep.kind = "pause"
    /\ item' = Swept("RETRYING")
    /\ campaign' = "paused"
    /\ sweep' = NoSweep
    /\ UNCHANGED <<run, worker, admitted, summaries, count>>

Pause ==
    /\ sweep.kind = "pause"
    /\ run' = [run EXCEPT !.state = "PAUSED", !.expired = FALSE]
    /\ item' = Swept("RETRYING")
    /\ campaign' = "paused"
    /\ sweep' = NoSweep
    /\ UNCHANGED <<worker, admitted, summaries, count>>

Cancel ==
    /\ sweep.kind = "cancel"
    /\ run' = [run EXCEPT !.state = "CANCELLED", !.expired = FALSE]
    /\ item' = Swept("CANCELLED")
    /\ campaign' = "cancelled"
    /\ summaries' = summaries \union {"CANCELLED"}
    /\ sweep' = NoSweep
    /\ UNCHANGED <<worker, admitted, count>>

\* A campaign without a run has nothing to sweep.
CancelDraft ==
    /\ "cancel" \in Requests
    /\ run.state = "NONE" /\ campaign = "draft"
    /\ campaign' = "cancelled"
    /\ UNCHANGED <<run, item, worker, sweep, admitted, summaries, count>>

Resume ==
    /\ Unlocked
    /\ run.state = "PAUSED"
    /\ run' = [run EXCEPT !.state = "RETRYING", !.due = TRUE]
    /\ campaign' = "scheduled"
    /\ UNCHANGED <<item, worker, sweep, admitted, summaries, count>>

-------------------------------------------------------------------------------
(* One tick of a worker. *)

FencesInUse ==
    {run.fence} \union {item[r].fence : r \in Recipients}
                \union {worker[w].fence : w \in Workers}

FreshFence == CHOOSE f \in Fences : f \notin FencesInUse

\* What claiming the run writes to it and to the worker.
RunUnder(f) == [run EXCEPT !.state = "RUNNING", !.fence = f, !.expired = FALSE]
Claimed(w, f) == [worker EXCEPT ![w] = [IdleWorker EXCEPT !.step = "claimed", !.fence = f]]

\* A locked run is skipped.
Claim(w) ==
    /\ worker[w].step = "idle"
    /\ Unlocked
    /\ run.state \in {"SCHEDULED", "RETRYING"} /\ run.begun /\ run.due
    /\ FreshFence \in Fences \ FencesInUse
    /\ run' = RunUnder(FreshFence)
    /\ worker' = Claimed(w, FreshFence)
    /\ UNCHANGED <<campaign, item, sweep, admitted, summaries, count>>

\* A worker has locked a run whose lease expired and has read its leased items.
BeginExpiry(w) ==
    /\ worker[w].step = "idle"
    /\ Unlocked
    /\ run.state = "RUNNING" /\ run.expired
    /\ sweep' = [kind |-> "expiry", items |-> SweptItems("expiry")]
    /\ worker' = [worker EXCEPT ![w].step = "sweeping"]
    /\ UNCHANGED <<campaign, run, item, admitted, summaries, count>>

\* The same transaction claims the oldest waiting run: this one, or one of
\* another campaign, which keeps the worker busy elsewhere.
EndExpiry(w) ==
    /\ worker[w].step = "sweeping"
    /\ \/ /\ FreshFence \in Fences \ FencesInUse
          /\ run' = [RunUnder(FreshFence) EXCEPT !.due = TRUE]
          /\ worker' = Claimed(w, FreshFence)
       \/ /\ run' = [run EXCEPT !.state = "RETRYING", !.due = TRUE, !.expired = FALSE]
          /\ worker' = [worker EXCEPT ![w] = IdleWorker]
    /\ item' = Swept("RETRYING")
    /\ sweep' = NoSweep
    /\ UNCHANGED <<campaign, admitted, summaries, count>>

\* The second transaction leases due items under the claim of the first. It
\* looks at the items only, not at the run.
LeaseItems(w) ==
    /\ worker[w].step = "claimed"
    /\ LET waiting == {r \in ItemsIn({"PENDING", "RETRYING"}) : item[r].due}
       IN  \E batch \in SUBSET waiting :
            /\ batch = waiting \/ Cardinality(batch) = BatchLimit
            /\ Cardinality(batch) <= BatchLimit
            /\ item' = [r \in Recipients |->
                          IF r \in batch
                          THEN [item[r] EXCEPT !.state = "LEASED", !.fence = worker[w].fence]
                          ELSE item[r]]
            /\ worker' = [worker EXCEPT ![w].step = "sending", ![w].batch = batch]
    /\ UNCHANGED <<campaign, run, sweep, admitted, summaries, count>>

\* A faulty variant: the fence of the run is not checked before an item.
ActiveWhileRunning(w) == run.state = "RUNNING"

\* The run is still held under the worker's claim.
Active(w) == run.state = "RUNNING" /\ run.fence = worker[w].fence

\* The worker turns to an item of its batch.
Takes(w, r) ==
    /\ worker[w].step = "sending"
    /\ worker[w].sent = NoRecipient
    /\ r \in worker[w].batch
    /\ Unlocked

\* A faulty variant: the result is recorded without looking at the lease.
MarkedUnfenced(w, r, state) ==
    [item EXCEPT ![r] = [state |-> state, due |-> @.due /\ state # "RETRYING",
                         fence |-> NoFence]]

\* _mark_result: the item is written only while this claim leases it.
Marked(w, r, state) ==
    IF item[r].state = "LEASED" /\ item[r].fence = worker[w].fence
    THEN [item EXCEPT ![r] = [state |-> state, due |-> @.due /\ state # "RETRYING",
                              fence |-> NoFence]]
    ELSE item

\* The run was paused, cancelled or taken over: the item is passed by, and
\* stays leased if it was.
PassBy(w, r) ==
    /\ Takes(w, r) /\ ~Active(w)
    /\ worker' = [worker EXCEPT ![w].batch = @ \ {r}]
    /\ UNCHANGED <<campaign, run, item, sweep, admitted, summaries, count>>

\* Suppression, consent or a policy refuses the message, or admission is
\* unavailable. Nothing was committed, so the run stays locked until the
\* result is recorded.
Refuse(w, r) ==
    /\ Takes(w, r) /\ Active(w)
    /\ count.refusals < MaxRefusals
    /\ \E state \in {"SUPPRESSED", "RETRYING", "FAILED"} : item' = Marked(w, r, state)
    /\ worker' = [worker EXCEPT ![w].batch = @ \ {r}]
    /\ count' = [count EXCEPT !.refusals = @ + 1]
    /\ UNCHANGED <<campaign, run, sweep, admitted, summaries>>

\* A faulty variant: the idempotency key does not survive the lease.
KnownUnderLease(r) == FALSE

\* A message was queued before under the recipient's idempotency key.
Known(r) == admitted[r] > 0

\* The queued message is found again and nothing is committed by the sending.
Replay(w, r) ==
    /\ Takes(w, r) /\ Active(w)
    /\ Known(r)
    /\ item' = Marked(w, r, "DELIVERED")
    /\ worker' = [worker EXCEPT ![w].batch = @ \ {r}]
    /\ UNCHANGED <<campaign, run, sweep, admitted, summaries, count>>

\* email_send queues the message and commits, which gives up the run's lock.
Admit(w, r) ==
    /\ Takes(w, r) /\ Active(w)
    /\ ~Known(r)
    /\ admitted' = [admitted EXCEPT ![r] = @ + 1]
    /\ worker' = [worker EXCEPT ![w].batch = @ \ {r}, ![w].sent = r]
    /\ UNCHANGED <<campaign, run, item, sweep, summaries, count>>

\* The result of an admitted message, under the item's lock alone.
Record(w) ==
    /\ worker[w].sent # NoRecipient
    /\ item' = Marked(w, worker[w].sent, "DELIVERED")
    /\ worker' = [worker EXCEPT ![w].sent = NoRecipient]
    /\ UNCHANGED <<campaign, run, sweep, admitted, summaries, count>>

\* A faulty variant: work that waits for a retry is not counted.
RemainingFirstTries == ItemsIn({"PENDING", "LEASED"})

\* A faulty variant: what was refused counts as work that remains.
RemainingUndelivered == Recipients \ ItemsIn({"DELIVERED", "CANCELLED"})

Remaining == ItemsIn(Undispatched)

\* The last transaction of a tick.
Finish(w) ==
    /\ worker[w].step = "sending"
    /\ worker[w].batch = {} /\ worker[w].sent = NoRecipient
    /\ Unlocked
    /\ \/ /\ ~Active(w)
          /\ UNCHANGED <<run, campaign, summaries>>
       \/ /\ Active(w) /\ Remaining # {}
          /\ run' = [run EXCEPT !.state = "RETRYING", !.due = FALSE, !.expired = FALSE]
          /\ UNCHANGED <<campaign, summaries>>
       \/ /\ Active(w) /\ Remaining = {}
          /\ run' = [run EXCEPT !.state = "COMPLETED", !.expired = FALSE]
          /\ campaign' = "completed"
          /\ summaries' = summaries \union {"COMPLETED"}
    /\ worker' = [worker EXCEPT ![w] = IdleWorker]
    /\ UNCHANGED <<item, sweep, admitted, count>>

\* The process dies, or an unexpected exception ends the tick.
Crash(w) ==
    /\ worker[w].step # "idle"
    /\ count.crashes < MaxCrashes
    /\ worker' = [worker EXCEPT ![w] = IdleWorker]
    /\ sweep' = IF worker[w].step = "sweeping" THEN NoSweep ELSE sweep
    /\ count' = [count EXCEPT !.crashes = @ + 1]
    /\ UNCHANGED <<campaign, run, item, admitted, summaries>>

-------------------------------------------------------------------------------

Time == Begin \/ RunBecomesDue \/ LeaseExpires \/ \E r \in Recipients : ItemBecomesDue(r)

User == Schedule \/ CancelDraft \/ Resume \/ \E kind \in Requests : BeginRequest(kind)

Serve == Pause \/ Cancel

Send(w, r) == PassBy(w, r) \/ Refuse(w, r) \/ Replay(w, r) \/ Admit(w, r)

Tick(w) ==
    \/ Claim(w) \/ BeginExpiry(w) \/ EndExpiry(w) \/ LeaseItems(w)
    \/ Record(w) \/ Finish(w)
    \/ \E r \in Recipients : Send(w, r)

Next ==
    \/ Time \/ User \/ Serve
    \/ \E w \in Workers : Tick(w) \/ Crash(w)

Spec == Init /\ [][Next]_vars

\* Time passes, requests that were begun are served, and every worker loops.
Fairness ==
    /\ WF_vars(Begin) /\ WF_vars(RunBecomesDue) /\ WF_vars(LeaseExpires)
    /\ \A r \in Recipients : WF_vars(ItemBecomesDue(r))
    /\ WF_vars(Serve)
    /\ \A w \in Workers : WF_vars(Tick(w))

FairSpec == Spec /\ Fairness

-------------------------------------------------------------------------------
(* Properties. *)

\* Every variable stays within its declared type.
TypeOK ==
    /\ campaign \in CampaignStates
    /\ run \in Run
    /\ item \in [Recipients -> Item]
    /\ worker \in [Workers -> Worker]
    /\ sweep \in Sweep
    /\ admitted \in [Recipients -> Nat]
    /\ summaries \subseteq RunEnded
    /\ count \in Count

\* However leases expire and runs are paused, resumed and taken over, at most
\* one worker passes the check before an item.
OneActiveDispatcher ==
    \A v, w \in Workers :
        worker[v].step \in {"claimed", "sending"} /\ worker[w].step \in {"claimed", "sending"}
          /\ Active(v) /\ Active(w) => v = w

\* No retry, crash, pause or takeover queues a second message to a recipient.
OneMessagePerRecipient == \A r \in Recipients : admitted[r] <= 1

\* A run that has ended leaves no item that could still be dispatched.
EndedRunIsSettled == run.state \in RunEnded => ItemsIn(Undispatched) = {}

\* The campaign's status, the state of its run and the summaries published
\* tell the same story after every transaction.
StoriesAgree ==
    /\ campaign = "completed" <=> run.state = "COMPLETED"
    /\ campaign = "paused" <=> run.state = "PAUSED"
    /\ run.state = "CANCELLED" => campaign = "cancelled"
    /\ campaign = "cancelled" => run.state \in {"CANCELLED", "NONE"}
    /\ summaries = {run.state} \intersect RunEnded

\* Nothing that a late worker or request still does changes a run that has
\* ended, its items, its messages or its summary.
EndIsFinal ==
    [][run.state \in RunEnded =>
          /\ run'.state = run.state
          /\ UNCHANGED <<campaign, admitted, summaries>>
          /\ \A r \in Recipients : item'[r].state = item[r].state]_vars

\* A scheduled campaign comes to an end, although workers crash anywhere in a
\* tick, leases expire under live ones, admission fails for a while and users
\* pause, resume and cancel. What may keep it from its end: a pause that nobody
\* lifts, leases that go on expiring under live workers for ever, and an item
\* leased after the sweep that should have freed it, which no tick takes up.
DispatchEnds ==
    \/ []<>(run.state \in RunEnded \union {"NONE"})
    \/ <>[](run.state = "PAUSED")
    \/ []<>(run.expired /\ \E w \in Workers : worker[w].fence = run.fence)
    \/ <>[](\E r \in Recipients : item[r].state = "LEASED" /\ item[r].fence # run.fence)

\* No item is leased under a paused run.
PauseClearsLeases == run.state = "PAUSED" => ItemsIn({"LEASED"}) = {}

\* Once a run has completed, every recipient with a queued message counts as
\* delivered: a retry has found the message that was admitted before a crash.
AdmissionIsRecovered ==
    run.state = "COMPLETED" =>
        \A r \in Recipients : admitted[r] > 0 => item[r].state = "DELIVERED"
===============================================================================
