----------------------------- MODULE EmailDelivery -----------------------------
(***************************************************************************)
(* The delivery of queued messages to Postal: admission (_send) with the   *)
(* canary gate, the workers of tenant_email_outbox_loop, cancellation by   *)
(* the API and by a middleware command, and the callbacks by which Postal  *)
(* reports on accepted messages (persist_email_event).                     *)
(*                                                                         *)
(* A database transaction is one action; the POST to Postal lies between   *)
(* the transaction that claims a row and the one that records the outcome. *)
(* Two transactions meet in a deadlock: a claim locks the outbox row and   *)
(* then needs the message, a cancellation locks the message and then needs *)
(* the row. When the database aborts the cancellation nothing happened;    *)
(* when it aborts the claim, the worker still reports (CancelDuringClaim). *)
(* Safe mode, in which nothing is queued for Postal, is left out.          *)
(***************************************************************************)
EXTENDS Integers, FiniteSets

CONSTANTS
    Messages,       \* messages, numbered in the order of priority and age
    Gated,          \* those that count against the canary gate
    Revocable,      \* those the policy may no longer allow when they are claimed
    Keyless,        \* those whose tenant has no Postal credential
    Workers,        \* processes running the outbox loop
    NoMessage,      \* no message
    Maximum,        \* deliveries the canary gate allows: 1 in the code
    MaxAttempts,    \* attempts before a message fails: 5 in the code
    MaxCrashes,     \* bound: crashes of workers in one behaviour
    MaxAborts,      \* bound: claims aborted for a cancellation
    MaxUnrecorded   \* bound: successes a worker fails to record

ASSUME MessagesAssumption ==
    /\ Messages \subseteq Nat /\ IsFiniteSet(Messages)
    /\ Gated \subseteq Messages /\ Revocable \subseteq Messages /\ Keyless \subseteq Messages
    /\ NoMessage \notin Messages

ASSUME BoundsAssumption ==
    /\ Maximum \in Nat /\ MaxAttempts \in Nat \ {0}
    /\ MaxCrashes \in Nat /\ MaxAborts \in Nat /\ MaxUnrecorded \in Nat

VARIABLES
    outbox,         \* the EmailOutbox rows
    status,         \* Message.status
    gate,           \* the ProductionCanaryGate
    worker,         \* the local variables of each pass of the outbox loop
    accepted,       \* how often Postal has accepted each message
    unrecorded,     \* how often a worker failed to record that
    misread,        \* messages whose refusal by Postal a worker took for an acceptance
    count           \* crashes and aborted claims so far

vars == <<outbox, status, gate, worker, accepted, unrecorded, misread, count>>

OutboxStates == {"none", "pending", "sending", "retry", "delivered", "INDETERMINATE",
                 "failed", "cancelled", "quarantined"}

\* What a callback reports: "delivered" stands for every report after which a
\* cancellation is refused.
Reports == {"delivered", "deferred"}
Statuses == Reports \union {"none", "queued", "submitted", "provider_accepted", "suppressed",
                            "failed", "cancelled", "indeterminate"}

\* due: of a retry, next_attempt_at has passed. stale: of a row being sent,
\* it was claimed more than five minutes ago.
OutboxRow == [state : OutboxStates, attempts : Nat, due : BOOLEAN, stale : BOOLEAN]

Gate == [reserved : Nat, claimed : Nat]

\* result: how the worker reads what came of the POST.
Worker == [step : {"idle", "posting", "reporting"}, message : Messages \union {NoMessage},
           result : {"ok", "ambiguous", "definite"}]

Count == [crashes : Nat, aborts : Nat]

IdleWorker == [step |-> "idle", message |-> NoMessage, result |-> "definite"]

Init ==
    /\ outbox = [m \in Messages |-> [state |-> "none", attempts |-> 0,
                                     due |-> TRUE, stale |-> FALSE]]
    /\ status = [m \in Messages |-> "none"]
    /\ gate = [reserved |-> 0, claimed |-> 0]
    /\ worker = [w \in Workers |-> IdleWorker]
    /\ accepted = [m \in Messages |-> 0]
    /\ unrecorded = [m \in Messages |-> 0]
    /\ misread = {}
    /\ count = [crashes |-> 0, aborts |-> 0]

-------------------------------------------------------------------------------
(* Time. *)

BecomeDue(m) ==
    /\ outbox[m].state = "retry" /\ ~outbox[m].due
    /\ outbox' = [outbox EXCEPT ![m].due = TRUE]
    /\ UNCHANGED <<status, gate, worker, accepted, unrecorded, misread, count>>

BecomeStale(m) ==
    /\ outbox[m].state = "sending" /\ ~outbox[m].stale
    /\ outbox' = [outbox EXCEPT ![m].stale = TRUE]
    /\ UNCHANGED <<status, gate, worker, accepted, unrecorded, misread, count>>

-------------------------------------------------------------------------------
(* Admission, cancellation and callbacks. *)

\* A new message: its row, and its reservation under the gate's lock. The
\* idempotency key makes a repeated request return the first answer.
Send(m) ==
    /\ outbox[m].state = "none"
    /\ \/ m \in Gated /\ gate.reserved < Maximum
          /\ gate' = [gate EXCEPT !.reserved = @ + 1]
       \/ m \notin Gated /\ UNCHANGED gate
    /\ outbox' = [outbox EXCEPT ![m].state = "pending"]
    /\ status' = [status EXCEPT ![m] = "queued"]
    /\ UNCHANGED <<worker, accepted, unrecorded, misread, count>>

\* What a request to cancel requires of the message and of its row.
Cancellable(m) ==
    /\ status[m] \notin {"delivered", "failed", "cancelled"}
    /\ outbox[m].state \in {"pending", "retry"}

Cancelled(m) ==
    /\ outbox' = [outbox EXCEPT ![m].state = "cancelled"]
    /\ status' = [status EXCEPT ![m] = "cancelled"]

Cancel(m) ==
    /\ Cancellable(m)
    /\ Cancelled(m)
    /\ UNCHANGED <<gate, worker, accepted, unrecorded, misread, count>>

\* A signed callback overwrites the status, whatever it was.
Callback(m, report) ==
    /\ accepted[m] > 0
    /\ status' = [status EXCEPT ![m] = report]
    /\ UNCHANGED <<outbox, gate, worker, accepted, unrecorded, misread, count>>

-------------------------------------------------------------------------------
(* One pass of the outbox loop. *)

\* Faulty variants: no row is ever found abandoned, or rows with an uncertain
\* outcome are found waiting.
AbandonedNever == {}
WaitingUncertain ==
    {m \in Messages : \/ outbox[m].state \in {"pending", "INDETERMINATE"}
                      \/ outbox[m].state = "retry" /\ outbox[m].due}

Abandoned == {m \in Messages : outbox[m].state = "sending" /\ outbox[m].stale}

Waiting ==
    {m \in Messages :
        /\ \/ outbox[m].state = "pending"
           \/ outbox[m].state = "retry" /\ outbox[m].due
        /\ outbox[m].attempts < MaxAttempts}

\* A row whose sender is given up for dead; what became of the message is
\* not known.
Abandon(w) ==
    /\ worker[w].step = "idle"
    /\ \E m \in Abandoned :
        /\ outbox' = [outbox EXCEPT ![m].state = "INDETERMINATE", ![m].stale = FALSE]
        /\ status' = [status EXCEPT ![m] = "indeterminate"]
    /\ UNCHANGED <<gate, worker, accepted, unrecorded, misread, count>>

\* The first waiting row is the one a pass takes. When its tenant has no
\* credential the transaction fails and the next pass finds the same row.
Taken(w, m) ==
    /\ worker[w].step = "idle"
    /\ Abandoned = {}
    /\ m \in Waiting
    /\ \A other \in Waiting : m <= other

FirstAttempt(m) == outbox[m].attempts = 0

\* The gate has no reserved delivery left for a first attempt.
Refused(m) ==
    /\ m \in Gated /\ FirstAttempt(m)
    /\ gate.claimed >= gate.reserved \/ gate.claimed >= Maximum

Quarantine(w, m) ==
    /\ Taken(w, m)
    /\ Refused(m) \/ m \in Revocable
    /\ outbox' = [outbox EXCEPT ![m].state = "quarantined"]
    /\ status' = [status EXCEPT ![m] = "suppressed"]
    /\ UNCHANGED <<gate, worker, accepted, unrecorded, misread, count>>

\* A faulty variant: every attempt claims a delivery.
ClaimedDeliveriesAlways(m) == IF m \in Gated THEN gate.claimed + 1 ELSE gate.claimed

\* Only the first attempt of a message claims one of the reserved deliveries.
ClaimedDeliveries(m) ==
    IF m \in Gated /\ FirstAttempt(m) THEN gate.claimed + 1 ELSE gate.claimed

Claim(w, m) ==
    /\ Taken(w, m)
    /\ ~Refused(m)
    /\ m \notin Keyless
    /\ gate' = [gate EXCEPT !.claimed = ClaimedDeliveries(m)]
    /\ outbox' = [outbox EXCEPT ![m].state = "sending", ![m].attempts = @ + 1,
                                ![m].due = FALSE, ![m].stale = FALSE]
    /\ status' = [status EXCEPT ![m] = "submitted"]
    /\ worker' = [worker EXCEPT ![w] = [step |-> "posting", message |-> m,
                                        result |-> "definite"]]
    /\ UNCHANGED <<accepted, unrecorded, misread, count>>

\* The deadlock of a claim and a cancellation when the claim is aborted: the
\* message is cancelled, and the worker, whose snapshot was taken before the
\* commit failed, goes on to report a failure.
CancelDuringClaim(w, m) ==
    /\ Taken(w, m)
    /\ ~Refused(m)
    /\ m \notin Keyless
    /\ Cancellable(m)
    /\ count.aborts < MaxAborts
    /\ Cancelled(m)
    /\ count' = [count EXCEPT !.aborts = @ + 1]
    /\ worker' = [worker EXCEPT ![w] = [step |-> "reporting", message |-> m,
                                        result |-> "definite"]]
    /\ UNCHANGED <<gate, accepted, unrecorded, misread>>

Reporting(w, result) ==
    worker' = [worker EXCEPT ![w].step = "reporting", ![w].result = result]

\* Postal accepts the message, and the worker learns it or cannot tell.
PostAccepted(w) ==
    /\ worker[w].step = "posting"
    /\ accepted' = [accepted EXCEPT ![worker[w].message] = @ + 1]
    /\ \E result \in {"ok", "ambiguous"} : Reporting(w, result)
    /\ UNCHANGED <<outbox, status, gate, unrecorded, misread, count>>

\* Postal accepts the message, but its answer cannot be read, or the
\* transaction that records it fails: no transport error, so not ambiguous.
PostUnrecorded(w) ==
    /\ worker[w].step = "posting"
    /\ unrecorded[worker[w].message] < MaxUnrecorded
    /\ accepted' = [accepted EXCEPT ![worker[w].message] = @ + 1]
    /\ unrecorded' = [unrecorded EXCEPT ![worker[w].message] = @ + 1]
    /\ Reporting(w, "definite")
    /\ UNCHANGED <<outbox, status, gate, misread, count>>

\* Postal refuses the message with a status of success and the error in the
\* body: any object is taken for an acceptance, with or without a message_id.
PostMisread(w) ==
    /\ worker[w].step = "posting"
    /\ misread' = misread \union {worker[w].message}
    /\ Reporting(w, "ok")
    /\ UNCHANGED <<outbox, status, gate, accepted, unrecorded, count>>

\* Postal does not have the message: it refused it with an error status, or a
\* transport error or a server error leaves the worker in doubt.
PostFailed(w) ==
    /\ worker[w].step = "posting"
    /\ \E result \in {"ambiguous", "definite"} : Reporting(w, result)
    /\ UNCHANGED <<outbox, status, gate, accepted, unrecorded, misread, count>>

\* A faulty variant: doubt counts as a failure.
AmbiguousNever(result) == FALSE

\* provider_outcome_is_ambiguous
Ambiguous(result) == result = "ambiguous"

\* Faulty variants: the message's status is written to the row as well, or a
\* message that has used up its attempts is taken for delivered.
OutcomeLowercase(m, result) ==
    CASE result = "ok" -> <<"delivered", "provider_accepted">>
      [] Ambiguous(result) -> <<"indeterminate", "indeterminate">>
      [] OTHER -> <<"retry", "deferred">>
OutcomeAtLimit(m, result) ==
    CASE Ambiguous(result) -> <<"INDETERMINATE", "indeterminate">>
      [] result = "definite" /\ outbox[m].attempts < MaxAttempts -> <<"retry", "deferred">>
      [] OTHER -> <<"delivered", "provider_accepted">>

\* What the last transaction of a pass writes to the row and to the message.
Outcome(m, result) ==
    CASE result = "ok" -> <<"delivered", "provider_accepted">>
      [] Ambiguous(result) -> <<"INDETERMINATE", "indeterminate">>
      [] OTHER -> IF outbox[m].attempts >= MaxAttempts
                  THEN <<"failed", "failed">> ELSE <<"retry", "deferred">>

\* The outcome is recorded whatever has become of the row.
Record(w) ==
    /\ worker[w].step = "reporting"
    /\ LET m       == worker[w].message
           outcome == Outcome(m, worker[w].result)
       IN  /\ outbox' = [outbox EXCEPT ![m].state = outcome[1], ![m].due = FALSE,
                                       ![m].stale = FALSE]
           /\ status' = [status EXCEPT ![m] = outcome[2]]
    /\ worker' = [worker EXCEPT ![w] = IdleWorker]
    /\ UNCHANGED <<gate, accepted, unrecorded, misread, count>>

\* The process dies.
Crash(w) ==
    /\ count.crashes < MaxCrashes
    /\ worker[w].step # "idle"
    /\ worker' = [worker EXCEPT ![w] = IdleWorker]
    /\ count' = [count EXCEPT !.crashes = @ + 1]
    /\ UNCHANGED <<outbox, status, gate, accepted, unrecorded, misread>>

-------------------------------------------------------------------------------

Time(m) == BecomeDue(m) \/ BecomeStale(m)

Environment(m) == Send(m) \/ Cancel(m) \/ \E report \in Reports : Callback(m, report)

Pass(w) ==
    \/ Abandon(w)
    \/ PostAccepted(w) \/ PostUnrecorded(w) \/ PostMisread(w) \/ PostFailed(w)
    \/ Record(w)
    \/ \E m \in Messages : Quarantine(w, m) \/ Claim(w, m)

Next ==
    \/ \E m \in Messages : Time(m) \/ Environment(m)
    \/ \E w \in Workers : Pass(w) \/ Crash(w) \/ \E m \in Messages : CancelDuringClaim(w, m)

Spec == Init /\ [][Next]_vars

\* Time passes and the loop of every worker goes on; users owe nothing.
Fairness ==
    /\ \A m \in Messages : WF_vars(Time(m))
    /\ \A w \in Workers : WF_vars(Pass(w))

FairSpec == Spec /\ Fairness

-------------------------------------------------------------------------------
(* Properties. *)

\* Every variable stays within its declared type.
TypeOK ==
    /\ outbox \in [Messages -> OutboxRow]
    /\ status \in [Messages -> Statuses]
    /\ gate \in Gate
    /\ worker \in [Workers -> Worker]
    /\ accepted \in [Messages -> Nat]
    /\ unrecorded \in [Messages -> Nat]
    /\ misread \in SUBSET Messages
    /\ count \in Count

\* The gate's two counters stay in step with the messages however claims are
\* retried, aborted and abandoned, so that no more messages than the gate
\* allows ever reach Postal.
CanaryBound ==
    LET tried == {m \in Gated : outbox[m].attempts > 0}
    IN  /\ gate.reserved = Cardinality({m \in Gated : outbox[m].state # "none"})
        /\ gate.claimed = Cardinality(tried)
        /\ gate.reserved <= Maximum
        /\ {m \in Gated : accepted[m] > 0} \subseteq tried

\* Postal gets a message again only after an acceptance that the worker could
\* not record: doubt, abandonment, crashes and late reports never cause it.
NoOtherDuplicate ==
    \A m \in Messages : accepted[m] <= 1 + unrecorded[m]

\* What a row says of its message is so, although the outcome is recorded
\* whatever has become of the row: a message recorded as delivered has been
\* accepted, unless Postal refused it with an answer read as an acceptance, and
\* one that waits, failed, was quarantined or cancelled has not, except by
\* acceptances that no worker could record.
RowsMatchPostal ==
    \A m \in Messages :
        /\ outbox[m].state = "delivered" => accepted[m] > 0 \/ m \in misread
        /\ outbox[m].state \notin {"sending", "INDETERMINATE", "delivered"} =>
             accepted[m] <= unrecorded[m]

\* Delivered, failed and quarantined rows never change again. A cancelled or
\* uncertain one is written again by nobody but the worker that had claimed it.
SettledStays ==
    [][\A m \in Messages :
          /\ outbox[m].state \in {"delivered", "failed", "quarantined"} =>
               outbox'[m].state = outbox[m].state
          /\ outbox[m].state \in {"cancelled", "INDETERMINATE"} =>
               \/ outbox'[m].state = outbox[m].state
               \/ \E w \in Workers : worker[w].step = "reporting" /\ worker[w].message = m]_vars

\* Every admitted message is eventually out of the queue, although workers
\* crash, unless a message without a credential stands before it.
Open(m) == outbox[m].state \in {"pending", "sending", "retry"}
EveryMessageSettles ==
    \A m \in Messages : (\A k \in Keyless : m < k) => (Open(m) ~> ~Open(m))

\* An acceptance whose record is uncertain is never answered by sending again.
AcceptedAtMostOnce == \A m \in Messages : accepted[m] <= 1
===============================================================================
