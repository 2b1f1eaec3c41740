---------------------------- MODULE ProviderOutbox ----------------------------
(***************************************************************************)
(* The provider outbox: the rows of provider_events and of                 *)
(* provider_usage_events, the workers that dispatch them to the            *)
(* middleware (provider_outbox_delivery.dispatch), the operators that      *)
(* retry one row (operation_event_retry, operation_usage_retry) and the    *)
(* page-wise reconciliation of dead letters                                *)
(* (reconcile_provider_outbox_dead_letters).                               *)
(*                                                                         *)
(* A database transaction under row locks is one action; what happens      *)
(* between two transactions (the POST to the middleware, an operator's     *)
(* unlocked read) is a separate one. Time is abstracted to what the code   *)
(* compares: a row is due or not, a lease has expired or not, and a lease  *)
(* timestamp is a token that differs from every one still in use.          *)
(***************************************************************************)
EXTENDS Integers, FiniteSets

CONSTANTS
    EventRows,      \* provider_events rows, numbered in created_at order
    UsageRows,      \* provider_usage_events rows, numbered likewise
    Workers,        \* processes running the dispatch loop
    Operators,      \* platform admins in the middle of a manual retry
    Claims,         \* timestamps a claim can carry
    NoClaim,        \* a lease column that is no worker's claim
    NoRow,          \* no row
    Decision,       \* what reconciliation decides about an event row's content
    Undeliverable,  \* rows with an unsupported kind or a malformed payload
    MaxAttempts,    \* attempts before a dead letter: 8 in the code
    BatchLimit,     \* rows claimed by one transaction: at most 50 in the code
    PageLimits,     \* sizes of a reconciliation page: within 1..50 in the code
    MaxCrashes,     \* bound: crashes of workers in one behaviour
    MaxManual       \* bound: manual retries in one behaviour

Rows == EventRows \union UsageRows

ASSUME RowsAssumption ==
    /\ EventRows \subseteq Nat /\ UsageRows \subseteq Nat /\ IsFiniteSet(Rows)
    /\ EventRows \intersect UsageRows = {}
    /\ NoRow \notin Rows
    /\ Undeliverable \subseteq Rows

ASSUME ParameterAssumption ==
    /\ NoClaim \notin Claims
    /\ Decision \in [EventRows -> {"requeue", "skipped", "blocked"}]
    /\ MaxAttempts \in Nat \ {0}
    /\ BatchLimit \in Nat \ {0}
    /\ PageLimits \subseteq Nat \ {0}
    /\ MaxCrashes \in Nat /\ MaxManual \in Nat

VARIABLES
    row,            \* the two outbox tables
    worker,         \* the local variables of each worker's dispatch call
    manual,         \* what each operator read and has not yet written
    accepted,       \* the rows the middleware has accepted at least once
    crashes,        \* crashes so far
    manualCount     \* manual retries begun so far

vars == <<row, worker, manual, accepted, crashes, manualCount>>

Queues == {"events", "usage"}
QueueRows(queue) == IF queue = "events" THEN EventRows ELSE UsageRows
OtherQueue(queue) == IF queue = "events" THEN "usage" ELSE "events"

RowStates == {"PENDING", "PROCESSING", "RETRY", "DEAD_LETTER", "DELIVERED", "SKIPPED"}

Errors == {"none", "failed", "blocked"}

\* due: available_at has passed. error: last_error is empty, tells of a failure,
\* or is the marker of a row that reconciliation has blocked. claim, expired:
\* of a PROCESSING row, the lease column (updated_at of an event, available_at
\* of a usage row) as a token, and whether it lies before the expiry limit.
Row == [state : RowStates, attempts : Nat, due : BOOLEAN, error : Errors,
        claim : Claims \union {NoClaim}, expired : BOOLEAN]

Results == {"ok", "failed"}

\* batch: snapshots not yet sent. sending, result: the row whose POST has
\* returned and whose outcome is not yet recorded.
Worker == [queue : Queues, batch : SUBSET Rows, claim : Claims \union {NoClaim},
           sending : Rows \union {NoRow}, result : Results]

Manual == [row : Rows \union {NoRow}, state : RowStates, attempts : Nat, error : Errors]

NewRow == [state |-> "PENDING", attempts |-> 0, due |-> TRUE, error |-> "none",
           claim |-> NoClaim, expired |-> FALSE]
IdleWorker == [queue |-> "events", batch |-> {}, claim |-> NoClaim,
               sending |-> NoRow, result |-> "failed"]
NoManual == [row |-> NoRow, state |-> "RETRY", attempts |-> 0, error |-> "none"]

Init ==
    /\ row = [r \in Rows |-> NewRow]
    /\ worker = [w \in Workers |-> IdleWorker]
    /\ manual = [o \in Operators |-> NoManual]
    /\ accepted = {}
    /\ crashes = 0
    /\ manualCount = 0

-------------------------------------------------------------------------------
(* Time. *)

\* available_at passes.
BecomeDue(r) ==
    /\ ~row[r].due
    /\ row[r].state \in {"RETRY", "DEAD_LETTER"}
    /\ row' = [row EXCEPT ![r].due = TRUE]
    /\ UNCHANGED <<worker, manual, accepted, crashes, manualCount>>

\* Five minutes pass since the row was claimed.
LeaseExpires(r) ==
    /\ row[r].state = "PROCESSING"
    /\ ~row[r].expired
    /\ row' = [row EXCEPT ![r].expired = TRUE]
    /\ UNCHANGED <<worker, manual, accepted, crashes, manualCount>>

-------------------------------------------------------------------------------
(* The dispatcher. *)

\* The k rows of S that were created first.
Oldest(S, k) == {r \in S : Cardinality({q \in S : q < r}) < k}

\* A row that is no longer PROCESSING; its lease column means nothing.
Released(rec, state) ==
    [rec EXCEPT !.state = state, !.claim = NoClaim, !.expired = FALSE]

\* A faulty variant: rows of dead workers are never found.
StaleNever(queue) == {}

Stale(queue) ==
    {r \in QueueRows(queue) : row[r].state = "PROCESSING" /\ row[r].expired}

\* A faulty variant: recovery hands back an attempt that was never counted.
RecoveredRefunding(r) ==
    [Released(row[r], "RETRY") EXCEPT !.due = TRUE, !.error = "failed",
                                      !.attempts = @ - 1]

Recovered(r) ==
    [Released(row[r], "RETRY") EXCEPT !.due = TRUE, !.error = "failed"]

Claimed(rec, c) ==
    [rec EXCEPT !.state = "PROCESSING", !.claim = c, !.expired = FALSE]

ClaimsInUse ==
    {row[r].claim : r \in Rows} \union {worker[w].claim : w \in Workers}

FreshClaim == CHOOSE c \in Claims : c \notin ClaimsInUse

\* The transaction that opens a pass over one queue: rows with an expired
\* lease are put back, then the oldest due rows are claimed, those just put
\* back included. The first pass of a call is over events, the second over
\* usage, and the worker's loop calls again.
Claim(w) ==
    /\ worker[w].batch = {}
    /\ worker[w].sending = NoRow
    /\ \E stale \in SUBSET Stale(worker[w].queue) :
        LET queue     == worker[w].queue
            waiting   == {r \in QueueRows(queue) :
                            row[r].state \in {"PENDING", "RETRY"} /\ row[r].due}
            batch     == Oldest(waiting \union stale, BatchLimit)
        IN  /\ \/ stale = Stale(queue)
               \/ Cardinality(stale) = BatchLimit
            /\ Cardinality(stale) <= BatchLimit
            /\ FreshClaim \in Claims \ ClaimsInUse
            /\ row' = [r \in Rows |->
                         LET seen == IF r \in stale THEN Recovered(r) ELSE row[r]
                         IN  IF r \in batch THEN Claimed(seen, FreshClaim) ELSE seen]
            /\ worker' = [worker EXCEPT
                            ![w].batch = batch,
                            ![w].claim = IF batch = {} THEN NoClaim ELSE FreshClaim,
                            ![w].queue = OtherQueue(queue)]
    /\ UNCHANGED <<manual, accepted, crashes, manualCount>>

\* One POST of a claimed snapshot. The middleware may accept it although the
\* worker sees a failure; a row that cannot be sent at all never reaches it.
Emit(w) ==
    /\ worker[w].sending = NoRow
    /\ \E r \in worker[w].batch, result \in Results, arrives \in BOOLEAN :
        /\ result = "ok" => arrives
        /\ arrives => r \notin Undeliverable
        /\ worker' = [worker EXCEPT ![w].batch = @ \ {r},
                                    ![w].sending = r,
                                    ![w].result = result]
        /\ accepted' = IF arrives THEN accepted \union {r} ELSE accepted
    /\ UNCHANGED <<row, manual, crashes, manualCount>>

\* Faulty variants: the acknowledgement is not fenced, or by the state alone.
OwnsUnfenced(w, r) == TRUE
OwnsByState(w, r) == row[r].state = "PROCESSING"

\* The row still carries the claim under which the worker sent it.
OwnsClaim(w, r) ==
    /\ row[r].state = "PROCESSING"
    /\ row[r].claim = worker[w].claim

\* A faulty variant: running out of attempts counts as a delivery.
AcknowledgedAtLimit(r, result) ==
    LET attempts == row[r].attempts + 1
    IN  IF result = "ok" \/ attempts >= MaxAttempts
        THEN [Released(row[r], "DELIVERED") EXCEPT !.attempts = attempts, !.error = "none"]
        ELSE [Released(row[r], "RETRY") EXCEPT !.attempts = attempts, !.error = "failed",
                                               !.due = FALSE]

\* What the acknowledging transaction writes.
Acknowledged(r, result) ==
    LET attempts == row[r].attempts + 1
        failed   == IF attempts >= MaxAttempts THEN "DEAD_LETTER" ELSE "RETRY"
    IN  IF result = "ok"
        THEN [Released(row[r], "DELIVERED") EXCEPT !.attempts = attempts, !.error = "none"]
        ELSE [Released(row[r], failed) EXCEPT !.attempts = attempts, !.error = "failed",
                                              !.due = FALSE]

\* The outcome is recorded only under the claim it was sent under.
Acknowledge(w) ==
    /\ worker[w].sending # NoRow
    /\ LET r == worker[w].sending
       IN  row' = IF OwnsClaim(w, r)
                  THEN [row EXCEPT ![r] = Acknowledged(r, worker[w].result)]
                  ELSE row
    /\ worker' = [worker EXCEPT ![w].sending = NoRow, ![w].result = "failed"]
    /\ UNCHANGED <<manual, accepted, crashes, manualCount>>

\* The process dies or the call is cancelled; its rows stay PROCESSING.
Crash(w) ==
    /\ crashes < MaxCrashes
    /\ worker[w].batch # {} \/ worker[w].sending # NoRow
    /\ worker' = [worker EXCEPT ![w] = IdleWorker]
    /\ crashes' = crashes + 1
    /\ UNCHANGED <<row, manual, accepted, manualCount>>

-------------------------------------------------------------------------------
(* The manual retry of one row: an unlocked read, later an update of the     *)
(* columns whose value differs from what was read.                           *)

ManualRead(o, r) ==
    /\ manual[o].row = NoRow
    /\ manualCount < MaxManual
    /\ row[r].state \in {"RETRY", "DEAD_LETTER"}
    /\ manual' = [manual EXCEPT ![o] = [row |-> r, state |-> row[r].state,
                                        attempts |-> row[r].attempts,
                                        error |-> row[r].error]]
    /\ manualCount' = manualCount + 1
    /\ UNCHANGED <<row, worker, accepted, crashes>>

\* The columns set to a value other than the one read. available_at always is,
\* and in a usage row that is PROCESSING it is the lease.
ManualWritten(o) ==
    LET read    == manual[o]
        rec     == [row[read.row] EXCEPT
                      !.attempts = IF read.attempts = 0 THEN @ ELSE 0,
                      !.error = IF read.error = "none" THEN @ ELSE "none",
                      !.due = TRUE]
        unleased == read.row \in UsageRows /\ rec.state = "PROCESSING"
    IN  IF read.state = "DEAD_LETTER" THEN Released(rec, "RETRY")
        ELSE IF unleased THEN [rec EXCEPT !.claim = NoClaim, !.expired = TRUE]
        ELSE rec

ManualWrite(o) ==
    /\ manual[o].row # NoRow
    /\ row' = [row EXCEPT ![manual[o].row] = ManualWritten(o)]
    /\ manual' = [manual EXCEPT ![o] = NoManual]
    /\ UNCHANGED <<worker, accepted, crashes, manualCount>>

-------------------------------------------------------------------------------
(* Reconciliation of dead letters, one page per transaction.                 *)

DueDead(S) == {r \in S : row[r].state = "DEAD_LETTER" /\ row[r].due}
Unreviewed(S) == {r \in S : row[r].error # "blocked"}

\* Rows already blocked sort behind the unreviewed ones.
FirstEvents(S, k) ==
    LET fresh == Oldest(Unreviewed(S), k)
    IN  fresh \union Oldest(S \ Unreviewed(S), k - Cardinality(fresh))

\* A faulty variant: events take the whole page.
EventBudgetWhole(limit) == limit

\* How many events a page of the given size may take before it is backfilled.
EventBudget(limit) ==
    LET events == DueDead(EventRows)
    IN  IF events = {} THEN 0
        ELSE IF DueDead(UsageRows) = {} THEN limit
        ELSE IF limit = 1 THEN IF Unreviewed(events) # {} THEN 1 ELSE 0
        ELSE limit \div 2

Smaller(a, b) == IF a < b THEN a ELSE b

PageEvents(limit) ==
    LET events    == DueDead(EventRows)
        budget    == EventBudget(limit)
        usages    == Smaller(limit - budget, Cardinality(DueDead(UsageRows)))
        first     == FirstEvents(events, budget)
    IN  first \union FirstEvents(events \ first, limit - Cardinality(first) - usages)

PageUsages(limit) ==
    Oldest(DueDead(UsageRows), limit - Cardinality(PageEvents(limit)))

\* Blocked rows stay dead letters and are marked.
Reconciled(r) ==
    CASE r \in UsageRows \/ Decision[r] = "requeue" ->
           [Released(row[r], "RETRY") EXCEPT !.attempts = 0, !.due = TRUE, !.error = "none"]
      [] r \in EventRows /\ Decision[r] = "skipped" ->
           [Released(row[r], "SKIPPED") EXCEPT !.error = "failed"]
      [] r \in EventRows /\ Decision[r] = "blocked" ->
           [row[r] EXCEPT !.error = "blocked"]

Reconcile(limit) ==
    LET page == PageEvents(limit) \union PageUsages(limit)
    IN  /\ page # {}
        /\ row' = [r \in Rows |-> IF r \in page THEN Reconciled(r) ELSE row[r]]
        /\ UNCHANGED <<worker, manual, accepted, crashes, manualCount>>

-------------------------------------------------------------------------------

Next ==
    \/ \E r \in Rows : BecomeDue(r) \/ LeaseExpires(r)
    \/ \E w \in Workers : Claim(w) \/ Emit(w) \/ Acknowledge(w) \/ Crash(w)
    \/ \E o \in Operators : ManualWrite(o) \/ \E r \in Rows : ManualRead(o, r)
    \/ \E limit \in PageLimits : Reconcile(limit)

Spec == Init /\ [][Next]_vars

\* Workers loop for ever and time passes; operators and reconciliation are
\* started by people and owe nothing.
Fairness ==
    /\ \A w \in Workers : WF_vars(Claim(w)) /\ WF_vars(Emit(w)) /\ WF_vars(Acknowledge(w))
    /\ \A r \in Rows : WF_vars(BecomeDue(r)) /\ WF_vars(LeaseExpires(r))

FairSpec == Spec /\ Fairness

-------------------------------------------------------------------------------
(* Properties.                                                                *)

\* Every variable stays within its declared type.
TypeOK ==
    /\ row \in [Rows -> Row]
    /\ worker \in [Workers -> Worker]
    /\ manual \in [Operators -> Manual]
    /\ accepted \in SUBSET Rows
    /\ crashes \in Nat
    /\ manualCount \in Nat

\* The rows of a worker's current pass whose outcome is not yet recorded.
Held(w) ==
    worker[w].batch \union (IF worker[w].sending = NoRow THEN {} ELSE {worker[w].sending})

\* However often leases expire and rows are claimed again, at most one worker
\* can still record an outcome for a row: the last one that claimed it.
OneLiveClaim ==
    \A v, w \in Workers : \A r \in Held(v) \intersect Held(w) :
        OwnsClaim(v, r) /\ OwnsClaim(w, r) => v = w

\* A row is marked DELIVERED only when the middleware has accepted it,
\* whichever worker, stale or not, reports the outcome.
DeliveredWasAccepted ==
    \A r \in Rows : row[r].state = "DELIVERED" => r \in accepted

\* A settled row is opened again by nothing but a manual retry that still acts
\* on a dead letter it read before: no late worker, expired lease or
\* reconciliation page revives it.
SettledStays ==
    [][\A r \in Rows :
          row[r].state \in {"DELIVERED", "SKIPPED"} =>
            \/ row'[r].state = row[r].state
            \/ \E o \in Operators : manual[o].row = r /\ manual[o].state = "DEAD_LETTER"]_vars

\* A page of reconciliation is as full as its limit allows, takes rows of both
\* queues when both have due dead letters (pages of one row apart), and takes
\* no event already marked as blocked while an unreviewed one has to wait.
PagesAreFullAndFair ==
    \A limit \in PageLimits :
        LET events == DueDead(EventRows)
            usages == DueDead(UsageRows)
            page   == PageEvents(limit) \union PageUsages(limit)
        IN  /\ Cardinality(page) = Smaller(limit, Cardinality(events \union usages))
            /\ limit > 1 /\ events # {} /\ usages # {} =>
                 page \intersect events # {} /\ page \intersect usages # {}
            /\ page \intersect events \subseteq Unreviewed(events)
                 \/ Unreviewed(events) \subseteq page

\* Every row that is waiting or in flight is eventually settled or given up,
\* whatever is undeliverable beside it and whoever crashes holding it.
EveryRowSettles ==
    \A r \in Rows :
        row[r].state \in {"PENDING", "PROCESSING", "RETRY"}
            ~> row[r].state \in {"DELIVERED", "DEAD_LETTER", "SKIPPED"}

\* While a usage row is PROCESSING its available_at is the deadline of a claim.
UsageDeadlineIsClaim ==
    \A r \in UsageRows : row[r].state = "PROCESSING" => row[r].claim # NoClaim

\* The outbox keeps the promise of an at-least-once outbox.
RowStatus(r) ==
    CASE row[r].state \in {"PENDING", "PROCESSING", "RETRY"} -> "open"
      [] row[r].state = "DELIVERED" -> "delivered"
      [] row[r].state = "DEAD_LETTER" -> "dead"
      [] row[r].state = "SKIPPED" -> "skipped"

Promise == INSTANCE AtLeastOnceOutbox WITH
             Items <- Rows,
             ManualRetry <- Operators # {},
             status <- [r \in Rows |-> RowStatus(r)],
             received <- accepted

KeepsPromise == Promise!Spec
=============================================================================
