------------------------------ MODULE MauticOutbox ------------------------------
(***************************************************************************)
(* The operations for Mautic in the integration outbox: the workers that   *)
(* carry them out (dispatch_mautic_outbox), users who queue and cancel     *)
(* them and ask for their reconciliation, operators who fail and recover   *)
(* them, and the circuit that keeps workers away from a failing Mautic.    *)
(*                                                                         *)
(* A database transaction is one action, except the one that records the   *)
(* answer of a call: it locks the row, then reads the state of the circuit *)
(* without a lock and writes it at its commit, so that two workers can     *)
(* overwrite each other's circuit (Lock and Record). A claim sees the      *)
(* circuit as it is when the row is taken. The operations for N8N and Odoo *)
(* in the same table have no worker and are left out.                      *)
(***************************************************************************)
EXTENDS Integers, FiniteSets

CONSTANTS
    Operations,     \* operations, numbered in the order of their creation
    Workers,        \* processes that run dispatch_mautic_outbox
    NoOperation,    \* no operation
    MaxAttempts,    \* attempts before a refused call is not repeated: 5 in the code
    FailLimit,      \* attempts at which fail_integration gives up: 8 in the code
    Threshold,      \* failures that open the circuit: 5 in the code
    MaxCrashes,     \* bound: crashes of workers in one behaviour
    MaxFails        \* bound: requests to fail an operation

ASSUME OperationsAssumption ==
    Operations \subseteq Nat /\ NoOperation \notin Operations

ASSUME BoundsAssumption ==
    /\ MaxAttempts \in Nat /\ FailLimit \in Nat /\ Threshold \in Nat \ {0}
    /\ MaxCrashes \in Nat /\ MaxFails \in Nat

VARIABLES
    row,            \* the IntegrationOutbox rows
    circuit,        \* the MauticAdapterState
    worker,         \* the local variables of each worker
    performed,      \* how often each operation took effect in Mautic
    count           \* crashes and requests to fail an operation so far

vars == <<row, circuit, worker, performed, count>>

\* due: of a retry, next_attempt_at has passed. expired: of a row in progress,
\* lease_expires_at has passed. late: there is an observation MAUTIC_LATE.
Row == [state : {"none", "PENDING", "PROCESSING", "RETRY", "COMPLETED", "DEAD_LETTER",
                 "CANCELLED"},
        attempts : Nat, due : BOOLEAN, expired : BOOLEAN, late : BOOLEAN]

\* streak: failure_streak, which is only compared with the threshold.
\* until: whether circuit_open_until is not set, has passed or has not.
Circuit == [streak : 0 .. Threshold, until : {"unset", "past", "future"}]

\* ok: a success. busy: the call was not carried out, as Mautic says (429) or
\* as no connection shows. doubt: whatever else counts against the circuit: a
\* server error, a timeout, an unreadable answer, a denial (401, 403, 408).
\* rejected: another client error, or a command that makes no request.
Answers == {"ok", "busy", "doubt", "rejected"}

\* attempt: expected_attempt. fresh: the lease had not passed when the clock
\* was read after the call. seen: the circuit as the transaction read it.
Worker == [step : {"idle", "looking", "claimed", "calling", "answered", "recording"},
           operation : Operations \union {NoOperation}, attempt : Nat,
           answer : Answers, fresh : BOOLEAN, seen : Circuit]

Count == [crashes : Nat, fails : Nat]

\* There is no row until the first answer is recorded. When two workers insert
\* it at once, one of them fails (Crash).
NewCircuit == [streak |-> 0, until |-> "unset"]

IdleWorker == [step |-> "idle", operation |-> NoOperation, attempt |-> 0, answer |-> "ok",
               fresh |-> FALSE, seen |-> NewCircuit]

Init ==
    /\ row = [m \in Operations |-> [state |-> "none", attempts |-> 0, due |-> TRUE,
                                    expired |-> FALSE, late |-> FALSE]]
    /\ circuit = NewCircuit
    /\ worker = [w \in Workers |-> IdleWorker]
    /\ performed = [m \in Operations |-> 0]
    /\ count = [crashes |-> 0, fails |-> 0]

\* A worker that records an answer holds the row's lock.
Locked(m) == \E w \in Workers : worker[w].step = "recording" /\ worker[w].operation = m

-------------------------------------------------------------------------------
(* Time. *)

BecomeDue(m) ==
    /\ row[m].state = "RETRY" /\ ~row[m].due
    /\ row' = [row EXCEPT ![m].due = TRUE]
    /\ UNCHANGED <<circuit, worker, performed, count>>

Expire(m) ==
    /\ row[m].state = "PROCESSING" /\ ~row[m].expired
    /\ row' = [row EXCEPT ![m].expired = TRUE]
    /\ UNCHANGED <<circuit, worker, performed, count>>

CircuitCloses ==
    /\ circuit.until = "future"
    /\ circuit' = [circuit EXCEPT !.until = "past"]
    /\ UNCHANGED <<row, worker, performed, count>>

-------------------------------------------------------------------------------
(* Requests. Each locks the row first (Request). *)

\* A repeated request finds the operation by its idempotency key.
Enqueue(m) ==
    /\ row[m].state = "none"
    /\ row' = [row EXCEPT ![m].state = "PENDING"]
    /\ UNCHANGED <<circuit, worker, performed, count>>

\* A faulty variant: an operation in progress can be cancelled.
CancellableAlways(m) == row[m].state \in {"PENDING", "RETRY", "PROCESSING"}

Cancellable(m) == row[m].state \in {"PENDING", "RETRY"}

\* operation_cancel
Cancel(m) ==
    /\ Cancellable(m)
    /\ row' = [row EXCEPT ![m].state = "CANCELLED"]
    /\ UNCHANGED <<circuit, worker, performed, count>>

\* fail_integration
Fail(m) ==
    /\ row[m].state \in {"PENDING", "RETRY"}
    /\ count.fails < MaxFails
    /\ row' = [row EXCEPT
                 ![m].state = IF row[m].attempts + 1 >= FailLimit THEN "DEAD_LETTER" ELSE "RETRY",
                 ![m].attempts = @ + 1, ![m].due = FALSE]
    /\ count' = [count EXCEPT !.fails = @ + 1]
    /\ UNCHANGED <<circuit, worker, performed>>

\* A faulty variant: only an observation stands in the way.
SafeToRecoverUnseen(m) == ~row[m].late

\* require_safe_integration_recovery
SafeToRecover(m) == row[m].state # "DEAD_LETTER" /\ ~row[m].late

\* recover_integration, operation_reconcile
Recover(m) ==
    /\ row[m].state \in {"RETRY", "DEAD_LETTER"}
    /\ SafeToRecover(m)
    /\ row' = [row EXCEPT ![m].state = "PENDING", ![m].due = TRUE]
    /\ UNCHANGED <<circuit, worker, performed, count>>

-------------------------------------------------------------------------------
(* A worker. *)

\* A faulty variant: the status that users are shown is written to the row.
AfterExpiryShown == "RECONCILIATION_REQUIRED"

\* What _recover_expired makes of a row.
AfterExpiry == "DEAD_LETTER"

\* _recover_expired: every expired row that is not locked.
RecoverExpired(w) ==
    /\ worker[w].step = "idle"
    /\ LET Expired == {m \in Operations : /\ row[m].state = "PROCESSING" /\ row[m].expired
                                      /\ ~Locked(m)}
       IN  row' = [m \in Operations |->
                     IF m \in Expired
                     THEN [row[m] EXCEPT !.state = AfterExpiry, !.expired = FALSE]
                     ELSE row[m]]
    /\ worker' = [worker EXCEPT ![w].step = "looking"]
    /\ UNCHANGED <<circuit, performed, count>>

\* A faulty variant: operations to be tried again are not looked for.
ClaimableFirst == {m \in Operations : row[m].state = "PENDING" /\ row[m].due /\ ~row[m].late}

Claimable ==
    {m \in Operations : row[m].state \in {"PENDING", "RETRY"} /\ row[m].due /\ ~row[m].late}

\* No operation waits, or the circuit is open.
FindNothing(w) ==
    /\ worker[w].step = "looking"
    /\ circuit.until = "future" \/ Claimable = {}
    /\ worker' = [worker EXCEPT ![w] = IdleWorker]
    /\ UNCHANGED <<row, circuit, performed, count>>

Claim(w, m) ==
    /\ worker[w].step = "looking"
    /\ circuit.until # "future"
    /\ m \in Claimable
    /\ \A other \in Claimable : m <= other
    /\ row' = [row EXCEPT ![m].state = "PROCESSING", ![m].attempts = @ + 1,
                          ![m].expired = FALSE]
    /\ worker' = [worker EXCEPT ![w] = [IdleWorker EXCEPT !.step = "claimed", !.operation = m,
                                                          !.attempt = row[m].attempts + 1]]
    /\ UNCHANGED <<circuit, performed, count>>

\* _current_claim: the row is still the worker's, and its lease has not passed.
CurrentClaim(w, fresh) ==
    LET m == worker[w].operation
    IN  row[m].state = "PROCESSING" /\ row[m].attempts = worker[w].attempt /\ fresh

\* The row is read again, without a lock, before the call.
Recheck(w) ==
    /\ worker[w].step = "claimed"
    /\ LET m == worker[w].operation
       IN  IF CurrentClaim(w, ~row[m].expired) /\ ~row[m].late
           THEN worker' = [worker EXCEPT ![w].step = "calling"]
           ELSE worker' = [worker EXCEPT ![w] = IdleWorker]
    /\ UNCHANGED <<row, circuit, performed, count>>

\* The call, whether or not it takes effect, and its answer.
Call(w) ==
    /\ worker[w].step = "calling"
    /\ LET m == worker[w].operation
       IN  /\ \E answer \in Answers :
                /\ worker' = [worker EXCEPT ![w].step = "answered", ![w].answer = answer,
                                            ![w].fresh = ~row[m].expired]
                /\ \/ answer \in {"ok", "doubt"}
                      /\ performed' = [performed EXCEPT ![m] = @ + 1]
                   \/ answer # "ok" /\ UNCHANGED performed
    /\ UNCHANGED <<row, circuit, count>>

\* The claim is no longer current: a success that is not recorded is kept as
\* an observation, and any other answer is dropped.
RecordLate(w) ==
    /\ worker[w].step = "answered"
    /\ ~CurrentClaim(w, worker[w].fresh)
    /\ LET m == worker[w].operation
       IN  IF /\ worker[w].answer = "ok"
              /\ ~(row[m].state = "COMPLETED" /\ row[m].attempts = worker[w].attempt)
           THEN row' = [row EXCEPT ![m].late = TRUE]
           ELSE UNCHANGED row
    /\ worker' = [worker EXCEPT ![w] = IdleWorker]
    /\ UNCHANGED <<circuit, performed, count>>

\* The row is locked, found current, and the circuit read if the answer
\* affects it.
Lock(w) ==
    /\ worker[w].step = "answered"
    /\ CurrentClaim(w, worker[w].fresh)
    /\ worker' = [worker EXCEPT ![w].step = "recording",
                                ![w].seen = IF worker[w].answer = "rejected" THEN @ ELSE circuit]
    /\ UNCHANGED <<row, circuit, performed, count>>

\* A faulty variant: calls with an uncertain outcome are repeated as well.
RetryableAlways(answer) == answer \in {"busy", "doubt"}

\* Only a call that was not carried out is repeated.
Retryable(answer) == answer = "busy"

\* The state the answer leads to: _success, _failure.
StateAfter(w) ==
    LET m == worker[w].operation
    IN  IF worker[w].answer = "ok" THEN "COMPLETED"
        ELSE IF /\ Retryable(worker[w].answer)
                /\ row[m].attempts < MaxAttempts /\ ~row[m].late
             THEN "RETRY" ELSE "DEAD_LETTER"

\* The columns of the circuit that are written: those that differ from what
\* was read.
CircuitAfter(w) ==
    LET seen   == worker[w].seen
        streak == IF seen.streak = Threshold THEN Threshold ELSE seen.streak + 1
    IN  CASE worker[w].answer = "ok" ->
               [streak |-> IF seen.streak # 0 THEN 0 ELSE circuit.streak,
                until  |-> IF seen.until # "unset" THEN "unset" ELSE circuit.until]
          [] worker[w].answer = "rejected" -> circuit
          [] OTHER -> [streak |-> streak,
                       until  |-> IF streak = Threshold THEN "future" ELSE circuit.until]

Record(w) ==
    /\ worker[w].step = "recording"
    /\ LET m == worker[w].operation
       IN  row' = [row EXCEPT ![m].state = StateAfter(w), ![m].expired = FALSE,
                              ![m].due = (StateAfter(w) = "COMPLETED")]
    /\ circuit' = CircuitAfter(w)
    /\ worker' = [worker EXCEPT ![w] = IdleWorker]
    /\ UNCHANGED <<performed, count>>

\* The process dies, or an exception ends the pass.
Crash(w) ==
    /\ worker[w].step # "idle"
    /\ count.crashes < MaxCrashes
    /\ worker' = [worker EXCEPT ![w] = IdleWorker]
    /\ count' = [count EXCEPT !.crashes = @ + 1]
    /\ UNCHANGED <<row, circuit, performed>>

-------------------------------------------------------------------------------

Time(m) == BecomeDue(m) \/ Expire(m)

Request(m) ==
    ~Locked(m) /\ (Enqueue(m) \/ Cancel(m) \/ Fail(m) \/ Recover(m))

Pass(w) ==
    \/ RecoverExpired(w)
    \/ FindNothing(w) \/ \E m \in Operations : Claim(w, m)
    \/ Recheck(w) \/ Call(w) \/ RecordLate(w) \/ Lock(w) \/ Record(w)

Next ==
    \/ \E m \in Operations : Time(m) \/ Request(m)
    \/ CircuitCloses
    \/ \E w \in Workers : Pass(w) \/ Crash(w)

Spec == Init /\ [][Next]_vars

\* Time passes and the loop of every worker goes on; users owe nothing.
Fairness ==
    /\ \A m \in Operations : WF_vars(BecomeDue(m)) /\ WF_vars(Expire(m))
    /\ WF_vars(CircuitCloses)
    /\ \A w \in Workers : WF_vars(Pass(w))

FairSpec == Spec /\ Fairness

-------------------------------------------------------------------------------
(* Properties. *)

\* Every variable stays within its declared type.
TypeOK ==
    /\ row \in [Operations -> Row]
    /\ circuit \in Circuit
    /\ worker \in [Workers -> Worker]
    /\ performed \in [Operations -> Nat]
    /\ count \in Count

\* An operation that took effect is never found waiting or cancelled, which
\* would hide the effect from the users and let it happen again.
EffectIsVisible ==
    \A m \in Operations :
        performed[m] > 0 => row[m].state \in {"PROCESSING", "COMPLETED", "DEAD_LETTER"}

\* An observation of a late success belongs to an operation that has been put
\* aside or is about to be: no worker holds a claim on it that could complete,
\* repeat or release it.
LateIsPutAside ==
    \A m \in Operations :
        row[m].late =>
            /\ performed[m] > 0
            /\ row[m].state = "DEAD_LETTER" \/ (row[m].state = "PROCESSING" /\ row[m].expired)
            /\ \A w \in Workers : worker[w].operation # m

\* What the users are told of the operations.
Told ==
    [m \in Operations |->
       CASE row[m].state \in {"PENDING", "PROCESSING", "RETRY"} -> "open"
         [] row[m].state = "COMPLETED" -> "completed"
         [] row[m].state = "DEAD_LETTER" -> "uncertain"
         [] row[m].state = "CANCELLED" -> "cancelled"
         [] OTHER -> "none"]

Promise == INSTANCE AtMostOnceOutbox
             WITH promise <- Told, effects <- performed

\* No operation takes effect twice, whatever workers, users and operators do;
\* a completed one took effect, a cancelled one never does, and one that is
\* put aside stays so.
KeepsPromise == Promise!PromiseSpec

\* Every operation is eventually completed, cancelled or put aside,
\* although workers crash and the circuit opens.
Open(m) == row[m].state \in {"PENDING", "PROCESSING", "RETRY"}
EveryOperationSettles == \A m \in Operations : Open(m) ~> ~Open(m)
===============================================================================
