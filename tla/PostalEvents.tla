----------------------------- MODULE PostalEvents -----------------------------
(***************************************************************************)
(* Postal's lifecycle callbacks (postal_callback_attribution, which        *)
(* replaces the hook of main.py): attribution, the callback's own record,  *)
(* its effect on the message and the suppression list                      *)
(* (persist_email_event), the forwarding to the middleware, and the loop   *)
(* that repeats what failed (postal_retry_loop).                           *)
(*                                                                         *)
(* Nothing is locked. The hook loads the record once; the session keeps    *)
(* it across its commits, and SQLAlchemy writes only the columns whose     *)
(* value differs from what was loaded. So a hook is a read followed by     *)
(* three commits, and the loop a read, a post and a commit.                *)
(***************************************************************************)
EXTENDS Integers, FiniteSets

CONSTANTS
    Callbacks,          \* event ids of Postal's callbacks about one message
    CallbackKind,       \* what each of them reports, bounces classified
    Tagged,             \* callbacks that name the message by its tag
    Hooks,              \* requests being handled at a time
    NoCallback,         \* no callback
    CallbackMaxAttempts,\* attempts before a dead letter: 5 in the code
    CallbackMaxCalls    \* bound: times Postal sends one callback

Kinds == {"provider_accepted", "delivered", "deferred", "bounced", "complained", "failed",
          "opened"}

ASSUME CallbackAssumption ==
    /\ CallbackKind \in [Callbacks -> Kinds] /\ Tagged \subseteq Callbacks
    /\ NoCallback \notin Callbacks
    /\ CallbackMaxAttempts \in Nat \ {0} /\ CallbackMaxCalls \in Nat

VARIABLES
    record,         \* the table postal_events
    hook,           \* what each request has loaded, and how far it is
    retry,          \* the retry loop: its page, what it posted and read again
    mail,           \* status of the message, and whether its provider id is known
    suppressed,     \* the recipient is on the suppression list
    recorded,       \* callbacks whose effect is committed (the table events)
    heard,          \* callbacks the middleware has
    answered,       \* callbacks answered with success: Postal stops
    calls,          \* times Postal has sent each callback
    tried           \* attempts to forward each callback that were begun

callbackVars ==
    <<record, hook, retry, mail, suppressed, recorded, heard, answered, calls, tried>>

RecordStates == {"none", "pending", "retry", "delivered", "dlq"}
Record == [state : RecordStates, attempts : Nat, due : BOOLEAN]

Hook == [callback : Callbacks \union {NoCallback}, step : {"loaded", "counted", "persisted"},
         state : RecordStates, attempts : Nat]
Retry == [page : SUBSET Callbacks, posted : Callbacks \union {NoCallback}, ok : BOOLEAN,
          attempts : Nat]

NoRecord == [state |-> "none", attempts |-> 0, due |-> FALSE]
IdleHook == [callback |-> NoCallback, step |-> "loaded", state |-> "none", attempts |-> 0]
IdleRetry == [page |-> {}, posted |-> NoCallback, ok |-> FALSE, attempts |-> 0]

CallbackInit ==
    /\ record = [c \in Callbacks |-> NoRecord]
    /\ hook = [h \in Hooks |-> IdleHook]
    /\ retry = IdleRetry
    /\ mail = [status |-> "processing", known |-> FALSE]
    /\ suppressed = FALSE
    /\ recorded = {} /\ heard = {} /\ answered = {}
    /\ calls = [c \in Callbacks |-> 0]
    /\ tried = [c \in Callbacks |-> 0]

-------------------------------------------------------------------------------
\* The delivery worker records Postal's acceptance: the provider's id becomes
\* known, and the status is written over whatever a callback has written.
AcceptanceRecorded ==
    /\ ~mail.known
    /\ mail' = [status |-> "provider_accepted", known |-> TRUE]
    /\ UNCHANGED <<record, hook, retry, suppressed, recorded, heard, answered, calls, tried>>

\* The time between two attempts passes.
CallbackBecomesDue(c) ==
    /\ record[c].state = "retry" /\ ~record[c].due
    /\ record' = [record EXCEPT ![c].due = TRUE]
    /\ UNCHANGED <<hook, retry, mail, suppressed, recorded, heard, answered, calls, tried>>

\* _resolve_attribution finds the message by what is already recorded: the
\* callback itself, the tag, or the provider's id.
Attributed(c) == record[c].state # "none" \/ c \in Tagged \/ mail.known

\* Postal sends a callback for which it has seen no success. A callback that
\* cannot be attributed yet is answered 503 and comes again.
CallbackArrives(h, c) ==
    /\ hook[h] = IdleHook
    /\ c \notin answered /\ calls[c] < CallbackMaxCalls
    /\ calls' = [calls EXCEPT ![c] = @ + 1]
    /\ IF Attributed(c) /\ record[c].state # "delivered"
       THEN hook' = [hook EXCEPT ![h] = [callback |-> c, step |-> "loaded",
                        state |-> record[c].state, attempts |-> record[c].attempts]]
       ELSE UNCHANGED hook
    /\ answered' = IF record[c].state = "delivered" THEN answered \union {c} ELSE answered
    /\ UNCHANGED <<record, retry, mail, suppressed, recorded, heard, tried>>

\* The attempt is counted on the value loaded. Two requests that both found no
\* record insert it; the second one fails and is answered 500.
CallbackCount(h) ==
    LET c == hook[h].callback
        attempts == hook[h].attempts + 1
    IN /\ c # NoCallback /\ hook[h].step = "loaded"
       /\ IF hook[h].state = "none" /\ record[c].state # "none"
          THEN /\ hook' = [hook EXCEPT ![h] = IdleHook]
               /\ UNCHANGED <<record, tried>>
          ELSE LET loaded == IF hook[h].state = "none" THEN "pending" ELSE hook[h].state
               IN /\ hook' = [hook EXCEPT ![h].step = "counted", ![h].state = loaded,
                                          ![h].attempts = attempts]
                  /\ record' = [record EXCEPT ![c] =
                        [state |-> IF @.state = "none" THEN "pending" ELSE @.state,
                         attempts |-> attempts, due |-> FALSE]]
                  /\ tried' = [tried EXCEPT ![c] = @ + 1]
       /\ UNCHANGED <<retry, mail, suppressed, recorded, heard, answered, calls>>

Suppresses(kind) == kind \in {"bounced", "complained"}

\* persist_email_event. A kind that is no canonical status (opened) raises.
CallbackPersist(h) ==
    LET c == hook[h].callback
        kind == CallbackKind[c]
    IN /\ c # NoCallback /\ hook[h].step = "counted"
       /\ IF kind = "opened"
          THEN /\ hook' = [hook EXCEPT ![h] = IdleHook]
               /\ UNCHANGED <<mail, suppressed, recorded>>
          ELSE /\ hook' = [hook EXCEPT ![h].step = "persisted"]
               /\ mail' = [mail EXCEPT !.status = kind]
               /\ suppressed' = (suppressed \/ Suppresses(kind))
               /\ recorded' = recorded \union {c}
       /\ UNCHANGED <<record, retry, heard, answered, calls, tried>>

Heard(c, received) == IF received THEN heard \union {c} ELSE heard

\* A faulty variant: an attempt that failed is a dead letter at once.
StateAfterForwardAlwaysDead(ok, attempts) == IF ok THEN "delivered" ELSE "dlq"

StateAfterForward(ok, attempts) ==
    IF ok THEN "delivered" ELSE IF attempts >= CallbackMaxAttempts THEN "dlq" ELSE "retry"

\* The event is forwarded and the outcome is written over the loaded state.
CallbackForward(h) ==
    LET c == hook[h].callback
    IN /\ c # NoCallback /\ hook[h].step = "persisted"
       /\ \E ok, received \in BOOLEAN :
             LET state == StateAfterForward(ok, hook[h].attempts)
             IN /\ ok => received
                /\ heard' = Heard(c, received)
                /\ record' = [record EXCEPT
                      ![c].state = IF state = hook[h].state THEN @ ELSE state]
                /\ answered' = IF ok THEN answered \union {c} ELSE answered
       /\ hook' = [hook EXCEPT ![h] = IdleHook]
       /\ UNCHANGED <<retry, mail, suppressed, recorded, calls, tried>>

\* The request fails half-way: the process dies or the database refuses.
CallbackFails(h) ==
    /\ hook[h].callback # NoCallback
    /\ \E received \in BOOLEAN :
          /\ received => hook[h].step = "persisted"
          /\ heard' = Heard(hook[h].callback, received)
    /\ hook' = [hook EXCEPT ![h] = IdleHook]
    /\ UNCHANGED <<record, retry, mail, suppressed, recorded, answered, calls, tried>>

-------------------------------------------------------------------------------
(* The retry loop. *)

Retriable == {c \in Callbacks : /\ record[c].state = "retry" /\ record[c].due
                                /\ record[c].attempts < CallbackMaxAttempts}

\* A page of records is read; those not due yet are passed over.
RetryRead ==
    /\ retry = IdleRetry
    /\ Retriable # {}
    /\ retry' = [retry EXCEPT !.page = Retriable]
    /\ UNCHANGED <<record, hook, mail, suppressed, recorded, heard, answered, calls, tried>>

\* One of them is posted and the record is read again in a new session.
RetryPost ==
    /\ retry.posted = NoCallback
    /\ \E c \in retry.page, ok, received \in BOOLEAN :
          /\ ok => received
          /\ heard' = Heard(c, received)
          /\ tried' = [tried EXCEPT ![c] = @ + 1]
          /\ retry' = [page |-> retry.page \ {c},
                       posted |-> IF record[c].state = "retry" THEN c ELSE NoCallback,
                       ok |-> ok /\ record[c].state = "retry",
                       attempts |-> IF record[c].state = "retry" THEN record[c].attempts ELSE 0]
    /\ UNCHANGED <<record, hook, mail, suppressed, recorded, answered, calls>>

\* The outcome is written; state is not when it is still the one read.
RetryWrite ==
    LET c == retry.posted
        attempts == retry.attempts + 1
        state == StateAfterForward(retry.ok, attempts)
    IN /\ c # NoCallback
       /\ record' = [record EXCEPT ![c] =
             [state |-> IF state = "retry" THEN @.state ELSE state,
              attempts |-> attempts, due |-> FALSE]]
       /\ retry' = [retry EXCEPT !.posted = NoCallback, !.ok = FALSE, !.attempts = 0]
       /\ UNCHANGED <<hook, mail, suppressed, recorded, heard, answered, calls, tried>>

CallbackNext ==
    \/ AcceptanceRecorded
    \/ \E c \in Callbacks : CallbackBecomesDue(c)
    \/ \E h \in Hooks : \/ \E c \in Callbacks : CallbackArrives(h, c)
                        \/ CallbackCount(h) \/ CallbackPersist(h)
                        \/ CallbackForward(h) \/ CallbackFails(h)
    \/ RetryRead \/ RetryPost \/ RetryWrite

CallbackSpec == CallbackInit /\ [][CallbackNext]_callbackVars

-------------------------------------------------------------------------------
CallbackTypeOK ==
    /\ record \in [Callbacks -> Record]
    /\ hook \in [Hooks -> Hook]
    /\ retry \in Retry
    /\ mail \in [status : {"processing"} \union Kinds, known : BOOLEAN]
    /\ suppressed \in BOOLEAN
    /\ recorded \in SUBSET Callbacks /\ heard \in SUBSET Callbacks
    /\ answered \in SUBSET Callbacks
    /\ calls \in [Callbacks -> 0..CallbackMaxCalls]
    /\ tried \in [Callbacks -> Nat]

\* A callback is put aside as a dead letter only after as many attempts as the
\* limit says, although concurrent requests overwrite the counter.
PutAsideWasTried ==
    \A c \in Callbacks : record[c].state = "dlq" => tried[c] >= CallbackMaxAttempts

\* Whatever the order of callbacks, a recipient reported as bounced or
\* complained is suppressed when the report is on record, though a later
\* callback or the delivery worker may overwrite the message's status.
BouncedIsSuppressed ==
    \A c \in recorded : Suppresses(CallbackKind[c]) => suppressed

\* The middleware hears of a callback only after its effect is committed here,
\* and Postal is told to stop only when the middleware has it: repeated and
\* concurrent requests, the loop and failures half-way lose no callback that
\* Postal will not send again (postal_native_hook, postal_retry_loop). What
\* is given up was tried, and what is on record has had its effect.
NoCallbackIsLost ==
    /\ heard \subseteq recorded /\ answered \subseteq heard
    /\ PutAsideWasTried /\ BouncedIsSuppressed
===============================================================================
