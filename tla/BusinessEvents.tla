---------------------------- MODULE BusinessEvents ----------------------------
(***************************************************************************)
(* The business event outbox: rows that API transactions insert            *)
(* (enqueue_event), the workers that publish them to the middleware        *)
(* (business_event_worker.dispatch), and the replay of dead letters.       *)
(*                                                                         *)
(* Every lease has an owner of its own (a fresh UUID, here a token), and   *)
(* an outcome is written only under that owner and if the lease had not    *)
(* expired when the worker read its clock, which it does before it asks    *)
(* for the row. Time is abstracted to whether a row is due and whether     *)
(* its lease has expired.                                                  *)
(***************************************************************************)
EXTENDS Integers, FiniteSets

CONSTANTS
    Events,             \* event ids, numbered in created_at order
    Publishers,         \* processes with the role "business"
    Leases,             \* lease owners
    NoLease,            \* lease_owner is null
    NoEvent,            \* no event
    EventMaxAttempts,   \* attempts before a dead letter: 8 by default
    EventLimit,         \* leases of one pass: 50 in the code
    EventMaxFaults      \* bound: crashes of publishers and replays of dead letters

ASSUME EventAssumption ==
    /\ Events \subseteq Nat /\ NoEvent \notin Events
    /\ NoLease \notin Leases
    /\ IsFiniteSet(Leases) /\ IsFiniteSet(Publishers)
    /\ Cardinality(Leases) > Cardinality(Publishers) + 1
    /\ EventMaxAttempts \in Nat \ {0} /\ EventLimit \in Nat \ {0}
    /\ EventMaxFaults \in Nat

VARIABLES
    event,          \* the table business_event_outbox
    publisher,      \* the local variables of each dispatch call
    published,      \* the events the middleware has
    eventFaults     \* crashes and replays so far

eventVars == <<event, publisher, published, eventFaults>>

EventStates == {"NONE", "PENDING", "LEASED", "RETRYING", "DELIVERED", "DEAD_LETTER"}
EventResults == {"accepted", "retryable", "refused"}

EventRow == [state : EventStates, attempts : Nat, due : BOOLEAN,
             owner : Leases \union {NoLease}, expired : BOOLEAN]

\* lease: the leases of the pass not yet worked off. sending, result: the event
\* that was posted and its outcome; inTime: its lease was unexpired when the
\* worker read completed_at.
Publisher == [lease : [Events -> Leases \union {NoLease}],
              sending : Events \union {NoEvent}, result : EventResults, inTime : BOOLEAN]

IdlePublisher == [lease |-> [e \in Events |-> NoLease],
                  sending |-> NoEvent, result |-> "refused", inTime |-> FALSE]

EventInit ==
    /\ event = [e \in Events |-> [state |-> "NONE", attempts |-> 0, due |-> TRUE,
                                  owner |-> NoLease, expired |-> FALSE]]
    /\ publisher = [p \in Publishers |-> IdlePublisher]
    /\ published = {}
    /\ eventFaults = 0

-------------------------------------------------------------------------------
\* A business transaction commits with its event. Enqueueing the same event
\* again returns the row that is there.
EventEnqueue(e) ==
    /\ event[e].state = "NONE"
    /\ event' = [event EXCEPT ![e].state = "PENDING"]
    /\ UNCHANGED <<publisher, published, eventFaults>>

\* next_attempt_at passes.
EventBecomesDue(e) ==
    /\ event[e].state = "RETRYING" /\ ~event[e].due
    /\ event' = [event EXCEPT ![e].due = TRUE]
    /\ UNCHANGED <<publisher, published, eventFaults>>

\* lease_expires_at passes.
EventLeaseExpires(e) ==
    /\ event[e].state = "LEASED" /\ ~event[e].expired
    /\ event' = [event EXCEPT ![e].expired = TRUE]
    /\ UNCHANGED <<publisher, published, eventFaults>>

\* The first EventLimit events of S.
EventPage(S) == {e \in S : Cardinality({d \in S : d < e}) < EventLimit}

EventUnleased(rec, state, due) ==
    [rec EXCEPT !.state = state, !.due = due, !.owner = NoLease, !.expired = FALSE]

EventAfterExpiry(rec) ==
    EventUnleased(rec, IF rec.attempts >= EventMaxAttempts THEN "DEAD_LETTER" ELSE "RETRYING",
                  TRUE)

EventLeased(rec, o) ==
    [rec EXCEPT !.state = "LEASED", !.attempts = @ + 1, !.owner = o, !.expired = FALSE]

EventExpired == EventPage({e \in Events : event[e].state = "LEASED" /\ event[e].expired})

\* The rows after the first half of _claim.
EventSwept == [e \in Events |-> IF e \in EventExpired THEN EventAfterExpiry(event[e])
                                ELSE event[e]]

EventCandidates ==
    EventPage({e \in Events : EventSwept[e].state \in {"PENDING", "RETRYING"} /\ EventSwept[e].due})

LeasesInUse(e) == {event[e].owner} \union {publisher[p].lease[e] : p \in Publishers}

\* A new owner: owners are compared only with those of the same row.
FreshLease(e) == CHOOSE o \in Leases : o \notin LeasesInUse(e)

\* One transaction returns expired rows and leases those that are due, each
\* with an owner of its own.
EventClaim(p) ==
    /\ publisher[p] = IdlePublisher
    /\ EventExpired \union EventCandidates # {}
    /\ event' = [e \in Events |-> IF e \in EventCandidates
                                  THEN EventLeased(EventSwept[e], FreshLease(e))
                                  ELSE EventSwept[e]]
    /\ publisher' = [publisher EXCEPT ![p].lease =
          [e \in Events |-> IF e \in EventCandidates THEN FreshLease(e) ELSE NoLease]]
    /\ UNCHANGED <<published, eventFaults>>

EventHeld(p) == {e \in Events : publisher[p].lease[e] # NoLease}

\* A faulty variant: the outcome is written without a look at the row.
EventUnfenced(e, lease) == TRUE

EventOwned(e, lease) == event[e].state = "LEASED" /\ event[e].owner = lease

\* The oldest lease of the pass is posted and the clock is read. A refused or
\* unreadable answer says nothing of whether the middleware has the event.
EventPost(p) ==
    /\ publisher[p].sending = NoEvent
    /\ \E e \in EventHeld(p), result \in EventResults, received \in BOOLEAN :
          /\ \A d \in EventHeld(p) : e <= d
          /\ result = "accepted" => received
          /\ published' = IF received THEN published \union {e} ELSE published
          /\ publisher' = [publisher EXCEPT
                ![p].sending = e, ![p].result = result,
                ![p].inTime = EventOwned(e, publisher[p].lease[e]) /\ ~event[e].expired]
    /\ UNCHANGED <<event, eventFaults>>

EventOutcome(rec, result) ==
    IF result = "accepted" THEN EventUnleased(rec, "DELIVERED", TRUE)
    ELSE IF result = "retryable" /\ rec.attempts < EventMaxAttempts
         THEN EventUnleased(rec, "RETRYING", FALSE)
         ELSE EventUnleased(rec, "DEAD_LETTER", TRUE)

\* The outcome is written if the lease is still this one and was in time.
EventComplete(p) ==
    LET e == publisher[p].sending
    IN /\ e # NoEvent
       /\ event' = IF publisher[p].inTime /\ EventOwned(e, publisher[p].lease[e])
                   THEN [event EXCEPT ![e] = EventOutcome(@, publisher[p].result)]
                   ELSE event
       /\ publisher' = [publisher EXCEPT
             ![p] = [IdlePublisher EXCEPT !.lease = [publisher[p].lease EXCEPT ![e] = NoLease]]]
       /\ UNCHANGED <<published, eventFaults>>

\* The process dies, or an exception ends the pass: its leases stay behind.
EventCrash(p) ==
    /\ publisher[p] # IdlePublisher
    /\ eventFaults < EventMaxFaults
    /\ eventFaults' = eventFaults + 1
    /\ publisher' = [publisher EXCEPT ![p] = IdlePublisher]
    /\ UNCHANGED <<event, published>>

\* An operator replays a dead letter under its row lock.
EventReplay(e) ==
    /\ event[e].state = "DEAD_LETTER"
    /\ eventFaults < EventMaxFaults
    /\ eventFaults' = eventFaults + 1
    /\ event' = [event EXCEPT ![e] = [EventUnleased(@, "RETRYING", TRUE) EXCEPT !.attempts = 0]]
    /\ UNCHANGED <<publisher, published>>

EventNext ==
    \/ \E e \in Events : \/ EventEnqueue(e) \/ EventBecomesDue(e)
                         \/ EventLeaseExpires(e) \/ EventReplay(e)
    \/ \E p \in Publishers : \/ EventClaim(p) \/ EventPost(p)
                             \/ EventComplete(p) \/ EventCrash(p)

\* The worker host calls dispatch for ever, and time passes.
EventFairness ==
    /\ \A e \in Events : WF_eventVars(EventBecomesDue(e)) /\ WF_eventVars(EventLeaseExpires(e))
    /\ \A p \in Publishers : WF_eventVars(EventClaim(p) \/ EventPost(p) \/ EventComplete(p))

EventSpec == EventInit /\ [][EventNext]_eventVars /\ EventFairness

-------------------------------------------------------------------------------
EventTypeOK ==
    /\ event \in [Events -> EventRow]
    /\ publisher \in [Publishers -> Publisher]
    /\ published \in SUBSET Events
    /\ eventFaults \in 0..EventMaxFaults

EventStatus(state) == CASE state = "DELIVERED" -> "delivered"
                        [] state = "DEAD_LETTER" -> "dead"
                        [] OTHER -> "open"

EventPromise == INSTANCE AtLeastOnceOutbox WITH
    Items <- Events,
    ManualRetry <- FALSE,
    status <- [e \in Events |-> EventStatus(event[e].state)],
    received <- published

\* The outbox implements the abstract at-least-once outbox without manual
\* retries: whichever workers answer late, an event is recorded as delivered
\* only when the middleware has it, and a settled event is reopened by nothing
\* but a replay of a dead letter (_complete, replay_dead_letter).
EventKeepsPromise == EventPromise!Spec

\* An event whose transaction committed is not kept for ever: with attempts
\* that run out, batches, crashes and leases that expire during a slow batch it
\* becomes DELIVERED or DEAD_LETTER (dispatch, _claim).
EveryEventSettles ==
    \A e \in Events : event[e].state = "PENDING" ~> event[e].state \in {"DELIVERED", "DEAD_LETTER"}
===============================================================================
