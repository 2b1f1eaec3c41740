--------------------------- MODULE MessagingProofs ----------------------------
(***************************************************************************)
(* Proofs about what the gateway sends, and about what it publishes to and *)
(* takes from the middleware and Postal, for any events, commands,         *)
(* callbacks, tenants, messages, workers and faults: BusinessEvents        *)
(* implements the abstract at-least-once outbox, a send command makes one  *)
(* message, no callback is lost, usage snapshots are current, every second *)
(* acceptance of a security mail was asked for, and a gate that was closed *)
(* and answered binds every request to send that begins later.             *)
(***************************************************************************)
EXTENDS BusinessEvents, MiddlewareCommands, PostalEvents, UsageSnapshots,
        SecurityMail, SendGates, FiniteSetTheorems, TLAPS

-------------------------------------------------------------------------------
(***************************************************************************)
(* Business events: types, and the refinement of AtLeastOnceOutbox without *)
(* manual retries. A lease that a publisher holds is no other publisher's. *)
(***************************************************************************)

(* Leases. *)

\* A fresh lease exists: there are more leases than publishers and rows use.
LEMMA FreshLeaseExists ==
  ASSUME NEW e \in Events
  PROVE  FreshLease(e) \in Leases /\ FreshLease(e) \notin LeasesInUse(e)
<1> DEFINE held == {publisher[p].lease[e] : p \in Publishers}
           holding == [p \in Publishers |-> publisher[p].lease[e]]
<1>1. holding \in Surjection(Publishers, held)
  BY DEF Surjection
<1>2. IsFiniteSet(Publishers) /\ IsFiniteSet(Leases)
        /\ Cardinality(Leases) > Cardinality(Publishers) + 1
  BY EventAssumption
<1>3. IsFiniteSet(held) /\ Cardinality(held) <= Cardinality(Publishers)
  BY <1>1, <1>2, FS_Surjection
<1>4. Cardinality(held) \in Nat /\ Cardinality(Publishers) \in Nat /\ Cardinality(Leases) \in Nat
  BY <1>2, <1>3, FS_CardinalityType
<1>5. LeasesInUse(e) = held \union {event[e].owner}
  BY DEF LeasesInUse
<1> HIDE DEF held, holding
<1>6. IsFiniteSet(LeasesInUse(e)) /\ Cardinality(LeasesInUse(e)) <= Cardinality(held) + 1
  <2>1. PICK o : o = event[e].owner
    OBVIOUS
  <2>2. /\ IsFiniteSet(held \union {o})
        /\ Cardinality(held \union {o}) = IF o \in held THEN Cardinality(held)
                                          ELSE Cardinality(held) + 1
    BY <1>3, FS_AddElement
  <2>3. QED
    BY <1>4, <1>5, <2>1, <2>2
<1>7. \E o \in Leases : o \notin LeasesInUse(e)
  <2> SUFFICES ASSUME Leases \in SUBSET LeasesInUse(e) PROVE FALSE
    OBVIOUS
  <2>1. Cardinality(Leases) <= Cardinality(LeasesInUse(e))
    BY <1>6, FS_Subset
  <2>2. Cardinality(LeasesInUse(e)) \in Nat
    BY <1>6, FS_CardinalityType
  <2>3. QED
    BY <1>2, <1>3, <1>4, <1>6, <2>1, <2>2
<1>8. QED
  BY <1>7 DEF FreshLease

-------------------------------------------------------------------------------
(* Rows. *)

\* What the transactions write to a row.
LEMMA UnleasedType ==
  ASSUME NEW rec \in EventRow, NEW state \in EventStates, NEW due \in BOOLEAN
  PROVE  /\ EventUnleased(rec, state, due) \in EventRow
         /\ EventUnleased(rec, state, due).state = state
  BY DEF EventUnleased, EventRow

LEMMA AfterExpiryType ==
  ASSUME NEW rec \in EventRow
  PROVE  /\ EventAfterExpiry(rec) \in EventRow
         /\ EventAfterExpiry(rec).state \in {"RETRYING", "DEAD_LETTER"}
<1>1. {"RETRYING", "DEAD_LETTER"} \subseteq EventStates
  BY DEF EventStates
<1>2. QED
  BY <1>1, UnleasedType DEF EventAfterExpiry

LEMMA LeasedType ==
  ASSUME NEW rec \in EventRow, NEW o \in Leases
  PROVE  EventLeased(rec, o) \in EventRow /\ EventLeased(rec, o).state = "LEASED"
<1>1. EventLeased(rec, o) = [rec EXCEPT !.state = "LEASED", !.attempts = rec.attempts + 1,
                                        !.owner = o, !.expired = FALSE]
  BY DEF EventLeased, EventRow
<1>2. rec.attempts + 1 \in Nat /\ "LEASED" \in EventStates
  BY DEF EventRow, EventStates
<1>3. QED
  BY <1>1, <1>2 DEF EventRow

LEMMA OutcomeType ==
  ASSUME NEW rec \in EventRow, NEW result \in EventResults
  PROVE  /\ EventOutcome(rec, result) \in EventRow
         /\ EventOutcome(rec, result).state \in {"DELIVERED", "RETRYING", "DEAD_LETTER"}
         /\ EventOutcome(rec, result).state = "DELIVERED" => result = "accepted"
<1>1. {"DELIVERED", "RETRYING", "DEAD_LETTER"} \subseteq EventStates
  BY DEF EventStates
<1>2. QED
  BY <1>1, UnleasedType DEF EventOutcome

\* A claim leaves a row, takes it or gives it back, and takes only open ones.
LEMMA ClaimWrites ==
  ASSUME EventTypeOK, NEW p \in Publishers, EventClaim(p)
  PROVE  /\ event' \in [Events -> EventRow]
         /\ publisher' \in [Publishers -> Publisher]
         /\ publisher'[p].sending = NoEvent
         /\ \A q \in Publishers \ {p} : publisher'[q] = publisher[q]
         /\ \A e \in Events :
              \/ event'[e] = event[e]
              \/ /\ event[e].state \in {"PENDING", "RETRYING", "LEASED"}
                 /\ event'[e].state \in {"LEASED", "RETRYING", "DEAD_LETTER"}
<1>1. \A e \in Events : event[e] \in EventRow /\ FreshLease(e) \in Leases
  BY FreshLeaseExists DEF EventTypeOK
<1>2. \A e \in Events : e \in EventExpired => event[e].state = "LEASED"
  BY DEF EventExpired, EventPage
<1>3. \A e \in Events : EventSwept[e] \in EventRow /\
        \/ EventSwept[e] = event[e]
        \/ event[e].state = "LEASED" /\ EventSwept[e].state \in {"RETRYING", "DEAD_LETTER"}
  BY <1>1, <1>2, AfterExpiryType DEF EventSwept
<1>4. \A e \in Events : e \in EventCandidates => EventSwept[e].state \in {"PENDING", "RETRYING"}
  BY DEF EventCandidates, EventPage
<1>5. event' = [e \in Events |-> IF e \in EventCandidates
                                 THEN EventLeased(EventSwept[e], FreshLease(e))
                                 ELSE EventSwept[e]]
  BY DEF EventClaim
<1>6. ASSUME NEW e \in Events
      PROVE  /\ event'[e] \in EventRow
             /\ \/ event'[e] = event[e]
                \/ /\ event[e].state \in {"PENDING", "RETRYING", "LEASED"}
                   /\ event'[e].state \in {"LEASED", "RETRYING", "DEAD_LETTER"}
  <2>1. CASE e \in EventCandidates
    <3>1. event'[e] = EventLeased(EventSwept[e], FreshLease(e))
      BY <1>5, <2>1
    <3>2. event'[e] \in EventRow /\ event'[e].state = "LEASED"
      BY <1>1, <1>3, <3>1, LeasedType
    <3>3. QED
      BY <1>3, <1>4, <2>1, <3>2
  <2>2. CASE e \notin EventCandidates
    BY <1>3, <1>5, <2>2
  <2>3. QED
    BY <2>1, <2>2
<1>7. event' \in [Events -> EventRow]
  BY <1>5, <1>6
<1> DEFINE taken == [e \in Events |-> IF e \in EventCandidates THEN FreshLease(e) ELSE NoLease]
<1>8. taken \in [Events -> Leases \union {NoLease}]
  BY <1>1
<1>9. publisher' = [publisher EXCEPT ![p].lease = taken] /\ publisher[p] = IdlePublisher
  BY DEF EventClaim
<1> HIDE DEF taken
<1>10. [publisher[p] EXCEPT !.lease = taken] \in Publisher
  BY <1>8 DEF EventTypeOK, Publisher
<1>11. publisher' = [publisher EXCEPT ![p] = [publisher[p] EXCEPT !.lease = taken]]
  BY <1>9
<1>12. /\ publisher' \in [Publishers -> Publisher]
       /\ publisher'[p].sending = NoEvent
       /\ \A q \in Publishers \ {p} : publisher'[q] = publisher[q]
  BY <1>9, <1>10, <1>11 DEF EventTypeOK, IdlePublisher
<1>13. QED
  BY <1>6, <1>7, <1>12

LEMMA PostWrites ==
  ASSUME EventTypeOK, NEW p \in Publishers, EventPost(p)
  PROVE  /\ publisher' \in [Publishers -> Publisher]
         /\ \E e \in Events : /\ published' \in {published, published \union {e}}
                              /\ publisher'[p].sending = e
                              /\ publisher'[p].result = "accepted" => e \in published'
         /\ \A q \in Publishers \ {p} : publisher'[q] = publisher[q]
<1>1. PICK e \in EventHeld(p), result \in EventResults, received \in BOOLEAN :
        /\ result = "accepted" => received
        /\ published' = IF received THEN published \union {e} ELSE published
        /\ publisher' = [publisher EXCEPT
              ![p].sending = e, ![p].result = result,
              ![p].inTime = EventOwned(e, publisher[p].lease[e]) /\ ~event[e].expired]
  BY DEF EventPost
<1>2. e \in Events
  BY DEF EventHeld
<1> DEFINE inTime == EventOwned(e, publisher[p].lease[e]) /\ ~event[e].expired
           posted == [publisher[p] EXCEPT !.sending = e, !.result = result, !.inTime = inTime]
<1>3. inTime \in BOOLEAN
  BY DEF EventOwned
<1>4. publisher' = [publisher EXCEPT ![p] = posted]
  BY <1>1
<1> HIDE DEF inTime
<1>5. posted \in Publisher /\ posted.sending = e /\ posted.result = result
  BY <1>1, <1>2, <1>3 DEF EventTypeOK, Publisher
<1> HIDE DEF posted
<1>6. /\ publisher' \in [Publishers -> Publisher]
      /\ publisher'[p] = posted
      /\ \A q \in Publishers \ {p} : publisher'[q] = publisher[q]
  BY <1>4, <1>5 DEF EventTypeOK
<1>7. /\ published' \in {published, published \union {e}}
      /\ result = "accepted" => e \in published'
  BY <1>1
<1>8. QED
  BY <1>2, <1>5, <1>6, <1>7

LEMMA CompleteWrites ==
  ASSUME EventTypeOK, NEW p \in Publishers, EventComplete(p)
  PROVE  /\ publisher' \in [Publishers -> Publisher]
         /\ publisher'[p].sending = NoEvent
         /\ \A q \in Publishers \ {p} : publisher'[q] = publisher[q]
         /\ event' \in [Events -> EventRow]
         /\ publisher[p].sending \in Events
         /\ \/ event' = event
            \/ /\ event[publisher[p].sending].state = "LEASED"
               /\ \A d \in Events : d # publisher[p].sending => event'[d] = event[d]
               /\ event'[publisher[p].sending].state \in {"DELIVERED", "RETRYING", "DEAD_LETTER"}
               /\ event'[publisher[p].sending].state = "DELIVERED"
                    => publisher[p].result = "accepted"
<1>1. PICK e : e = publisher[p].sending
  OBVIOUS
<1>2. /\ publisher[p] \in Publisher
      /\ e \in Events
      /\ publisher[p].result \in EventResults
      /\ event[e] \in EventRow
  BY <1>1 DEF EventComplete, EventTypeOK, Publisher
<1> DEFINE rest == [publisher[p].lease EXCEPT ![e] = NoLease]
           done == [IdlePublisher EXCEPT !.lease = rest]
<1>3. rest \in [Events -> Leases \union {NoLease}]
  BY <1>2 DEF Publisher
<1>4. publisher' = [publisher EXCEPT ![p] = done]
  BY <1>1 DEF EventComplete
<1> HIDE DEF rest
<1>5. done \in Publisher /\ done.sending = NoEvent
  BY <1>3 DEF IdlePublisher, Publisher, EventResults
<1> HIDE DEF done
<1>6. /\ publisher' \in [Publishers -> Publisher]
      /\ publisher'[p].sending = NoEvent
      /\ \A q \in Publishers \ {p} : publisher'[q] = publisher[q]
  BY <1>4, <1>5 DEF EventTypeOK
<1>7. CASE event' = event
  BY <1>1, <1>2, <1>6, <1>7 DEF EventTypeOK
<1>8. CASE event' # event
  <2>1. /\ event[e].state = "LEASED"
        /\ event' = [event EXCEPT ![e] = EventOutcome(event[e], publisher[p].result)]
    BY <1>1, <1>2, <1>8 DEF EventComplete, EventOwned, EventTypeOK
  <2>2. /\ EventOutcome(event[e], publisher[p].result) \in EventRow
        /\ EventOutcome(event[e], publisher[p].result).state
             \in {"DELIVERED", "RETRYING", "DEAD_LETTER"}
        /\ EventOutcome(event[e], publisher[p].result).state = "DELIVERED"
             => publisher[p].result = "accepted"
    BY <1>2, OutcomeType
  <2>3. event' \in [Events -> EventRow]
    BY <1>2, <2>1, <2>2 DEF EventTypeOK
  <2>4. event'[e] = EventOutcome(event[e], publisher[p].result)
          /\ \A d \in Events : d # e => event'[d] = event[d]
    BY <1>2, <2>1 DEF EventTypeOK
  <2>5. QED
    BY <1>1, <1>2, <1>6, <2>1, <2>2, <2>3, <2>4
<1>9. QED
  BY <1>7, <1>8

LEMMA ReplayWrites ==
  ASSUME EventTypeOK, NEW e \in Events, EventReplay(e)
  PROVE  /\ event' \in [Events -> EventRow]
         /\ event[e].state = "DEAD_LETTER" /\ event'[e].state = "RETRYING"
         /\ \A d \in Events \ {e} : event'[d] = event[d]
<1> DEFINE open == EventUnleased(event[e], "RETRYING", TRUE)
           replayed == [open EXCEPT !.attempts = 0]
<1>1. event[e] \in EventRow /\ "RETRYING" \in EventStates
  BY DEF EventTypeOK, EventStates
<1>2. open \in EventRow /\ open.state = "RETRYING"
  BY <1>1, UnleasedType
<1>3. event' = [event EXCEPT ![e] = replayed]
  BY DEF EventReplay, EventTypeOK
<1> HIDE DEF open
<1>4. replayed \in EventRow /\ replayed.state = "RETRYING"
  BY <1>2 DEF EventRow
<1> HIDE DEF replayed
<1>5. QED
  BY <1>3, <1>4 DEF EventReplay, EventTypeOK

\* Enqueueing and the passing of time settle nothing.
LEMMA TimeWrites ==
  ASSUME EventTypeOK, NEW e \in Events,
         EventEnqueue(e) \/ EventBecomesDue(e) \/ EventLeaseExpires(e)
  PROVE  /\ event' \in [Events -> EventRow]
         /\ \A d \in Events :
              \/ event'[d].state = event[d].state
              \/ event[d].state = "NONE" /\ event'[d].state = "PENDING"
<1>1. event[e] \in EventRow /\ "PENDING" \in EventStates
  BY DEF EventTypeOK, EventStates
<1>2. CASE EventEnqueue(e)
  <2>1. [event[e] EXCEPT !.state = "PENDING"] \in EventRow
    BY <1>1 DEF EventRow
  <2>2. event' = [event EXCEPT ![e] = [event[e] EXCEPT !.state = "PENDING"]]
    BY <1>2 DEF EventEnqueue
  <2>3. QED
    BY <1>1, <1>2, <2>1, <2>2 DEF EventTypeOK, EventEnqueue, EventRow
<1>3. CASE EventBecomesDue(e)
  <2>1. [event[e] EXCEPT !.due = TRUE] \in EventRow
    BY <1>1 DEF EventRow
  <2>2. event' = [event EXCEPT ![e] = [event[e] EXCEPT !.due = TRUE]]
    BY <1>3 DEF EventBecomesDue
  <2>3. QED
    BY <1>1, <2>1, <2>2 DEF EventTypeOK, EventRow
<1>4. CASE EventLeaseExpires(e)
  <2>1. [event[e] EXCEPT !.expired = TRUE] \in EventRow
    BY <1>1 DEF EventRow
  <2>2. event' = [event EXCEPT ![e] = [event[e] EXCEPT !.expired = TRUE]]
    BY <1>4 DEF EventLeaseExpires
  <2>3. QED
    BY <1>1, <2>1, <2>2 DEF EventTypeOK, EventRow
<1>5. QED
  BY <1>2, <1>3, <1>4

LEMMA IdleType == IdlePublisher \in Publisher
  BY DEF IdlePublisher, Publisher, EventResults

LEMMA StepType ==
  ASSUME EventTypeOK, [EventNext]_eventVars
  PROVE  EventTypeOK'
<1>1. ASSUME NEW e \in Events, EventEnqueue(e) \/ EventBecomesDue(e) \/ EventLeaseExpires(e)
      PROVE  EventTypeOK'
  <2>1. UNCHANGED <<publisher, published, eventFaults>>
    BY <1>1 DEF EventEnqueue, EventBecomesDue, EventLeaseExpires
  <2>2. QED
    BY <1>1, <2>1, TimeWrites DEF EventTypeOK
<1>2. ASSUME eventFaults < EventMaxFaults, eventFaults' = eventFaults + 1
      PROVE  eventFaults' \in 0..EventMaxFaults
  BY <1>2, EventAssumption DEF EventTypeOK
<1>3. ASSUME NEW e \in Events, EventReplay(e) PROVE EventTypeOK'
  BY <1>2, <1>3, ReplayWrites DEF EventReplay, EventTypeOK
<1>4. ASSUME NEW p \in Publishers, EventClaim(p) PROVE EventTypeOK'
  <2>1. UNCHANGED <<published, eventFaults>>
    BY <1>4 DEF EventClaim
  <2>2. QED
    BY <1>4, <2>1, ClaimWrites DEF EventTypeOK
<1>5. ASSUME NEW p \in Publishers, EventPost(p) PROVE EventTypeOK'
  <2>1. UNCHANGED <<event, eventFaults>>
    BY <1>5 DEF EventPost
  <2>2. published' \in SUBSET Events
    BY <1>5, PostWrites DEF EventTypeOK
  <2>3. QED
    BY <1>5, <2>1, <2>2, PostWrites DEF EventTypeOK
<1>6. ASSUME NEW p \in Publishers, EventComplete(p) PROVE EventTypeOK'
  <2>1. UNCHANGED <<published, eventFaults>>
    BY <1>6 DEF EventComplete
  <2>2. QED
    BY <1>6, <2>1, CompleteWrites DEF EventTypeOK
<1>7. ASSUME NEW p \in Publishers, EventCrash(p) PROVE EventTypeOK'
  <2>1. UNCHANGED <<event, published>>
    BY <1>7 DEF EventCrash
  <2>2. publisher' \in [Publishers -> Publisher]
    BY <1>7, IdleType DEF EventCrash, EventTypeOK
  <2>3. QED
    BY <1>2, <1>7, <2>1, <2>2 DEF EventTypeOK, EventCrash
<1>8. CASE UNCHANGED eventVars
  BY <1>8 DEF eventVars, EventTypeOK
<1>9. QED
  BY <1>1, <1>3, <1>4, <1>5, <1>6, <1>7, <1>8 DEF EventNext

LEMMA EventBegins == EventInit => EventTypeOK
BY IdleType, EventAssumption DEF EventInit, EventTypeOK, EventRow, EventStates

\* Every variable keeps its type, for any events, publishers and bounds.
THEOREM EventTypeCorrect == EventSpec => []EventTypeOK
<1>1. EventTypeOK /\ [EventNext]_eventVars => EventTypeOK'
  BY StepType
<1>2. QED
  BY EventBegins, <1>1, PTL DEF EventSpec

-------------------------------------------------------------------------------
(* A publisher that reports an acceptance has the middleware's word for it.  *)

ReportsAreTrue ==
    \A p \in Publishers :
        publisher[p].sending # NoEvent /\ publisher[p].result = "accepted"
          => publisher[p].sending \in published

LEMMA ReportsStep ==
  ASSUME EventTypeOK, ReportsAreTrue, [EventNext]_eventVars
  PROVE  ReportsAreTrue'
<1>1. ASSUME NEW p \in Publishers, published' = published, publisher'[p].sending = NoEvent,
             \A q \in Publishers \ {p} : publisher'[q] = publisher[q]
      PROVE  ReportsAreTrue'
  BY <1>1 DEF ReportsAreTrue
<1>2. ASSUME NEW p \in Publishers, EventClaim(p) \/ EventComplete(p) PROVE ReportsAreTrue'
  <2>1. published' = published
    BY <1>2 DEF EventClaim, EventComplete
  <2>2. QED
    BY <1>1, <1>2, <2>1, ClaimWrites, CompleteWrites
<1>3. ASSUME NEW p \in Publishers, EventPost(p) PROVE ReportsAreTrue'
  <2>1. published \subseteq published'
    BY <1>3, PostWrites
  <2>2. QED
    BY <1>3, <2>1, PostWrites DEF ReportsAreTrue
<1>4. ASSUME NEW p \in Publishers, EventCrash(p) PROVE ReportsAreTrue'
  <2>1. /\ published' = published /\ publisher'[p].sending = NoEvent
        /\ \A q \in Publishers \ {p} : publisher'[q] = publisher[q]
    BY <1>4 DEF EventCrash, EventTypeOK, IdlePublisher
  <2>2. QED
    BY <1>1, <2>1
<1>5. CASE UNCHANGED <<publisher, published>>
  BY <1>5 DEF ReportsAreTrue
<1>6. QED
  BY <1>2, <1>3, <1>4, <1>5 DEF EventNext, EventEnqueue, EventBecomesDue, EventLeaseExpires,
     EventReplay, eventVars

LEMMA ReportsBegin == EventInit => ReportsAreTrue
BY DEF EventInit, ReportsAreTrue, IdlePublisher

LEMMA ReportsCorrect == EventSpec => []ReportsAreTrue
<1>1. EventTypeOK /\ ReportsAreTrue /\ [EventNext]_eventVars => ReportsAreTrue'
  BY ReportsStep
<1>2. QED
  BY EventTypeCorrect, ReportsBegin, <1>1, PTL DEF EventSpec

-------------------------------------------------------------------------------
(* The refinement. *)

LEMMA StatusOfState ==
  /\ EventStatus("DELIVERED") = "delivered"
  /\ EventStatus("DEAD_LETTER") = "dead"
  /\ \A state \in {"NONE", "PENDING", "LEASED", "RETRYING"} : EventStatus(state) = "open"
  BY DEF EventStatus

\* A step that changes the status of no event and publishes none stutters.
LEMMA StutterStep ==
  ASSUME published' = published,
         \A e \in Events : EventStatus(event'[e].state) = EventStatus(event[e].state)
  PROVE  UNCHANGED EventPromise!abstractVars
  BY DEF EventPromise!abstractVars

LEMMA PromiseBegins == EventInit => EventPromise!Init
BY StatusOfState DEF EventInit, EventPromise!Init

\* Every step of the outbox is a step of the promise, or stutters.
LEMMA PromiseStep ==
  ASSUME EventTypeOK, ReportsAreTrue, [EventNext]_eventVars
  PROVE  EventPromise!Next \/ UNCHANGED EventPromise!abstractVars
<1>1. ASSUME NEW e \in Events, EventEnqueue(e) \/ EventBecomesDue(e) \/ EventLeaseExpires(e)
      PROVE  UNCHANGED EventPromise!abstractVars
  <2>1. published' = published
    BY <1>1 DEF EventEnqueue, EventBecomesDue, EventLeaseExpires
  <2>2. QED
    BY <1>1, <2>1, TimeWrites, StatusOfState, StutterStep
<1>2. ASSUME NEW p \in Publishers, EventClaim(p) PROVE EventPromise!Next
  <2> DEFINE given == {e \in Events : event'[e].state = "DEAD_LETTER"
                                        /\ event[e].state # "DEAD_LETTER"}
  <2>1. published' = published
    BY <1>2 DEF EventClaim
  <2>2. \A e \in given : EventStatus(event[e].state) = "open"
    BY <1>2, ClaimWrites, StatusOfState
  <2>3. \A e \in Events : EventStatus(event'[e].state)
                            = IF e \in given THEN "dead" ELSE EventStatus(event[e].state)
    BY <1>2, ClaimWrites, StatusOfState
  <2>4. given \in SUBSET Events
    OBVIOUS
  <2> HIDE DEF given
  <2>5. EventPromise!GiveUp(given)
    BY <2>1, <2>2, <2>3, <2>4 DEF EventPromise!GiveUp
  <2>6. QED
    BY <2>4, <2>5 DEF EventPromise!Next
<1>3. ASSUME NEW p \in Publishers, EventPost(p)
      PROVE  EventPromise!Next \/ UNCHANGED EventPromise!abstractVars
  <2>1. PICK e \in Events : published' \in {published, published \union {e}}
    BY <1>3, PostWrites
  <2>2. event' = event
    BY <1>3 DEF EventPost
  <2>3. CASE published' = published
    BY <2>2, <2>3, StutterStep
  <2>4. CASE published' = published \union {e}
    <3>1. EventPromise!Receive(e)
      BY <2>2, <2>4 DEF EventPromise!Receive
    <3>2. QED
      BY <2>1, <3>1 DEF EventPromise!Next
  <2>5. QED
    BY <2>1, <2>3, <2>4
<1>4. ASSUME NEW p \in Publishers, EventComplete(p)
      PROVE  EventPromise!Next \/ UNCHANGED EventPromise!abstractVars
  <2>1. PICK e \in Events : e = publisher[p].sending
    BY <1>4, CompleteWrites
  <2>2. published' = published /\ e # NoEvent
    BY <1>4, <2>1 DEF EventComplete
  <2>3. CASE event' = event
    BY <2>2, <2>3, StutterStep
  <2>4. CASE event' # event
    <3>1. /\ event[e].state = "LEASED"
          /\ \A d \in Events : d # e => event'[d] = event[d]
          /\ event'[e].state \in {"DELIVERED", "RETRYING", "DEAD_LETTER"}
          /\ event'[e].state = "DELIVERED" => publisher[p].result = "accepted"
      BY <1>4, <2>1, <2>4, CompleteWrites
    <3>2. EventStatus(event[e].state) = "open"
      BY <3>1, StatusOfState
    <3>3. CASE event'[e].state = "DELIVERED"
      <4>1. e \in published
        BY <2>1, <2>2, <3>1, <3>3 DEF ReportsAreTrue
      <4>2. EventStatus(event'[e].state) = "delivered"
        BY <3>3, StatusOfState
      <4>3. EventPromise!Deliver(e)
        BY <2>2, <3>1, <3>2, <4>1, <4>2 DEF EventPromise!Deliver
      <4>4. QED
        BY <4>3 DEF EventPromise!Next
    <3>4. CASE event'[e].state = "RETRYING"
      <4>1. EventStatus(event'[e].state) = "open"
        BY <3>4, StatusOfState
      <4>2. QED
        BY <2>2, <3>1, <3>2, <4>1, StutterStep
    <3>5. CASE event'[e].state = "DEAD_LETTER"
      <4>1. EventStatus(event'[e].state) = "dead"
        BY <3>5, StatusOfState
      <4>2. EventPromise!GiveUp({e})
        BY <2>2, <3>1, <3>2, <4>1 DEF EventPromise!GiveUp
      <4>3. QED
        BY <4>2 DEF EventPromise!Next
    <3>6. QED
      BY <3>1, <3>3, <3>4, <3>5
  <2>5. QED
    BY <2>3, <2>4
<1>5. ASSUME NEW e \in Events, EventReplay(e) PROVE EventPromise!Next
  <2>1. published' = published
    BY <1>5 DEF EventReplay
  <2>2. EventStatus(event[e].state) = "dead" /\ EventStatus(event'[e].state) = "open"
    BY <1>5, ReplayWrites, StatusOfState
  <2>3. \A d \in Events : d # e => event'[d] = event[d]
    BY <1>5, ReplayWrites
  <2>4. EventPromise!Review({e}, {})
    BY <2>1, <2>2, <2>3 DEF EventPromise!Review
  <2>5. {e} \in SUBSET Events /\ {} \in SUBSET Events
    OBVIOUS
  <2>6. QED
    BY <2>4, <2>5 DEF EventPromise!Next
<1>6. CASE UNCHANGED <<event, published>>
  BY <1>6, StutterStep
<1>7. QED
  BY <1>1, <1>2, <1>3, <1>4, <1>5, <1>6 DEF EventNext, eventVars, EventCrash

\* The business event outbox implements the at-least-once outbox without
\* manual retries: whichever publishers answer late or die, an event is recorded
\* as delivered only when the middleware has it, and a settled event is
\* reopened by nothing but the replay of a dead letter.
THEOREM EventPromiseKept == EventSpec => EventKeepsPromise
<1>1. EventTypeOK /\ ReportsAreTrue /\ [EventNext]_eventVars
        => [EventPromise!Next]_EventPromise!abstractVars
  BY PromiseStep
<1>2. QED
  BY PromiseBegins, <1>1, EventTypeCorrect, ReportsCorrect, PTL
  DEF EventSpec, EventKeepsPromise, EventPromise!Spec

-------------------------------------------------------------------------------
(***************************************************************************)
(* Middleware commands: types, and one message per send command.           *)
(***************************************************************************)

(* What the steps write. *)

LEMMA IdleExecutorType == IdleExecutor \in Executor
  BY DEF IdleExecutor, Executor

LEMMA FinishedWrites ==
  ASSUME CommandTypeOK, NEW c \in Commands, NEW state \in CommandStates, NEW result \in Nat,
         Finished(c, state, result)
  PROVE  /\ command' \in [Commands -> Command]
         /\ command'[c].result = result
         /\ \A d \in Commands : d # c => command'[d].result = command[d].result
<1>1. [state |-> state, stale |-> FALSE, result |-> result] \in Command
  BY DEF Command
<1>2. QED
  BY <1>1 DEF Finished, CommandTypeOK

\* Every other write of a command leaves its result alone.
CommandResultsRest ==
    /\ command' \in [Commands -> Command]
    /\ \A c \in Commands : command'[c].result = command[c].result

LEMMA StateWrites ==
  ASSUME CommandTypeOK, NEW c \in Commands, NEW state \in CommandStates, NEW stale \in BOOLEAN,
         command' = [command EXCEPT ![c].state = state, ![c].stale = stale]
  PROVE  CommandResultsRest
<1>1. [command[c] EXCEPT !.state = state, !.stale = stale] \in Command
        /\ [command[c] EXCEPT !.state = state, !.stale = stale].result = command[c].result
  BY DEF CommandTypeOK, Command
<1>2. command' = [command EXCEPT ![c] = [command[c] EXCEPT !.state = state, !.stale = stale]]
  OBVIOUS
<1>3. QED
  BY <1>1, <1>2 DEF CommandTypeOK, CommandResultsRest

LEMMA InterruptedWrites ==
  ASSUME CommandTypeOK, NEW c \in Commands, command' = Interrupted(c)
  PROVE  CommandResultsRest
<1>1. CASE command' = command
  BY <1>1 DEF CommandResultsRest, CommandTypeOK
<1>2. CASE command' = [command EXCEPT ![c].state = "accepted", ![c].stale = FALSE]
  BY <1>2, StateWrites DEF CommandStates
<1>3. QED
  BY <1>1, <1>2 DEF Interrupted

LEMMA RecoverWrites ==
  ASSUME CommandTypeOK, CommandRecover
  PROVE  CommandResultsRest
<1>1. \A c \in Commands : [command[c] EXCEPT !.state = "accepted", !.stale = FALSE] \in Command
        /\ [command[c] EXCEPT !.state = "accepted", !.stale = FALSE].result = command[c].result
  BY DEF CommandTypeOK, Command, CommandStates
<1>2. QED
  BY <1>1 DEF CommandRecover, CommandTypeOK, CommandResultsRest

\* The writes of accepting, claiming, ageing, reading back, cancelling and
\* reconciling a command.
LEMMA CommandWrites ==
  ASSUME CommandTypeOK, NEW c \in Commands,
         \/ CommandAccept(c) \/ CommandGetsStale(c) \/ CommandReadBack(c)
         \/ CommandCancelled(c) \/ CommandReconcile(c)
         \/ \E x \in Executors : CommandClaim(x, c)
  PROVE  CommandResultsRest
<1>1. CASE CommandAccept(c)
  <2>1. [command[c] EXCEPT !.state = "accepted"] \in Command
          /\ [command[c] EXCEPT !.state = "accepted"].result = command[c].result
    BY DEF CommandTypeOK, Command, CommandStates
  <2>2. command' = [command EXCEPT ![c] = [command[c] EXCEPT !.state = "accepted"]]
    BY <1>1 DEF CommandAccept
  <2>3. QED
    BY <2>1, <2>2 DEF CommandTypeOK, CommandResultsRest
<1>2. CASE CommandGetsStale(c)
  <2>1. [command[c] EXCEPT !.stale = TRUE] \in Command
          /\ [command[c] EXCEPT !.stale = TRUE].result = command[c].result
    BY DEF CommandTypeOK, Command
  <2>2. command' = [command EXCEPT ![c] = [command[c] EXCEPT !.stale = TRUE]]
    BY <1>2 DEF CommandGetsStale
  <2>3. QED
    BY <2>1, <2>2 DEF CommandTypeOK, CommandResultsRest
<1>3. CASE CommandReadBack(c)
  <2>1. Projected(message[c]) \in CommandStates
    BY DEF Projected, CommandTypeOK, MessageStates, CommandStates
  <2>2. QED
    BY <1>3, <2>1, StateWrites DEF CommandReadBack
<1>4. CASE \E x \in Executors : CommandClaim(x, c)
  BY <1>4, StateWrites DEF CommandClaim, CommandStates
<1>5. CASE CommandCancelled(c)
  BY <1>5, StateWrites DEF CommandCancelled, CommandStates
<1>6. CASE CommandReconcile(c)
  BY <1>6, StateWrites DEF CommandReconcile, CommandStates
<1>7. QED
  BY <1>1, <1>2, <1>3, <1>4, <1>5, <1>6

-------------------------------------------------------------------------------
(* The invariant: the idempotency row names the one message that was made,   *)
(* and an execution has found that message or none.                          *)

RowNamesTheMessage == \A c \in Commands : remembered[c] = made[c]

FoundOnlyThat ==
    \A x \in Executors :
        executor[x].found # 0 => /\ executor[x].command \in Commands
                                 /\ executor[x].found = made[executor[x].command]

CommandInv == CommandTypeOK /\ RowNamesTheMessage /\ FoundOnlyThat /\ CommandSendsOnce

\* An execution ends or begins, or it goes on without a message of its own.
LEMMA ExecutorRests ==
  ASSUME CommandInv, UNCHANGED <<made, remembered>>,
         executor' \in [Executors -> Executor],
         \A x \in Executors : \/ executor'[x] = executor[x]
                              \/ executor'[x].found = 0
                              \/ /\ executor'[x].command = executor[x].command
                                 /\ executor[x].command \in Commands
                                 /\ executor'[x].found = remembered[executor[x].command]
  PROVE  FoundOnlyThat' /\ RowNamesTheMessage'
  BY DEF CommandInv, FoundOnlyThat, RowNamesTheMessage

LEMMA GoesIdle ==
  ASSUME CommandInv, UNCHANGED <<made, remembered>>, NEW x \in Executors,
         executor' = [executor EXCEPT ![x] = IdleExecutor]
  PROVE  executor' \in [Executors -> Executor] /\ FoundOnlyThat' /\ RowNamesTheMessage'
<1>1. executor' \in [Executors -> Executor]
        /\ \A y \in Executors : executor'[y] = executor[y] \/ executor'[y].found = 0
  BY IdleExecutorType DEF CommandInv, CommandTypeOK, IdleExecutor
<1>2. QED
  BY <1>1, ExecutorRests

\* Nothing is made and no result is written.
LEMMA NothingMade ==
  ASSUME CommandInv, UNCHANGED made, \A c \in Commands : command'[c].result = command[c].result
  PROVE  CommandSendsOnce'
  BY DEF CommandInv, CommandSendsOnce

LEMMA DoingOf ==
  ASSUME CommandInv, NEW x \in Executors, executor[x].command # NoCommand
  PROVE  executor[x].command \in Commands
  BY DEF CommandInv, CommandTypeOK, Executor

LEMMA LookStep ==
  ASSUME CommandInv, NEW x \in Executors, CommandLook(x)
  PROVE  CommandInv'
<1>1. PICK c \in Commands : c = executor[x].command
  BY DoingOf DEF CommandLook, Doing
<1>2. remembered[c] \in Nat /\ executor[x] \in Executor
  BY DEF CommandInv, CommandTypeOK
<1> DEFINE looked == [executor[x] EXCEPT !.step = "act", !.found = remembered[c]]
<1>3. looked \in Executor /\ looked.command = c /\ looked.found = remembered[c]
  BY <1>1, <1>2 DEF Executor
<1>4. executor' = [executor EXCEPT ![x] = looked]
  BY <1>1 DEF CommandLook, Found
<1> HIDE DEF looked
<1>5. /\ executor' \in [Executors -> Executor]
      /\ executor'[x] = looked
      /\ \A y \in Executors : y # x => executor'[y] = executor[y]
  BY <1>3, <1>4 DEF CommandInv, CommandTypeOK
<1>6. UNCHANGED <<command, made, remembered, message, commandFaults>>
  BY DEF CommandLook
<1>7. FoundOnlyThat' /\ RowNamesTheMessage'
  BY <1>1, <1>3, <1>5, <1>6, ExecutorRests
<1>8. QED
  BY <1>5, <1>6, <1>7, NothingMade DEF CommandInv, CommandTypeOK

LEMMA SendStep ==
  ASSUME CommandInv, NEW x \in Executors, CommandSend(x)
  PROVE  CommandInv'
<1>1. PICK c \in Commands : c = executor[x].command
  BY DoingOf DEF CommandSend, Doing
<1>2. remembered[c] = 0 /\ made[c] = 0 /\ executor[x] \in Executor
  BY <1>1 DEF CommandSend, Unremembered, CommandInv, RowNamesTheMessage, CommandTypeOK
<1>3. /\ made' = [made EXCEPT ![c] = 1]
      /\ remembered' = [remembered EXCEPT ![c] = 1]
      /\ message' = [message EXCEPT ![c] = "queued"]
      /\ UNCHANGED <<command, commandFaults>>
  BY <1>1, <1>2 DEF CommandSend, CommandInv, CommandTypeOK
<1> DEFINE done == [executor[x] EXCEPT !.found = 1]
<1>4. executor' = [executor EXCEPT ![x] = done]
  BY <1>1, <1>2 DEF CommandSend
<1>5. done \in Executor /\ done.command = c /\ done.found = 1
  BY <1>1, <1>2 DEF Executor
<1> HIDE DEF done
<1>6. /\ executor' \in [Executors -> Executor]
      /\ executor'[x] = done
      /\ \A y \in Executors : y # x => executor'[y] = executor[y]
  BY <1>4, <1>5 DEF CommandInv, CommandTypeOK
<1>7. CommandTypeOK'
  BY <1>3, <1>6 DEF CommandInv, CommandTypeOK, MessageStates
<1>8. RowNamesTheMessage' /\ CommandSendsOnce'
  BY <1>2, <1>3 DEF CommandInv, CommandTypeOK, RowNamesTheMessage, CommandSendsOnce
<1>9. FoundOnlyThat'
  BY <1>2, <1>3, <1>5, <1>6 DEF CommandInv, CommandTypeOK, FoundOnlyThat
<1>10. QED
  BY <1>7, <1>8, <1>9 DEF CommandInv

\* The completions, which write the command.
LEMMA CompletionStep ==
  ASSUME CommandInv, NEW x \in Executors,
         CommandQueued(x) \/ CommandRefused(x) \/ CommandCancel(x) \/ CommandComplete(x)
  PROVE  CommandInv'
<1>1. PICK c \in Commands : c = executor[x].command
  BY DoingOf DEF CommandQueued, CommandRefused, CommandCancel, CommandComplete, Doing
<1>2. /\ UNCHANGED <<made, remembered, commandFaults>>
      /\ executor' = [executor EXCEPT ![x] = IdleExecutor]
  BY DEF CommandQueued, CommandRefused, CommandCancel, CommandComplete
<1>3. made[c] \in Nat /\ command[c].result \in {0, made[c]}
  BY DEF CommandInv, CommandTypeOK, CommandSendsOnce
<1>4. PICK state \in CommandStates, result \in {0, made[c]} : Finished(c, state, result)
  <2>1. {"queued", "failed", "cancelled", "completed"} \subseteq CommandStates
    BY DEF CommandStates
  <2>2. CASE CommandQueued(x)
    BY <1>1, <2>1, <2>2 DEF CommandQueued, CommandInv, FoundOnlyThat
  <2>3. CASE CommandRefused(x)
    BY <1>1, <1>3, <2>1, <2>3 DEF CommandRefused
  <2>4. CASE CommandCancel(x)
    BY <1>1, <1>3, <2>1, <2>4 DEF CommandCancel
  <2>5. CASE CommandComplete(x)
    BY <1>1, <2>1, <2>5 DEF CommandComplete
  <2>6. QED
    BY <2>2, <2>3, <2>4, <2>5
<1>5. /\ command' \in [Commands -> Command]
      /\ command'[c].result = result
      /\ \A d \in Commands : d # c => command'[d].result = command[d].result
  BY <1>3, <1>4, FinishedWrites DEF CommandInv
<1>6. message' \in [Commands -> MessageStates]
  BY DEF CommandQueued, CommandRefused, CommandCancel, CommandComplete, CommandInv,
     CommandTypeOK, MessageStates
<1>7. executor' \in [Executors -> Executor] /\ FoundOnlyThat' /\ RowNamesTheMessage'
  BY <1>2, GoesIdle
<1>8. CommandSendsOnce'
  BY <1>2, <1>4, <1>5 DEF CommandInv, CommandSendsOnce
<1>9. QED
  BY <1>2, <1>5, <1>6, <1>7, <1>8 DEF CommandInv, CommandTypeOK

\* An execution that fails or dies, and the recovery of its command.
LEMMA FaultStep ==
  ASSUME CommandInv, NEW x \in Executors, CommandInterrupted(x) \/ CommandDies(x)
  PROVE  CommandInv'
<1>1. PICK c \in Commands : c = executor[x].command
  BY DoingOf DEF CommandInterrupted, CommandDies
<1>2. /\ UNCHANGED <<made, remembered, message>>
      /\ executor' = [executor EXCEPT ![x] = IdleExecutor]
  BY DEF CommandInterrupted, CommandDies
<1>3. commandFaults' \in 0..CommandMaxFaults
  BY CommandAssumption DEF CommandInterrupted, CommandDies, CommandInv, CommandTypeOK
<1>4. CommandResultsRest
  <2>1. CASE CommandInterrupted(x)
    BY <1>1, <2>1, InterruptedWrites DEF CommandInterrupted, CommandInv
  <2>2. CASE CommandDies(x)
    BY <2>2 DEF CommandDies, CommandResultsRest, CommandInv, CommandTypeOK
  <2>3. QED
    BY <2>1, <2>2
<1>5. executor' \in [Executors -> Executor] /\ FoundOnlyThat' /\ RowNamesTheMessage'
  BY <1>2, GoesIdle
<1>6. CommandSendsOnce'
  BY <1>2, <1>4, NothingMade DEF CommandResultsRest
<1>7. QED
  BY <1>2, <1>3, <1>4, <1>5, <1>6 DEF CommandInv, CommandTypeOK, CommandResultsRest

LEMMA ClaimStep ==
  ASSUME CommandInv, NEW x \in Executors, NEW c \in Commands, CommandClaim(x, c)
  PROVE  CommandInv'
<1>1. CommandResultsRest
  BY CommandWrites DEF CommandInv
<1>2. UNCHANGED <<made, remembered, message, commandFaults>>
  BY DEF CommandClaim
<1> DEFINE claimed == [executor[x] EXCEPT !.command = c]
<1>3. claimed \in Executor /\ claimed.found = 0
  BY DEF CommandClaim, IdleExecutor, Executor, CommandInv, CommandTypeOK
<1>4. executor' = [executor EXCEPT ![x] = claimed]
  BY DEF CommandClaim
<1> HIDE DEF claimed
<1>5. executor' \in [Executors -> Executor]
        /\ \A y \in Executors : executor'[y] = executor[y] \/ executor'[y].found = 0
  BY <1>3, <1>4 DEF CommandInv, CommandTypeOK
<1>6. FoundOnlyThat' /\ RowNamesTheMessage'
  BY <1>2, <1>5, ExecutorRests
<1>7. QED
  BY <1>1, <1>2, <1>5, <1>6, NothingMade DEF CommandInv, CommandTypeOK, CommandResultsRest

\* Steps that leave the executions alone.
LEMMA CommandRestStep ==
  ASSUME CommandInv, CommandResultsRest, UNCHANGED <<executor, made, remembered>>,
         message' \in [Commands -> MessageStates], commandFaults' \in 0..CommandMaxFaults
  PROVE  CommandInv'
<1>1. FoundOnlyThat' /\ RowNamesTheMessage'
  BY DEF CommandInv, FoundOnlyThat, RowNamesTheMessage
<1>2. CommandSendsOnce'
  BY NothingMade DEF CommandResultsRest
<1>3. QED
  BY <1>1, <1>2 DEF CommandInv, CommandTypeOK, CommandResultsRest

LEMMA CommandStep ==
  ASSUME CommandInv, [CommandNext]_commandVars
  PROVE  CommandInv'
<1>1. CommandTypeOK
  BY DEF CommandInv
<1>2. ASSUME NEW c \in Commands,
             \/ CommandAccept(c) \/ CommandGetsStale(c) \/ CommandReadBack(c)
             \/ CommandCancelled(c) \/ CommandReconcile(c)
      PROVE  CommandInv'
  <2>1. UNCHANGED <<executor, made, remembered, message>>
    BY <1>2 DEF CommandAccept, CommandGetsStale, CommandReadBack, CommandCancelled, CommandReconcile
  <2>5. commandFaults' \in 0..CommandMaxFaults
    BY <1>1, <1>2, CommandAssumption
       DEF CommandAccept, CommandGetsStale, CommandReadBack, CommandCancelled, CommandReconcile,
           CommandTypeOK
  <2>2. message' \in [Commands -> MessageStates]
    BY <1>1, <2>1 DEF CommandTypeOK
  <2>3. CommandResultsRest
    BY <1>1, <1>2, CommandWrites
  <2>4. QED
    BY <2>1, <2>2, <2>3, <2>5, CommandRestStep
<1>3. ASSUME NEW c \in Commands, MessageMoves(c) PROVE CommandInv'
  <2>1. message' \in [Commands -> MessageStates]
    BY <1>1, <1>3 DEF MessageMoves, CommandTypeOK, MessageStates
  <2>2. CommandResultsRest
    BY <1>1, <1>3 DEF MessageMoves, CommandResultsRest, CommandTypeOK
  <2>3. QED
    BY <1>1, <1>3, <2>1, <2>2, CommandRestStep DEF MessageMoves, CommandTypeOK
<1>4. CASE CommandRecover
  <2>1. message' \in [Commands -> MessageStates]
    BY <1>1, <1>4 DEF CommandRecover, CommandTypeOK
  <2>2. QED
    BY <1>1, <1>4, <2>1, RecoverWrites, CommandRestStep DEF CommandRecover, CommandTypeOK
<1>5. CASE UNCHANGED commandVars
  <2>1. UNCHANGED <<command, executor, made, remembered, message, commandFaults>>
    BY <1>5 DEF commandVars
  <2>2. CommandResultsRest /\ message' \in [Commands -> MessageStates]
    BY <1>1, <2>1 DEF CommandResultsRest, CommandTypeOK
  <2>3. QED
    BY <1>1, <2>1, <2>2, CommandRestStep DEF CommandTypeOK
<1>6. ASSUME NEW x \in Executors, CommandGoesOn(x) \/ CommandDies(x) PROVE CommandInv'
  BY <1>6, LookStep, SendStep, CompletionStep, FaultStep DEF CommandGoesOn
<1>7. QED
  BY <1>2, <1>3, <1>4, <1>5, <1>6, ClaimStep DEF CommandNext

LEMMA CommandBegins == CommandInit => CommandInv
BY IdleExecutorType, CommandAssumption DEF CommandInit, CommandInv, CommandTypeOK, Command,
   CommandStates, MessageStates, RowNamesTheMessage, FoundOnlyThat, CommandSendsOnce,
   IdleExecutor

LEMMA CommandInvariant == CommandSpec => []CommandInv
<1>1. CommandInv /\ [CommandNext]_commandVars => CommandInv'
  BY CommandStep
<1>2. QED
  BY CommandBegins, <1>1, PTL DEF CommandSpec

\* However often a send command is executed, by requests and by recovery beside
\* an execution that is only slow, one message is made for it, and a result
\* that is recorded names that message.
THEOREM CommandSendsOnceCorrect == CommandSpec => []CommandSendsOnce
<1>1. CommandInv => CommandSendsOnce
  BY DEF CommandInv
<1>2. QED
  BY CommandInvariant, <1>1, PTL

-------------------------------------------------------------------------------
(***************************************************************************)
(* Postal callbacks: types, and that no callback is lost.                  *)
(***************************************************************************)

(* The invariant. What a hook or the loop knows of a record may be stale, but *)
(* never ahead of what was tried, and the states it writes over are final     *)
(* only in ways that keep the promise: "delivered" was heard, "retry" was     *)
(* recorded, "dlq" was tried often enough.                                    *)

RecordsAreTrue ==
    \A c \in Callbacks :
        /\ record[c].attempts <= tried[c]
        /\ record[c].state = "delivered" => c \in heard
        /\ record[c].state \in {"retry", "delivered"} => c \in recorded

HooksAreTrue ==
    \A h \in Hooks : hook[h].callback # NoCallback =>
        /\ hook[h].attempts <= tried[hook[h].callback]
        /\ hook[h].step = "persisted" => hook[h].callback \in recorded
        /\ hook[h].state # "delivered"

LoopIsTrue ==
    /\ retry.page \subseteq recorded
    /\ retry.posted # NoCallback =>
          /\ retry.posted \in recorded
          /\ retry.attempts + 1 <= tried[retry.posted]
          /\ retry.ok => retry.posted \in heard

CallbackInv ==
    /\ CallbackTypeOK /\ RecordsAreTrue /\ HooksAreTrue /\ LoopIsTrue
    /\ NoCallbackIsLost

\* Nothing that happened is taken back.
Grows ==
    /\ recorded \subseteq recorded' /\ heard \subseteq heard'
    /\ \A c \in Callbacks : tried[c] <= tried'[c]

-------------------------------------------------------------------------------
(* Steps that leave a part alone, while the rest grows. *)

LEMMA HookFields ==
  ASSUME CallbackTypeOK, NEW h \in Hooks
  PROVE  /\ hook[h] \in Hook
         /\ hook[h].callback \in Callbacks \union {NoCallback}
         /\ hook[h].attempts \in Nat
  BY DEF CallbackTypeOK, Hook

LEMMA TriedType ==
  ASSUME CallbackTypeOK
  PROVE  \A c \in Callbacks : tried[c] \in Nat /\ record[c].attempts \in Nat
  BY DEF CallbackTypeOK, Record

\* A record that is not written stays true.
LEMMA RecordRests ==
  ASSUME CallbackInv, CallbackTypeOK', Grows, NEW c \in Callbacks, record'[c].state = record[c].state,
         record'[c].attempts <= tried'[c]
  PROVE  /\ record'[c].state = "delivered" => c \in heard'
         /\ record'[c].state \in {"retry", "delivered"} => c \in recorded'
         /\ record'[c].state = "dlq" => tried'[c] >= CallbackMaxAttempts
<1>1. tried[c] \in Nat /\ tried'[c] \in Nat /\ CallbackMaxAttempts \in Nat
  BY CallbackAssumption DEF CallbackInv, CallbackTypeOK
<1>2. QED
  BY <1>1 DEF CallbackInv, RecordsAreTrue, NoCallbackIsLost, PutAsideWasTried, Grows

LEMMA RecordsRest ==
  ASSUME CallbackInv, CallbackTypeOK', Grows,
         \A c \in Callbacks : /\ record'[c].state = record[c].state
                              /\ record'[c].attempts <= tried'[c]
  PROVE  RecordsAreTrue' /\ PutAsideWasTried'
  BY RecordRests DEF RecordsAreTrue, PutAsideWasTried

\* Records that nobody writes.
LEMMA RecordsUntouched ==
  ASSUME CallbackInv, CallbackTypeOK', Grows, UNCHANGED record
  PROVE  RecordsAreTrue' /\ PutAsideWasTried'
<1>1. ASSUME NEW c \in Callbacks PROVE record'[c].attempts <= tried'[c]
  <2>1. record[c].attempts <= tried[c] /\ tried[c] <= tried'[c]
    BY DEF CallbackInv, RecordsAreTrue, Grows
  <2>2. record[c].attempts \in Nat /\ tried[c] \in Nat /\ tried'[c] \in Nat
    BY TriedType DEF CallbackInv, CallbackTypeOK
  <2>3. QED
    BY <2>1, <2>2
<1>2. QED
  BY <1>1, RecordsRest

\* A hook that is idle or not touched stays true.
LEMMA HookRests ==
  ASSUME CallbackInv, CallbackTypeOK', Grows, NEW h \in Hooks, hook'[h] = hook[h]
  PROVE  hook'[h].callback # NoCallback =>
           /\ hook'[h].attempts <= tried'[hook'[h].callback]
           /\ hook'[h].step = "persisted" => hook'[h].callback \in recorded'
           /\ hook'[h].state # "delivered"
<1> SUFFICES ASSUME hook[h].callback # NoCallback
             PROVE  /\ hook[h].attempts <= tried'[hook[h].callback]
                    /\ hook[h].step = "persisted" => hook[h].callback \in recorded'
                    /\ hook[h].state # "delivered"
  OBVIOUS
<1>1. hook[h].callback \in Callbacks /\ hook[h].attempts \in Nat
  BY HookFields DEF CallbackInv
<1>2. tried[hook[h].callback] \in Nat /\ tried'[hook[h].callback] \in Nat
  BY <1>1 DEF CallbackInv, CallbackTypeOK
<1>3. QED
  BY <1>1, <1>2 DEF CallbackInv, HooksAreTrue, Grows

LEMMA HooksRest ==
  ASSUME CallbackInv, CallbackTypeOK', Grows,
         \A h \in Hooks : hook'[h] = hook[h] \/ hook'[h] = IdleHook
  PROVE  HooksAreTrue'
<1> SUFFICES ASSUME NEW h \in Hooks, hook'[h].callback # NoCallback
             PROVE  /\ hook'[h].attempts <= tried'[hook'[h].callback]
                    /\ hook'[h].step = "persisted" => hook'[h].callback \in recorded'
                    /\ hook'[h].state # "delivered"
  BY DEF HooksAreTrue
<1>1. hook'[h] = hook[h]
  BY DEF IdleHook
<1>2. QED
  BY <1>1, HookRests

LEMMA LoopRests ==
  ASSUME CallbackInv, CallbackTypeOK', Grows, UNCHANGED retry
  PROVE  LoopIsTrue'
<1>1. retry.posted \in Callbacks \union {NoCallback} /\ retry.attempts \in Nat
  BY DEF CallbackInv, CallbackTypeOK, Retry
<1>2. \A c \in Callbacks : tried[c] \in Nat /\ tried'[c] \in Nat
  BY DEF CallbackInv, CallbackTypeOK
<1>3. QED
  BY <1>1, <1>2 DEF CallbackInv, LoopIsTrue, Grows

\* The promise about what was heard and answered, for steps that say nothing.
LEMMA PromiseRests ==
  ASSUME CallbackInv, PutAsideWasTried', UNCHANGED <<recorded, heard, answered, suppressed>>
  PROVE  NoCallbackIsLost'
  BY DEF CallbackInv, NoCallbackIsLost, BouncedIsSuppressed

\* The middleware may hear of a callback whose effect is on record.
LEMMA HearingIsAllowed ==
  ASSUME CallbackInv, PutAsideWasTried', UNCHANGED <<recorded, suppressed>>,
         NEW c, c \in recorded, heard' \in {heard, heard \union {c}},
         answered' = answered \/ (answered' = answered \union {c} /\ c \in heard')
  PROVE  NoCallbackIsLost'
  BY DEF CallbackInv, NoCallbackIsLost, BouncedIsSuppressed

-------------------------------------------------------------------------------
(* Types. *)

LEMMA IdleTypes == IdleHook \in Hook /\ IdleRetry \in Retry /\ NoRecord \in Record
  BY DEF IdleHook, Hook, IdleRetry, Retry, NoRecord, Record, RecordStates

LEMMA StateAfterForwardType ==
  ASSUME NEW ok \in BOOLEAN, NEW attempts
  PROVE  /\ StateAfterForward(ok, attempts) \in {"delivered", "retry", "dlq"}
         /\ StateAfterForward(ok, attempts) = "delivered" => ok
         /\ StateAfterForward(ok, attempts) = "dlq" => attempts >= CallbackMaxAttempts
  BY DEF StateAfterForward

\* One hook is set.
LEMMA HookSet ==
  ASSUME CallbackTypeOK, NEW h \in Hooks, NEW set \in Hook, hook' = [hook EXCEPT ![h] = set]
  PROVE  /\ hook' \in [Hooks -> Hook] /\ hook'[h] = set
         /\ \A g \in Hooks : g # h => hook'[g] = hook[g]
  BY DEF CallbackTypeOK

\* One record is set.
LEMMA RecordSet ==
  ASSUME CallbackTypeOK, NEW c \in Callbacks, NEW set \in Record, record' = [record EXCEPT ![c] = set]
  PROVE  /\ record' \in [Callbacks -> Record] /\ record'[c] = set
         /\ \A d \in Callbacks : d # c => record'[d] = record[d]
  BY DEF CallbackTypeOK

-------------------------------------------------------------------------------
(* The hooks. *)

LEMMA ArriveStep ==
  ASSUME CallbackInv, NEW h \in Hooks, NEW c \in Callbacks, CallbackArrives(h, c)
  PROVE  CallbackInv'
<1>1. UNCHANGED <<record, retry, mail, suppressed, recorded, heard, tried>>
  BY DEF CallbackArrives
<1> DEFINE loaded == [callback |-> c, step |-> "loaded", state |-> record[c].state,
                      attempts |-> record[c].attempts]
<1>2. loaded \in Hook /\ c # NoCallback
  BY CallbackAssumption DEF CallbackInv, CallbackTypeOK, Record, Hook
<1>3. \/ hook' = hook
      \/ hook' = [hook EXCEPT ![h] = loaded] /\ record[c].state # "delivered"
  BY DEF CallbackArrives
<1>4. \/ hook' \in [Hooks -> Hook] /\ \A g \in Hooks : hook'[g] = hook[g]
      \/ /\ hook' \in [Hooks -> Hook] /\ hook'[h] = loaded /\ record[c].state # "delivered"
         /\ \A g \in Hooks : g # h => hook'[g] = hook[g]
  BY <1>2, <1>3, HookSet DEF CallbackInv, CallbackTypeOK
<1>5. answered' = answered \/ (answered' = answered \union {c} /\ record[c].state = "delivered")
  BY DEF CallbackArrives
<1>6. calls' \in [Callbacks -> 0..CallbackMaxCalls]
  BY CallbackAssumption DEF CallbackArrives, CallbackInv, CallbackTypeOK
<1>7. CallbackTypeOK'
  BY <1>1, <1>4, <1>5, <1>6 DEF CallbackInv, CallbackTypeOK
<1>8. Grows
  <2>1. \A d \in Callbacks : tried[d] <= tried'[d]
    BY <1>1, TriedType DEF CallbackInv
  <2>2. QED
    BY <1>1, <2>1 DEF Grows
<1>9. RecordsAreTrue' /\ PutAsideWasTried' /\ LoopIsTrue'
  BY <1>1, <1>7, <1>8, RecordsUntouched, LoopRests
<1>10. HooksAreTrue'
  <2>1. CASE \A g \in Hooks : hook'[g] = hook[g]
    BY <1>7, <1>8, <2>1, HooksRest
  <2>2. CASE /\ hook'[h] = loaded /\ record[c].state # "delivered"
             /\ \A g \in Hooks : g # h => hook'[g] = hook[g]
    <3>1. loaded.attempts <= tried'[c] /\ loaded.step # "persisted"
            /\ loaded.state # "delivered" /\ loaded.callback = c
      BY <1>1, <2>2 DEF CallbackInv, RecordsAreTrue
    <3> HIDE DEF loaded
    <3>2. QED
      BY <1>7, <1>8, <2>2, <3>1, HookRests DEF HooksAreTrue
  <2>3. QED
    BY <1>4, <2>1, <2>2
<1>11. NoCallbackIsLost'
  BY <1>1, <1>5, <1>9 DEF CallbackInv, NoCallbackIsLost, BouncedIsSuppressed, RecordsAreTrue
<1>12. QED
  BY <1>7, <1>9, <1>10, <1>11 DEF CallbackInv

LEMMA CountStep ==
  ASSUME CallbackInv, NEW h \in Hooks, CallbackCount(h)
  PROVE  CallbackInv'
<1>1. UNCHANGED <<retry, mail, suppressed, recorded, heard, answered, calls>>
  BY DEF CallbackCount
<1>2. PICK c \in Callbacks : c = hook[h].callback /\ c # NoCallback
  BY HookFields DEF CallbackCount, CallbackInv
<1>3. /\ hook[h] \in Hook /\ hook[h].attempts \in Nat /\ hook[h].state \in RecordStates
      /\ record[c] \in Record /\ tried[c] \in Nat
      /\ hook[h].attempts <= tried[c] /\ hook[h].state # "delivered"
  BY <1>2 DEF CallbackInv, CallbackTypeOK, Hook, HooksAreTrue
<1>4. CASE hook' = [hook EXCEPT ![h] = IdleHook] /\ UNCHANGED <<record, tried>>
  <2>1. hook' \in [Hooks -> Hook] /\ \A g \in Hooks : hook'[g] = hook[g] \/ hook'[g] = IdleHook
    BY <1>4, IdleTypes, HookSet DEF CallbackInv
  <2>2. CallbackTypeOK'
    BY <1>1, <1>4, <2>1 DEF CallbackInv, CallbackTypeOK
  <2>3. Grows
    BY <1>1, <1>4, TriedType DEF Grows, CallbackInv
  <2>4. RecordsAreTrue' /\ PutAsideWasTried' /\ LoopIsTrue' /\ HooksAreTrue'
    BY <1>1, <1>4, <2>1, <2>2, <2>3, RecordsUntouched, LoopRests, HooksRest
  <2>5. QED
    BY <1>1, <2>2, <2>4, PromiseRests DEF CallbackInv
<1>5. CASE ~(hook' = [hook EXCEPT ![h] = IdleHook] /\ UNCHANGED <<record, tried>>)
  <2> DEFINE state == IF hook[h].state = "none" THEN "pending" ELSE hook[h].state
             attempts == hook[h].attempts + 1
             counted == [hook[h] EXCEPT !.step = "counted", !.state = state, !.attempts = attempts]
             written == [state |-> IF record[c].state = "none" THEN "pending"
                                   ELSE record[c].state,
                         attempts |-> attempts, due |-> FALSE]
  <2>1. /\ hook' = [hook EXCEPT ![h] = counted]
        /\ record' = [record EXCEPT ![c] = written]
        /\ tried' = [tried EXCEPT ![c] = tried[c] + 1]
    BY <1>2, <1>5 DEF CallbackCount, CallbackInv, CallbackTypeOK
  <2>2. state \in RecordStates /\ state # "delivered" /\ attempts \in Nat
    BY <1>3 DEF RecordStates
  <2>3. written \in Record /\ written.attempts = attempts
    BY <1>3, <2>2 DEF Record, RecordStates
  <2>4. \/ written.state = record[c].state
        \/ written.state = "pending"
    OBVIOUS
  <2> HIDE DEF state
  <2>5. /\ counted \in Hook /\ counted.callback = c /\ counted.step = "counted"
        /\ counted.state = state /\ counted.attempts = attempts
    BY <1>2, <1>3, <2>2 DEF Hook
  <2>6. attempts <= tried[c] + 1
    BY <1>3
  <2> HIDE DEF counted, written, attempts
  <2>7. /\ hook' \in [Hooks -> Hook] /\ hook'[h] = counted
        /\ \A g \in Hooks : g # h => hook'[g] = hook[g]
    BY <2>1, <2>5, HookSet DEF CallbackInv
  <2>8. /\ record' \in [Callbacks -> Record] /\ record'[c] = written
        /\ \A d \in Callbacks : d # c => record'[d] = record[d]
    BY <2>1, <2>3, RecordSet DEF CallbackInv
  <2>9. /\ tried' \in [Callbacks -> Nat] /\ tried'[c] = tried[c] + 1
        /\ \A d \in Callbacks : d # c => tried'[d] = tried[d]
    BY <2>1 DEF CallbackInv, CallbackTypeOK
  <2>10. CallbackTypeOK'
    BY <1>1, <2>7, <2>8, <2>9 DEF CallbackInv, CallbackTypeOK
  <2>11. Grows
    BY <1>1, <2>9, TriedType DEF Grows, CallbackInv
  <2>12. /\ RecordsAreTrue' /\ PutAsideWasTried'
    <3>1. ASSUME NEW d \in Callbacks, record'[d].state = record[d].state,
                 record'[d].attempts <= tried'[d]
          PROVE  /\ record'[d].attempts <= tried'[d]
                 /\ record'[d].state = "delivered" => d \in heard'
                 /\ record'[d].state \in {"retry", "delivered"} => d \in recorded'
                 /\ record'[d].state = "dlq" => tried'[d] >= CallbackMaxAttempts
      BY <2>10, <2>11, <3>1, RecordRests
    <3>2. ASSUME NEW d \in Callbacks PROVE record'[d].attempts <= tried'[d]
      <4>1. CASE d = c
        BY <2>3, <2>6, <2>8, <2>9, <4>1
      <4>2. CASE d # c
        BY <2>8, <2>9, <4>2 DEF CallbackInv, RecordsAreTrue
      <4>3. QED
        BY <4>1, <4>2
    <3>3. \A d \in Callbacks : record'[d].state = record[d].state \/ record'[d].state = "pending"
      BY <2>4, <2>8
    <3>4. QED
      BY <3>1, <3>2, <3>3 DEF RecordsAreTrue, PutAsideWasTried
  <2>13. HooksAreTrue'
    <3>1. /\ counted.attempts <= tried'[c] /\ counted.state # "delivered"
          /\ counted.step # "persisted" /\ counted.callback = c
      BY <2>2, <2>5, <2>6, <2>9
    <3>2. QED
      BY <2>7, <2>10, <2>11, <3>1, HookRests DEF HooksAreTrue
  <2>14. LoopIsTrue'
    BY <1>1, <2>10, <2>11, LoopRests
  <2>15. QED
    BY <1>1, <2>10, <2>12, <2>13, <2>14, PromiseRests DEF CallbackInv
<1>6. QED
  BY <1>4, <1>5

LEMMA PersistStep ==
  ASSUME CallbackInv, NEW h \in Hooks, CallbackPersist(h)
  PROVE  CallbackInv'
<1>1. UNCHANGED <<record, retry, heard, answered, calls, tried>>
  BY DEF CallbackPersist
<1>2. PICK c \in Callbacks : c = hook[h].callback /\ c # NoCallback
  BY HookFields DEF CallbackPersist, CallbackInv
<1>3. CASE hook' = [hook EXCEPT ![h] = IdleHook] /\ UNCHANGED <<mail, suppressed, recorded>>
  <2>1. hook' \in [Hooks -> Hook] /\ \A g \in Hooks : hook'[g] = hook[g] \/ hook'[g] = IdleHook
    BY <1>3, IdleTypes, HookSet DEF CallbackInv
  <2>2. CallbackTypeOK'
    BY <1>1, <1>3, <2>1 DEF CallbackInv, CallbackTypeOK
  <2>3. Grows
    BY <1>1, <1>3, TriedType DEF Grows, CallbackInv
  <2>4. RecordsAreTrue' /\ PutAsideWasTried' /\ LoopIsTrue' /\ HooksAreTrue'
    BY <1>1, <1>3, <2>1, <2>2, <2>3, RecordsUntouched, LoopRests, HooksRest
  <2>5. QED
    BY <1>1, <1>3, <2>2, <2>4, PromiseRests DEF CallbackInv
<1>4. CASE ~(hook' = [hook EXCEPT ![h] = IdleHook] /\ UNCHANGED <<mail, suppressed, recorded>>)
  <2> DEFINE persisted == [hook[h] EXCEPT !.step = "persisted"]
  <2>1. /\ hook' = [hook EXCEPT ![h] = persisted]
        /\ mail' = [mail EXCEPT !.status = CallbackKind[c]]
        /\ suppressed' = (suppressed \/ Suppresses(CallbackKind[c]))
        /\ recorded' = recorded \union {c}
    BY <1>2, <1>4 DEF CallbackPersist
  <2>2. hook[h] \in Hook /\ hook[h].attempts <= tried[c] /\ hook[h].state # "delivered"
    BY <1>2 DEF CallbackInv, CallbackTypeOK, HooksAreTrue
  <2>3. /\ persisted \in Hook /\ persisted.callback = c
        /\ persisted.state = hook[h].state /\ persisted.attempts = hook[h].attempts
    BY <1>2, <2>2 DEF Hook
  <2> HIDE DEF persisted
  <2>4. /\ hook' \in [Hooks -> Hook] /\ hook'[h] = persisted
        /\ \A g \in Hooks : g # h => hook'[g] = hook[g]
    BY <2>1, <2>3, HookSet DEF CallbackInv
  <2>5. suppressed' \in BOOLEAN /\ (suppressed => suppressed')
          /\ (Suppresses(CallbackKind[c]) => suppressed')
    BY <2>1 DEF CallbackInv, CallbackTypeOK
  <2>6. mail' \in [status : {"processing"} \union Kinds, known : BOOLEAN]
    BY <2>1, CallbackAssumption DEF CallbackInv, CallbackTypeOK
  <2>7. CallbackTypeOK'
    BY <1>1, <2>1, <2>4, <2>5, <2>6 DEF CallbackInv, CallbackTypeOK
  <2>8. Grows
    BY <1>1, <2>1, TriedType DEF Grows, CallbackInv
  <2>9. RecordsAreTrue' /\ PutAsideWasTried' /\ LoopIsTrue'
    BY <1>1, <2>7, <2>8, RecordsUntouched, LoopRests
  <2>10. HooksAreTrue'
    <3>1. persisted.attempts <= tried'[c] /\ c \in recorded'
      BY <1>1, <2>1, <2>2, <2>3
    <3>2. QED
      BY <2>2, <2>3, <2>4, <2>7, <2>8, <3>1, HookRests DEF HooksAreTrue
  <2>11. NoCallbackIsLost'
    <3>1. BouncedIsSuppressed'
      BY <2>1, <2>5 DEF CallbackInv, NoCallbackIsLost, BouncedIsSuppressed
    <3>2. QED
      BY <1>1, <2>1, <2>9, <3>1 DEF CallbackInv, NoCallbackIsLost
  <2>12. QED
    BY <2>7, <2>9, <2>10, <2>11 DEF CallbackInv
<1>5. QED
  BY <1>3, <1>4

LEMMA ForwardStep ==
  ASSUME CallbackInv, NEW h \in Hooks, CallbackForward(h)
  PROVE  CallbackInv'
<1>1. UNCHANGED <<retry, mail, suppressed, recorded, calls, tried>>
        /\ hook' = [hook EXCEPT ![h] = IdleHook]
  BY DEF CallbackForward
<1>2. PICK c \in Callbacks : c = hook[h].callback /\ c # NoCallback
  BY HookFields DEF CallbackForward, CallbackInv
<1>3. PICK ok \in BOOLEAN, received \in BOOLEAN :
        LET state == StateAfterForward(ok, hook[h].attempts)
        IN /\ ok => received
           /\ heard' = Heard(c, received)
           /\ record' = [record EXCEPT ![c].state = IF state = hook[h].state THEN @ ELSE state]
           /\ answered' = IF ok THEN answered \union {c} ELSE answered
  BY <1>2 DEF CallbackForward
<1> DEFINE state == StateAfterForward(ok, hook[h].attempts)
           next == IF state = hook[h].state THEN record[c].state ELSE state
           written == [record[c] EXCEPT !.state = next]
<1>4. /\ c \in recorded /\ hook[h].attempts <= tried[c]
      /\ hook[h].attempts \in Nat /\ tried[c] \in Nat /\ CallbackMaxAttempts \in Nat
  BY <1>2, CallbackAssumption, HookFields, TriedType
  DEF CallbackForward, CallbackInv, HooksAreTrue
<1>5. heard' \in {heard, heard \union {c}} /\ (ok => c \in heard')
        /\ answered' = IF ok THEN answered \union {c} ELSE answered
  BY <1>3 DEF Heard
<1>6. record[c] \in Record /\ record' = [record EXCEPT ![c] = written]
  BY <1>3 DEF CallbackInv, CallbackTypeOK
<1>7. /\ state \in {"delivered", "retry", "dlq"}
      /\ state = "delivered" => ok
      /\ state = "dlq" => hook[h].attempts >= CallbackMaxAttempts
  BY StateAfterForwardType
<1>8. next \in {record[c].state, state}
  OBVIOUS
<1>9. /\ written \in Record /\ written.state = next /\ written.attempts = record[c].attempts
  BY <1>6, <1>7, <1>8 DEF Record, RecordStates
<1> HIDE DEF state, next, written
<1>10. /\ record' \in [Callbacks -> Record] /\ record'[c] = written
       /\ \A d \in Callbacks : d # c => record'[d] = record[d]
  BY <1>6, <1>9, RecordSet DEF CallbackInv
<1>11. hook' \in [Hooks -> Hook] /\ \A g \in Hooks : hook'[g] = hook[g] \/ hook'[g] = IdleHook
  BY <1>1, IdleTypes, HookSet DEF CallbackInv
<1>12. CallbackTypeOK'
  BY <1>1, <1>5, <1>10, <1>11 DEF CallbackInv, CallbackTypeOK
<1>13. Grows
  BY <1>1, <1>5, TriedType DEF Grows, CallbackInv
<1>14. LoopIsTrue' /\ HooksAreTrue'
  BY <1>1, <1>11, <1>12, <1>13, LoopRests, HooksRest
<1>15. ASSUME NEW d \in Callbacks
       PROVE  /\ record'[d].attempts <= tried'[d]
              /\ record'[d].state = "delivered" => d \in heard'
              /\ record'[d].state \in {"retry", "delivered"} => d \in recorded'
              /\ record'[d].state = "dlq" => tried'[d] >= CallbackMaxAttempts
  <2>1. record'[d].attempts <= tried'[d]
    BY <1>1, <1>9, <1>10 DEF CallbackInv, RecordsAreTrue
  <2>2. CASE record'[d].state = record[d].state
    BY <1>12, <1>13, <2>1, <2>2, RecordRests
  <2>3. CASE d = c /\ record'[d].state = state
    BY <1>1, <1>4, <1>5, <1>7, <2>1, <2>3
  <2>4. QED
    BY <1>8, <1>9, <1>10, <2>2, <2>3
<1>16. RecordsAreTrue' /\ PutAsideWasTried'
  BY <1>15 DEF RecordsAreTrue, PutAsideWasTried
<1>17. NoCallbackIsLost'
  BY <1>1, <1>4, <1>5, <1>16, HearingIsAllowed
<1>18. QED
  BY <1>12, <1>14, <1>16, <1>17 DEF CallbackInv

LEMMA FailStep ==
  ASSUME CallbackInv, NEW h \in Hooks, CallbackFails(h)
  PROVE  CallbackInv'
<1>1. UNCHANGED <<record, retry, mail, suppressed, recorded, answered, calls, tried>>
        /\ hook' = [hook EXCEPT ![h] = IdleHook]
  BY DEF CallbackFails
<1>2. PICK c \in Callbacks : c = hook[h].callback /\ c # NoCallback
  BY HookFields DEF CallbackFails, CallbackInv
<1>3. heard' = heard \/ (heard' = heard \union {c} /\ c \in recorded)
  BY <1>2 DEF CallbackFails, Heard, CallbackInv, HooksAreTrue
<1>4. hook' \in [Hooks -> Hook] /\ \A g \in Hooks : hook'[g] = hook[g] \/ hook'[g] = IdleHook
  BY <1>1, IdleTypes, HookSet DEF CallbackInv
<1>5. CallbackTypeOK'
  BY <1>1, <1>3, <1>4 DEF CallbackInv, CallbackTypeOK
<1>6. Grows
  BY <1>1, <1>3, TriedType DEF Grows, CallbackInv
<1>7. RecordsAreTrue' /\ PutAsideWasTried' /\ LoopIsTrue' /\ HooksAreTrue'
  BY <1>1, <1>4, <1>5, <1>6, RecordsUntouched, LoopRests, HooksRest
<1>8. NoCallbackIsLost'
  BY <1>1, <1>3, <1>7, HearingIsAllowed, PromiseRests
<1>9. QED
  BY <1>5, <1>7, <1>8 DEF CallbackInv

-------------------------------------------------------------------------------
(* The retry loop. *)

LEMMA RetryReadStep ==
  ASSUME CallbackInv, RetryRead
  PROVE  CallbackInv'
<1>1. UNCHANGED <<record, hook, mail, suppressed, recorded, heard, answered, calls, tried>>
        /\ retry = IdleRetry /\ retry' = [retry EXCEPT !.page = Retriable]
  BY DEF RetryRead
<1>2. Retriable \subseteq Callbacks /\ Retriable \subseteq recorded
  BY DEF Retriable, CallbackInv, RecordsAreTrue
<1>3. retry' \in Retry /\ retry'.page = Retriable /\ retry'.posted = NoCallback
  BY <1>1, <1>2, IdleTypes DEF IdleRetry, Retry
<1>4. CallbackTypeOK'
  BY <1>1, <1>3 DEF CallbackInv, CallbackTypeOK
<1>5. Grows
  BY <1>1, TriedType DEF Grows, CallbackInv
<1>6. RecordsAreTrue' /\ PutAsideWasTried' /\ HooksAreTrue'
  BY <1>1, <1>4, <1>5, RecordsUntouched, HooksRest
<1>7. LoopIsTrue'
  BY <1>1, <1>2, <1>3 DEF LoopIsTrue
<1>8. QED
  BY <1>1, <1>4, <1>6, <1>7, PromiseRests DEF CallbackInv

LEMMA RetryPostStep ==
  ASSUME CallbackInv, RetryPost
  PROVE  CallbackInv'
<1>1. UNCHANGED <<record, hook, mail, suppressed, recorded, answered, calls>>
  BY DEF RetryPost
<1>2. PICK c \in retry.page, ok \in BOOLEAN, received \in BOOLEAN :
        /\ ok => received
        /\ heard' = Heard(c, received)
        /\ tried' = [tried EXCEPT ![c] = @ + 1]
        /\ retry' = [page |-> retry.page \ {c},
                     posted |-> IF record[c].state = "retry" THEN c ELSE NoCallback,
                     ok |-> ok /\ record[c].state = "retry",
                     attempts |-> IF record[c].state = "retry" THEN record[c].attempts ELSE 0]
  BY DEF RetryPost
<1>3. /\ c \in Callbacks /\ c \in recorded /\ retry.page \subseteq recorded
      /\ retry.page \subseteq Callbacks
  BY DEF CallbackInv, CallbackTypeOK, Retry, LoopIsTrue
<1>4. heard' \in {heard, heard \union {c}} /\ (ok => c \in heard')
  BY <1>2 DEF Heard
<1>5. /\ tried' \in [Callbacks -> Nat] /\ tried'[c] = tried[c] + 1
      /\ \A d \in Callbacks : d # c => tried'[d] = tried[d]
  BY <1>2, <1>3 DEF CallbackInv, CallbackTypeOK
<1>6. record[c].attempts \in Nat /\ tried[c] \in Nat /\ record[c].attempts <= tried[c]
  BY <1>3, TriedType DEF CallbackInv, RecordsAreTrue
<1>7. (ok /\ record[c].state = "retry") \in BOOLEAN
  OBVIOUS
<1>8. retry' \in Retry
  BY <1>2, <1>3, <1>6, <1>7 DEF Retry
<1>9. CallbackTypeOK'
  BY <1>1, <1>3, <1>4, <1>5, <1>8 DEF CallbackInv, CallbackTypeOK
<1>10. Grows
  BY <1>1, <1>4, <1>5, TriedType DEF Grows, CallbackInv
<1>11. RecordsAreTrue' /\ PutAsideWasTried' /\ HooksAreTrue'
  BY <1>1, <1>9, <1>10, RecordsUntouched, HooksRest
<1>12. LoopIsTrue'
  <2>1. retry'.page \subseteq recorded'
    BY <1>1, <1>2, <1>3
  <2>2. CASE record[c].state = "retry"
    <3>1. retry'.posted = c /\ retry'.attempts = record[c].attempts /\ (retry'.ok => ok)
      BY <1>2, <2>2
    <3>2. QED
      BY <1>1, <1>3, <1>4, <1>5, <1>6, <2>1, <3>1 DEF LoopIsTrue
  <2>3. CASE record[c].state # "retry"
    BY <1>2, <2>1, <2>3 DEF LoopIsTrue
  <2>4. QED
    BY <2>2, <2>3
<1>13. NoCallbackIsLost'
  BY <1>1, <1>3, <1>4, <1>11, HearingIsAllowed
<1>14. QED
  BY <1>9, <1>11, <1>12, <1>13 DEF CallbackInv

LEMMA RetryWriteStep ==
  ASSUME CallbackInv, RetryWrite
  PROVE  CallbackInv'
<1>1. UNCHANGED <<hook, mail, suppressed, recorded, heard, answered, calls, tried>>
        /\ retry' = [retry EXCEPT !.posted = NoCallback, !.ok = FALSE, !.attempts = 0]
  BY DEF RetryWrite
<1>2. PICK c \in Callbacks : c = retry.posted /\ c # NoCallback
  BY DEF RetryWrite, CallbackInv, CallbackTypeOK, Retry
<1> DEFINE attempts == retry.attempts + 1
           state == StateAfterForward(retry.ok, attempts)
           next == IF state = "retry" THEN record[c].state ELSE state
           written == [state |-> next, attempts |-> attempts, due |-> FALSE]
<1>3. /\ retry \in Retry /\ retry.ok \in BOOLEAN /\ attempts \in Nat
      /\ tried[c] \in Nat /\ CallbackMaxAttempts \in Nat
      /\ c \in recorded /\ attempts <= tried[c] /\ (retry.ok => c \in heard)
  BY <1>2, CallbackAssumption, TriedType
  DEF CallbackInv, CallbackTypeOK, Retry, LoopIsTrue
<1>4. record[c] \in Record /\ record' = [record EXCEPT ![c] = written]
  BY <1>2 DEF RetryWrite, CallbackInv, CallbackTypeOK
<1>5. /\ state \in {"delivered", "retry", "dlq"}
      /\ state = "delivered" => retry.ok
      /\ state = "dlq" => attempts >= CallbackMaxAttempts
  BY <1>3, StateAfterForwardType
<1>6. next \in {record[c].state, state}
  OBVIOUS
<1>7. written \in Record /\ written.state = next /\ written.attempts = attempts
  BY <1>3, <1>4, <1>5, <1>6 DEF Record, RecordStates
<1> HIDE DEF attempts, state, next, written
<1>8. /\ record' \in [Callbacks -> Record] /\ record'[c] = written
      /\ \A d \in Callbacks : d # c => record'[d] = record[d]
  BY <1>4, <1>7, RecordSet DEF CallbackInv
<1>9. retry' \in Retry /\ retry'.page = retry.page /\ retry'.posted = NoCallback
  BY <1>1, <1>3 DEF Retry
<1>10. CallbackTypeOK'
  BY <1>1, <1>8, <1>9 DEF CallbackInv, CallbackTypeOK
<1>11. Grows
  BY <1>1, TriedType DEF Grows, CallbackInv
<1>12. HooksAreTrue'
  BY <1>1, <1>10, <1>11, HooksRest
<1>13. LoopIsTrue'
  BY <1>1, <1>9 DEF LoopIsTrue, CallbackInv
<1>14. ASSUME NEW d \in Callbacks
       PROVE  /\ record'[d].attempts <= tried'[d]
              /\ record'[d].state = "delivered" => d \in heard'
              /\ record'[d].state \in {"retry", "delivered"} => d \in recorded'
              /\ record'[d].state = "dlq" => tried'[d] >= CallbackMaxAttempts
  <2>1. record'[d].attempts <= tried'[d]
    BY <1>1, <1>3, <1>7, <1>8 DEF CallbackInv, RecordsAreTrue
  <2>2. CASE record'[d].state = record[d].state
    BY <1>10, <1>11, <2>1, <2>2, RecordRests
  <2>3. CASE d = c /\ record'[d].state = state
    BY <1>1, <1>3, <1>5, <2>1, <2>3
  <2>4. QED
    BY <1>6, <1>7, <1>8, <2>2, <2>3
<1>15. RecordsAreTrue' /\ PutAsideWasTried'
  BY <1>14 DEF RecordsAreTrue, PutAsideWasTried
<1>16. QED
  BY <1>1, <1>10, <1>12, <1>13, <1>15, PromiseRests DEF CallbackInv

-------------------------------------------------------------------------------
(* The whole step. *)

LEMMA RestStep ==
  ASSUME CallbackInv, CallbackTypeOK',
         UNCHANGED <<hook, retry, suppressed, recorded, heard, answered, tried>>,
         \A c \in Callbacks : /\ record'[c].state = record[c].state
                              /\ record'[c].attempts = record[c].attempts
  PROVE  CallbackInv'
<1>1. Grows
  BY TriedType DEF Grows, CallbackInv
<1>2. \A c \in Callbacks : record'[c].attempts <= tried'[c]
  BY DEF CallbackInv, RecordsAreTrue
<1>3. RecordsAreTrue' /\ PutAsideWasTried' /\ LoopIsTrue' /\ HooksAreTrue'
  BY <1>1, <1>2, RecordsRest, LoopRests, HooksRest
<1>4. QED
  BY <1>3, PromiseRests DEF CallbackInv

LEMMA CallbackStep ==
  ASSUME CallbackInv, [CallbackNext]_callbackVars
  PROVE  CallbackInv'
<1>1. CASE AcceptanceRecorded
  <2>1. UNCHANGED <<record, hook, retry, suppressed, recorded, heard, answered, calls, tried>>
    BY <1>1 DEF AcceptanceRecorded
  <2>2. mail' \in [status : {"processing"} \union Kinds, known : BOOLEAN]
    BY <1>1 DEF AcceptanceRecorded, Kinds
  <2>3. CallbackTypeOK'
    BY <2>1, <2>2 DEF CallbackInv, CallbackTypeOK
  <2>4. QED
    BY <2>1, <2>3, RestStep
<1>2. ASSUME NEW c \in Callbacks, CallbackBecomesDue(c) PROVE CallbackInv'
  <2> DEFINE written == [record[c] EXCEPT !.due = TRUE]
  <2>1. UNCHANGED <<hook, retry, mail, suppressed, recorded, heard, answered, calls, tried>>
    BY <1>2 DEF CallbackBecomesDue
  <2>2. record[c] \in Record /\ record' = [record EXCEPT ![c] = written]
    BY <1>2 DEF CallbackBecomesDue, CallbackInv, CallbackTypeOK
  <2>3. /\ written \in Record
        /\ written.state = record[c].state /\ written.attempts = record[c].attempts
    BY <2>2 DEF Record
  <2> HIDE DEF written
  <2>4. /\ record' \in [Callbacks -> Record] /\ record'[c] = written
        /\ \A d \in Callbacks : d # c => record'[d] = record[d]
    BY <2>2, <2>3, RecordSet DEF CallbackInv
  <2>5. CallbackTypeOK'
    BY <2>1, <2>4 DEF CallbackInv, CallbackTypeOK
  <2>6. \A d \in Callbacks : /\ record'[d].state = record[d].state
                             /\ record'[d].attempts = record[d].attempts
    BY <2>3, <2>4
  <2>7. QED
    BY <2>1, <2>5, <2>6, RestStep
<1>3. CASE UNCHANGED callbackVars
  <2>1. UNCHANGED <<record, hook, retry, mail, suppressed, recorded, heard, answered, calls,
                    tried>>
    BY <1>3 DEF callbackVars
  <2>2. CallbackTypeOK'
    BY <2>1 DEF CallbackInv, CallbackTypeOK
  <2>3. QED
    BY <2>1, <2>2, RestStep
<1>4. QED
  BY <1>1, <1>2, <1>3, ArriveStep, CountStep, PersistStep, ForwardStep, FailStep,
     RetryReadStep, RetryPostStep, RetryWriteStep DEF CallbackNext

LEMMA CallbackBegins == CallbackInit => CallbackInv
<1> SUFFICES ASSUME CallbackInit PROVE CallbackInv
  OBVIOUS
<1>1. CallbackTypeOK
  <2>1. /\ record \in [Callbacks -> Record] /\ hook \in [Hooks -> Hook] /\ retry \in Retry
    BY IdleTypes DEF CallbackInit
  <2>2. mail \in [status : {"processing"} \union Kinds, known : BOOLEAN]
    BY DEF CallbackInit
  <2>3. calls \in [Callbacks -> 0..CallbackMaxCalls]
    BY CallbackAssumption DEF CallbackInit
  <2>4. tried \in [Callbacks -> Nat]
    BY DEF CallbackInit
  <2>5. /\ suppressed \in BOOLEAN /\ recorded \in SUBSET Callbacks
        /\ heard \in SUBSET Callbacks /\ answered \in SUBSET Callbacks
    BY DEF CallbackInit
  <2>6. QED
    BY <2>1, <2>2, <2>3, <2>4, <2>5 DEF CallbackTypeOK
<1>2. RecordsAreTrue /\ HooksAreTrue /\ LoopIsTrue
  BY DEF CallbackInit, RecordsAreTrue, HooksAreTrue, LoopIsTrue, NoRecord, IdleHook, IdleRetry
<1>3. NoCallbackIsLost
  BY DEF CallbackInit, NoCallbackIsLost, PutAsideWasTried, BouncedIsSuppressed, NoRecord
<1>4. QED
  BY <1>1, <1>2, <1>3 DEF CallbackInv

LEMMA CallbackInvariant == CallbackSpec => []CallbackInv
<1>1. CallbackInv /\ [CallbackNext]_callbackVars => CallbackInv'
  BY CallbackStep
<1>2. QED
  BY CallbackBegins, <1>1, PTL DEF CallbackSpec

\* Repeated and concurrent requests, the retry loop and failures half-way lose no
\* callback: the middleware hears only of what is committed, Postal is told to
\* stop only when the middleware has it, what is put aside was tried as often as
\* the limit says, and who bounced or complained is suppressed.
THEOREM NoCallbackIsLostCorrect == CallbackSpec => []NoCallbackIsLost
<1>1. CallbackInv => NoCallbackIsLost
  BY DEF CallbackInv
<1>2. QED
  BY CallbackInvariant, <1>1, PTL

-------------------------------------------------------------------------------
(***************************************************************************)
(* Usage snapshots: no quantity is published twice in a row, and a run     *)
(* that has ended has brought every tenant up to date.                     *)
(***************************************************************************)

\* The latest quantity published for a tenant.
Latest(t) == IF revisions[t] = <<>> THEN -1 ELSE revisions[t][Len(revisions[t])]

\* A page is a stretch of the tenants that follow the cursor. What was read for
\* a tenant in it is news still, or was no news; every tenant behind the cursor
\* is published up to what the ledger said when the run began.
RunIsRight(r) ==
    LET me == run[r]
    IN /\ me.state # "running" => me.page = {}
       /\ me.state = "idle" => me.after = 0
       /\ me.page # {} => \E m \in me.page : \A d \in me.page : d <= m
       /\ \A p \in me.page : \A d \in UsageTenants : d <= p => d <= me.after \/ d \in me.page
       /\ \A t \in UsageTenants : me.due[t] <= usage[t]
       /\ \A t \in me.page : me.fresh[t] = 0 => me.due[t] <= Latest(t)
       /\ \A t \in me.page : me.fresh[t] # 0 =>
             /\ Latest(t) < me.fresh[t] - 1 /\ me.due[t] <= me.fresh[t] - 1
             /\ me.fresh[t] - 1 <= usage[t]
       /\ \A t \in UsageTenants : t <= me.after \/ me.state = "done" => me.due[t] <= Latest(t)

RunsAreRight == \A r \in UsageRuns : RunIsRight(r)

PagesAreDisjoint ==
    \A r, q \in UsageRuns : r # q => run[r].page \cap run[q].page = {}

RevisionsDiffer ==
    \A t \in UsageTenants : \A i \in 1..(Len(revisions[t]) - 1) :
        revisions[t][i] # revisions[t][i + 1]

LatestIsCounted == \A t \in UsageTenants : Latest(t) <= usage[t]

UsageInv ==
    /\ UsageTypeOK /\ RunsAreRight /\ PagesAreDisjoint
    /\ RevisionsDiffer /\ LatestIsCounted

-------------------------------------------------------------------------------
(* The steps. *)

LEMMA LatestOfSequence ==
  ASSUME NEW s \in Seq(Nat)
  PROVE  /\ (IF s = <<>> THEN -1 ELSE s[Len(s)]) \in Int
         /\ (IF s = <<>> THEN -1 ELSE s[Len(s)]) >= -1
         /\ (IF s = <<>> THEN -1 ELSE s[Len(s)]) >= 0 <=> s # <<>>
<1>1. CASE s = <<>>
  BY <1>1
<1>2. CASE s # <<>>
  <2>1. Len(s) \in 1 .. Len(s)
    BY <1>2
  <2>2. s[Len(s)] \in Nat
    BY <2>1
  <2>3. QED
    BY <1>2, <2>2
<1>3. QED
  BY <1>1, <1>2

LEMMA UsageTypes ==
  ASSUME UsageTypeOK
  PROVE  /\ \A t \in UsageTenants :
               /\ t \in Nat \ {0} /\ usage[t] \in Nat /\ revisions[t] \in Seq(Nat)
               /\ Latest(t) \in Int /\ Latest(t) >= -1
               /\ Latest(t) >= 0 <=> revisions[t] # <<>>
         /\ \A r \in UsageRuns :
               /\ run[r] \in UsageRun /\ run[r].page \subseteq UsageTenants
               /\ run[r].after \in Nat
               /\ \A t \in UsageTenants : run[r].fresh[t] \in Nat /\ run[r].due[t] \in Nat
<1>1. ASSUME NEW t \in UsageTenants
      PROVE  /\ t \in Nat \ {0} /\ usage[t] \in Nat /\ revisions[t] \in Seq(Nat)
             /\ Latest(t) \in Int /\ Latest(t) >= -1
             /\ Latest(t) >= 0 <=> revisions[t] # <<>>
  <2>1. t \in Nat \ {0} /\ usage[t] \in Nat /\ revisions[t] \in Seq(Nat)
    BY UsageAssumption DEF UsageTypeOK
  <2>2. QED
    BY <2>1, LatestOfSequence DEF Latest
<1>2. ASSUME NEW r \in UsageRuns
      PROVE  /\ run[r] \in UsageRun /\ run[r].page \subseteq UsageTenants
             /\ run[r].after \in Nat
             /\ \A t \in UsageTenants : run[r].fresh[t] \in Nat /\ run[r].due[t] \in Nat
  <2>1. run[r] \in UsageRun
    BY DEF UsageTypeOK
  <2>2. /\ run[r].page \in SUBSET UsageTenants /\ run[r].after \in UsageTenants \union {0}
        /\ run[r].fresh \in [UsageTenants -> Nat] /\ run[r].due \in [UsageTenants -> Nat]
    BY <2>1 DEF UsageRun
  <2>3. run[r].after \in Nat /\ run[r].page \subseteq UsageTenants
    <3>1. UsageTenants \union {0} \subseteq Nat
      BY UsageAssumption
    <3>2. run[r].after \in Nat
      BY <2>2, <3>1
    <3>3. run[r].page \subseteq UsageTenants
      BY <2>2
    <3>4. QED
      BY <3>2, <3>3
  <2>4. \A t \in UsageTenants : run[r].fresh[t] \in Nat /\ run[r].due[t] \in Nat
    BY <2>2
  <2>5. QED
    BY <2>1, <2>3, <2>4
<1>3. QED
  BY <1>1, <1>2

LEMMA IdleRunType ==
  /\ IdleRun \in UsageRun /\ IdleRun.page = {} /\ IdleRun.state = "idle" /\ IdleRun.after = 0
  /\ \A t \in UsageTenants : IdleRun.due[t] = 0
<1>1. {} \in SUBSET UsageTenants /\ None \in [UsageTenants -> Nat]
  BY DEF None
<1>2. PICK S \in SUBSET UsageTenants : S = {}
  BY <1>1
<1>3. IdleRun = [after |-> 0, page |-> S, fresh |-> None, state |-> "idle", due |-> None]
  BY <1>2 DEF IdleRun
<1>4. QED
  BY <1>1, <1>2, <1>3 DEF UsageRun, None

\* A quantity other than the last is appended.
LEMMA AppendedRevision ==
  ASSUME NEW s \in Seq(Nat), NEW v \in Nat, s = <<>> \/ s[Len(s)] # v,
         \A i \in 1..(Len(s) - 1) : s[i] # s[i + 1]
  PROVE  /\ Append(s, v) \in Seq(Nat) /\ Append(s, v) # <<>>
         /\ Append(s, v)[Len(Append(s, v))] = v
         /\ \A i \in 1..(Len(Append(s, v)) - 1) : Append(s, v)[i] # Append(s, v)[i + 1]
<1> DEFINE a == Append(s, v)
<1>1. a \in Seq(Nat) /\ Len(a) = Len(s) + 1 /\ a[Len(s) + 1] = v /\ Len(s) \in Nat
      /\ \A i \in 1..Len(s) : a[i] = s[i]
  OBVIOUS
<1>2. ASSUME NEW i \in 1..Len(s) PROVE a[i] # a[i + 1]
  <2>1. CASE i = Len(s)
    BY <1>1, <2>1
  <2>2. CASE i # Len(s)
    <3>1. i \in 1..(Len(s) - 1) /\ i + 1 \in 1..Len(s)
      BY <1>1, <2>2
    <3>2. QED
      BY <1>1, <3>1
  <2>3. QED
    BY <2>1, <2>2
<1>3. a # <<>> /\ a[Len(a)] = v /\ Len(a) - 1 = Len(s)
  <2>1. Len(a) - 1 = Len(s) /\ a[Len(a)] = v
    BY <1>1
  <2>2. Len(<<>>) = 0
    OBVIOUS
  <2>3. Len(a) # 0
    BY <1>1
  <2> HIDE DEF a
  <2>4. QED
    BY <2>1, <2>2, <2>3
<1> HIDE DEF a
<1>4. a \in Seq(Nat) /\ a # <<>> /\ a[Len(a)] = v
      /\ \A i \in 1..(Len(a) - 1) : a[i] # a[i + 1]
  BY <1>1, <1>2, <1>3
<1>5. QED
  BY <1>4 DEF a

\* A run stays right while it rests: the ledger and the revisions grow, and the
\* revisions of the tenants it has locked are not written.
LEMMA RunRests ==
  ASSUME UsageTypeOK, UsageTypeOK', NEW r \in UsageRuns, RunIsRight(r), run'[r] = run[r],
         \A t \in UsageTenants : usage[t] <= usage'[t] /\ Latest(t) <= Latest(t)',
         \A t \in run[r].page : Latest(t)' = Latest(t)
  PROVE  RunIsRight(r)'
<1> DEFINE me == run[r]
<1>1. /\ me.page \subseteq UsageTenants
      /\ \A t \in UsageTenants :
            /\ me.due[t] \in Nat /\ me.fresh[t] \in Nat
            /\ Latest(t) \in Int /\ Latest(t)' \in Int /\ usage[t] \in Nat /\ usage'[t] \in Nat
  <2>1. me.page \subseteq UsageTenants
      /\ \A t \in UsageTenants :
            me.due[t] \in Nat /\ me.fresh[t] \in Nat /\ Latest(t) \in Int /\ usage[t] \in Nat
    BY UsageTypes
  <2>2. \A t \in UsageTenants : Latest(t)' \in Int /\ usage'[t] \in Nat
    <3>1. \A t \in UsageTenants : revisions'[t] \in Seq(Nat) /\ usage'[t] \in Nat
      BY UsageAssumption DEF UsageTypeOK
    <3>2. QED
      BY <3>1, LatestOfSequence DEF Latest
  <2>3. QED
    BY <2>1, <2>2
<1>2. \A t \in UsageTenants : me.due[t] <= usage'[t]
  BY <1>1 DEF RunIsRight
<1>3. \A t \in me.page : me.fresh[t] # 0 => me.fresh[t] - 1 <= usage'[t]
  BY <1>1 DEF RunIsRight
<1>4. \A t \in UsageTenants : t <= me.after \/ me.state = "done" => me.due[t] <= Latest(t)'
  BY <1>1 DEF RunIsRight
<1>5. \A t \in me.page : t \in UsageTenants
  BY <1>1
<1>6. QED
  BY <1>2, <1>3, <1>4, <1>5 DEF RunIsRight

\* A run that begins, looks or dies writes no revision.
LEMMA NothingPublished ==
  ASSUME UsageInv, UsageTypeOK', UNCHANGED revisions,
         \A t \in UsageTenants : usage[t] <= usage'[t],
         NEW r \in UsageRuns, run'[r] = run[r] \/ RunIsRight(r)',
         \A q \in UsageRuns \ {r} : run'[q] = run[q],
         run'[r].page \subseteq run[r].page \/ \A q \in UsageRuns \ {r} : run[q].page \cap run'[r].page = {}
  PROVE  UsageInv'
<1>1. UsageTypeOK /\ \A q \in UsageRuns : RunIsRight(q)
  BY DEF UsageInv, RunsAreRight
<1>2. \A t : Latest(t)' = Latest(t)
  BY DEF Latest
<1>3. \A t \in UsageTenants : Latest(t) \in Int /\ usage[t] \in Nat /\ usage'[t] \in Nat
  <2>1. \A t \in UsageTenants : Latest(t) \in Int /\ usage[t] \in Nat
    BY <1>1, UsageTypes
  <2>2. \A t \in UsageTenants : usage'[t] \in Nat
    BY UsageAssumption DEF UsageTypeOK
  <2>3. QED
    BY <2>1, <2>2
<1>4. LatestIsCounted'
  BY <1>2, <1>3 DEF UsageInv, LatestIsCounted
<1>5. ASSUME NEW q \in UsageRuns PROVE RunIsRight(q)'
  <2>1. \A t \in UsageTenants : usage[t] <= usage'[t] /\ Latest(t) <= Latest(t)'
    BY <1>2, <1>3
  <2>2. CASE run'[q] = run[q]
    BY <1>1, <1>2, <2>1, <2>2, RunRests
  <2>3. CASE run'[q] # run[q]
    BY <2>3
  <2>4. QED
    BY <2>2, <2>3
<1>6. PagesAreDisjoint'
  BY DEF UsageInv, PagesAreDisjoint
<1>7. RevisionsDiffer'
  BY DEF UsageInv, RevisionsDiffer
<1>8. QED
  BY <1>4, <1>5, <1>6, <1>7 DEF UsageInv, RunsAreRight

LEMMA GrowsStep ==
  ASSUME UsageInv, NEW g \in UsageTenants, UsageGrows(g)
  PROVE  UsageInv'
<1>1. /\ UsageTypeOK /\ usage[g] < UsageMax /\ UNCHANGED <<revisions, run, usageFaults>>
      /\ usage' = [usage EXCEPT ![g] = usage[g] + 1]
  BY DEF UsageGrows, UsageInv
<1>2. usage' \in [UsageTenants -> 0..UsageMax] /\ \A t \in UsageTenants : usage[t] <= usage'[t]
  BY <1>1, UsageAssumption DEF UsageTypeOK
<1>3. UsageTypeOK'
  BY <1>1, <1>2 DEF UsageTypeOK
<1>4. CASE UsageRuns = {}
  <2>1. LatestIsCounted'
    <3>1. \A t \in UsageTenants : Latest(t)' = Latest(t) /\ Latest(t) \in Int /\ usage[t] \in Nat
      BY <1>1, UsageTypes DEF Latest
    <3>2. QED
      BY <1>2, <3>1, UsageAssumption DEF UsageInv, LatestIsCounted
  <2>2. QED
    BY <1>1, <1>3, <1>4, <2>1
    DEF UsageInv, RunsAreRight, PagesAreDisjoint, RevisionsDiffer
<1>5. CASE UsageRuns # {}
  BY <1>1, <1>2, <1>3, <1>5, NothingPublished
<1>6. QED
  BY <1>4, <1>5

LEMMA BeginsStep ==
  ASSUME UsageInv, NEW r \in UsageRuns, RunBegins(r)
  PROVE  UsageInv'
<1> DEFINE new == [run[r] EXCEPT !.state = "running", !.due = usage]
<1>1. /\ UsageTypeOK /\ run[r].state = "idle" /\ UNCHANGED <<usage, revisions, usageFaults>>
      /\ run' = [run EXCEPT ![r] = new] /\ run[r] \in UsageRun /\ RunIsRight(r)
  BY DEF RunBegins, UsageInv, RunsAreRight, UsageTypeOK
<1>2. run[r].page = {} /\ run[r].after = 0
  BY <1>1 DEF RunIsRight
<1>3. usage \in [UsageTenants -> Nat]
  BY <1>1, UsageAssumption DEF UsageTypeOK
<1>4. /\ new \in UsageRun /\ new.page = {} /\ new.after = 0 /\ new.state = "running"
      /\ new.due = usage
  BY <1>1, <1>2, <1>3 DEF UsageRun
<1> HIDE DEF new
<1>5. run' \in [UsageRuns -> UsageRun] /\ run'[r] = new
      /\ \A q \in UsageRuns : q # r => run'[q] = run[q]
  BY <1>1, <1>4 DEF UsageTypeOK
<1>6. UsageTypeOK'
  BY <1>1, <1>5 DEF UsageTypeOK
<1>7. \A t \in UsageTenants : usage[t] <= usage'[t] /\ ~ (t <= 0)
  BY <1>1, UsageTypes
<1>8. RunIsRight(r)'
  BY <1>1, <1>4, <1>5, <1>7 DEF RunIsRight
<1>9. QED
  BY <1>1, <1>2, <1>4, <1>5, <1>6, <1>7, <1>8, NothingPublished

LEMMA DiesStep ==
  ASSUME UsageInv, NEW r \in UsageRuns, RunDies(r)
  PROVE  UsageInv'
<1>1. /\ UsageTypeOK /\ UNCHANGED <<usage, revisions>> /\ usageFaults' \in 0..UsageMaxFaults
      /\ run' = [run EXCEPT ![r] = IdleRun]
  BY UsageAssumption DEF RunDies, UsageInv, UsageTypeOK
<1>2. run' \in [UsageRuns -> UsageRun] /\ run'[r] = IdleRun
      /\ \A q \in UsageRuns : q # r => run'[q] = run[q]
  BY <1>1, IdleRunType DEF UsageTypeOK
<1>3. UsageTypeOK'
  BY <1>1, <1>2 DEF UsageTypeOK
<1>4. \A t \in UsageTenants : usage[t] <= usage'[t] /\ 0 <= usage'[t] /\ ~ (t <= 0)
  BY <1>1, UsageTypes
<1>5. RunIsRight(r)'
  BY <1>2, <1>4, IdleRunType DEF RunIsRight
<1>6. QED
  BY <1>1, <1>2, <1>3, <1>4, <1>5, IdleRunType, NothingPublished

LEMMA LooksStep ==
  ASSUME UsageInv, NEW r \in UsageRuns, RunLooks(r)
  PROVE  UsageInv'
<1>1. /\ UsageTypeOK /\ run[r].state = "running" /\ UNCHANGED <<usage, revisions, usageFaults>>
      /\ run[r] \in UsageRun /\ RunIsRight(r)
  BY DEF RunLooks, UsageInv, RunsAreRight, UsageTypeOK
<1> DEFINE news(t) == IF Changed(t) THEN usage[t] + 1 ELSE 0
<1>2. PICK t \in UsageTenants \ run[r].page :
          /\ t > run[r].after /\ Unlocked(t)
          /\ \A d \in UsageTenants \ run[r].page : d > run[r].after => t <= d
          /\ run' = [run EXCEPT ![r].page = @ \union {t}, ![r].fresh[t] = news(t)]
  BY DEF RunLooks
<1> DEFINE fresh == [run[r].fresh EXCEPT ![t] = news(t)]
<1> DEFINE page == run[r].page \union {t}
<1> DEFINE new == [run[r] EXCEPT !.page = page, !.fresh = fresh]
<1>3. /\ usage[t] \in Nat /\ t \in Nat /\ Latest(t) \in Int /\ Latest(t) >= -1
      /\ Latest(t) <= usage[t] /\ run[r].due[t] <= usage[t] /\ run[r].due[t] \in Nat
  BY <1>1, UsageTypes DEF UsageInv, LatestIsCounted, RunIsRight
<1>4. /\ news(t) \in Nat
      /\ news(t) = 0 => Latest(t) = usage[t]
      /\ news(t) # 0 => news(t) = usage[t] + 1 /\ Latest(t) < usage[t]
  <2>1. CASE Changed(t)
    <3>1. Latest(t) # usage[t]
      BY <1>3, <2>1 DEF Changed, Latest
    <3>2. QED
      BY <1>3, <2>1, <3>1
  <2>2. CASE ~ Changed(t)
    BY <1>3, <2>2 DEF Changed, Latest
  <2>3. QED
    BY <2>1, <2>2
<1> HIDE DEF news
<1>5. run[r].fresh \in [UsageTenants -> Nat]
  BY <1>1 DEF UsageRun
<1>6. fresh \in [UsageTenants -> Nat] /\ fresh[t] = news(t)
      /\ \A d \in UsageTenants : d # t => fresh[d] = run[r].fresh[d]
  BY <1>4, <1>5
<1>7. page \in SUBSET UsageTenants
  BY <1>1, UsageTypes
<1> HIDE DEF fresh
<1>8. /\ new \in UsageRun /\ new.page = page /\ new.fresh = fresh /\ new.state = "running"
      /\ new.after = run[r].after /\ new.due = run[r].due
  <2> HIDE DEF page
  <2>1. QED
    BY <1>1, <1>6, <1>7 DEF UsageRun
<1> HIDE DEF new
<1>9. run' \in [UsageRuns -> UsageRun] /\ run'[r] = new
      /\ \A q \in UsageRuns : q # r => run'[q] = run[q]
  <2>1. run' = [run EXCEPT ![r] = new]
    BY <1>1, <1>2 DEF new, fresh, UsageTypeOK, UsageRun
  <2>2. QED
    BY <1>1, <1>8, <2>1 DEF UsageTypeOK
<1>10. UsageTypeOK'
  BY <1>1, <1>9 DEF UsageTypeOK
<1>11. /\ run[r].after \in Nat /\ run[r].page \subseteq UsageTenants
       /\ \A d \in UsageTenants : d \in Nat
  BY <1>1, UsageTypes
<1>12. \A d \in page : d <= t
  <2>1. ASSUME NEW d \in run[r].page PROVE d <= t
    <3>1. d \in UsageTenants /\ (t <= d => t <= run[r].after \/ t \in run[r].page)
      BY <1>1, <1>11 DEF RunIsRight
    <3>2. QED
      BY <1>2, <1>11, <3>1
  <2>2. QED
    BY <1>3, <2>1
<1>13. ASSUME NEW p \in page, NEW d \in UsageTenants, d <= p
       PROVE  d <= run[r].after \/ d \in page
  <2>1. CASE p \in run[r].page
    BY <1>1, <1>13, <2>1 DEF RunIsRight
  <2>2. CASE p = t
    <3>1. d > run[r].after /\ d \notin run[r].page => d = t
      BY <1>2, <1>3, <1>11, <1>13, <2>2
    <3>2. QED
      BY <1>11, <3>1
  <2>3. QED
    BY <2>1, <2>2
<1>14. \A d : Latest(d)' = Latest(d)
  BY <1>1 DEF Latest
<1>15. ASSUME NEW d \in page
       PROVE  /\ fresh[d] = 0 => run[r].due[d] <= Latest(d)
              /\ fresh[d] # 0 => /\ Latest(d) < fresh[d] - 1 /\ run[r].due[d] <= fresh[d] - 1
                                 /\ fresh[d] - 1 <= usage[d]
  <2>1. CASE d = t
    BY <1>3, <1>4, <1>6, <2>1
  <2>2. CASE d # t
    BY <1>1, <1>6, <1>11, <2>2 DEF RunIsRight
  <2>3. QED
    BY <2>1, <2>2
<1>16. RunIsRight(r)'
  <2>1. t \in page /\ page # {}
    OBVIOUS
  <2> HIDE DEF page
  <2>2. \A d \in UsageTenants : run[r].due[d] <= usage'[d]
    BY <1>1 DEF RunIsRight
  <2>3. \A d \in UsageTenants : d <= run[r].after => run[r].due[d] <= Latest(d)'
    BY <1>1, <1>14 DEF RunIsRight
  <2>4. \E m \in page : \A d \in page : d <= m
    BY <1>12, <2>1
  <2>5. \A p \in page : \A d \in UsageTenants : d <= p => d <= run[r].after \/ d \in page
    BY <1>13
  <2>6. \A d \in page : fresh[d] = 0 => run[r].due[d] <= Latest(d)'
    BY <1>14, <1>15
  <2>7. \A d \in page : fresh[d] # 0 =>
             /\ Latest(d)' < fresh[d] - 1 /\ run[r].due[d] <= fresh[d] - 1
             /\ fresh[d] - 1 <= usage'[d]
    BY <1>1, <1>14, <1>15
  <2>8. QED
    BY <1>8, <1>9, <2>2, <2>3, <2>4, <2>5, <2>6, <2>7 DEF RunIsRight
<1>17. \A q \in UsageRuns \ {r} : run[q].page \cap run'[r].page = {}
  BY <1>2, <1>8, <1>9 DEF Unlocked, UsageInv, PagesAreDisjoint
<1>18. \A d \in UsageTenants : usage[d] <= usage'[d]
  BY <1>1, UsageTypes
<1>19. QED
  BY <1>1, <1>9, <1>10, <1>16, <1>17, <1>18, NothingPublished

\* What a commit writes for a tenant, and what stands behind the cursor then.
LEMMA CommitsStep ==
  ASSUME UsageInv, NEW r \in UsageRuns, RunCommits(r)
  PROVE  UsageInv'
<1> DEFINE me == run[r]
<1> DEFINE state == IF Cardinality(run[r].page) = UsagePage THEN "running" ELSE "done"
<1> DEFINE after == IF run[r].page = {} THEN run[r].after ELSE LastOf(run[r].page)
<1> DEFINE new == [run[r] EXCEPT !.page = {}, !.fresh = None, !.state = state, !.after = after]
<1>1. /\ UsageTypeOK /\ me.state = "running" /\ PageEnd(r) /\ UNCHANGED <<usage, usageFaults>>
      /\ me \in UsageRun /\ RunIsRight(r)
      /\ \A q \in UsageRuns : RunIsRight(q)
      /\ revisions' = [t \in UsageTenants |->
          IF t \in me.page /\ me.fresh[t] # 0
          THEN Append(revisions[t], me.fresh[t] - 1) ELSE revisions[t]]
  BY DEF RunCommits, UsageInv, RunsAreRight, UsageTypeOK
<1>2. /\ me.page \subseteq UsageTenants /\ me.after \in UsageTenants \union {0} /\ me.after \in Nat
      /\ \A t \in UsageTenants :
            /\ me.fresh[t] \in Nat /\ me.due[t] \in Nat /\ t \in Nat /\ usage[t] \in Nat
            /\ revisions[t] \in Seq(Nat) /\ Latest(t) \in Int
  <2>1. me.after \in UsageTenants \union {0}
    BY <1>1 DEF UsageRun
  <2>2. QED
    BY <1>1, <2>1, UsageTypes
<1>3. ASSUME NEW t \in UsageTenants
      PROVE  /\ revisions'[t] \in Seq(Nat)
             /\ \A i \in 1..(Len(revisions'[t]) - 1) : revisions'[t][i] # revisions'[t][i + 1]
             /\ Latest(t)' \in Int /\ Latest(t) <= Latest(t)' /\ Latest(t)' <= usage[t]
             /\ t \notin me.page => Latest(t)' = Latest(t)
             /\ t \in me.page => me.due[t] <= Latest(t)'
  <2>1. /\ \A i \in 1..(Len(revisions[t]) - 1) : revisions[t][i] # revisions[t][i + 1]
        /\ Latest(t) <= usage[t]
    BY DEF UsageInv, RevisionsDiffer, LatestIsCounted
  <2>2. CASE t \in me.page /\ me.fresh[t] # 0
    <3> DEFINE v == me.fresh[t] - 1
    <3>1. /\ revisions'[t] = Append(revisions[t], v) /\ v \in Nat
          /\ Latest(t) < v /\ me.due[t] <= v /\ v <= usage[t]
      <4>1. revisions'[t] = Append(revisions[t], v)
        BY <1>1, <2>2
      <4>2. me.fresh[t] \in Nat /\ v \in Nat
        BY <1>2, <2>2
      <4>3. Latest(t) < v /\ me.due[t] <= v /\ v <= usage[t]
        BY <1>1, <2>2 DEF RunIsRight
      <4>4. QED
        BY <4>1, <4>2, <4>3
    <3> HIDE DEF v
    <3>2. revisions[t] = <<>> \/ revisions[t][Len(revisions[t])] # v
      BY <1>2, <3>1 DEF Latest
    <3>3. /\ revisions'[t] \in Seq(Nat) /\ revisions'[t] # <<>>
          /\ revisions'[t][Len(revisions'[t])] = v
          /\ \A i \in 1..(Len(revisions'[t]) - 1) : revisions'[t][i] # revisions'[t][i + 1]
      <4>1. revisions[t] \in Seq(Nat) /\ v \in Nat
        BY <1>2, <3>1
      <4>2. /\ Append(revisions[t], v) \in Seq(Nat) /\ Append(revisions[t], v) # <<>>
            /\ Append(revisions[t], v)[Len(Append(revisions[t], v))] = v
            /\ \A i \in 1..(Len(Append(revisions[t], v)) - 1) :
                  Append(revisions[t], v)[i] # Append(revisions[t], v)[i + 1]
        BY ONLY <2>1, <3>2, <4>1, AppendedRevision
      <4>3. QED
        BY ONLY <3>1, <4>2
    <3>4. Latest(t)' = v
      BY <3>3 DEF Latest
    <3>5. /\ Latest(t)' \in Int /\ Latest(t) <= Latest(t)' /\ Latest(t)' <= usage[t]
          /\ me.due[t] <= Latest(t)'
      BY <1>2, <3>1, <3>4
    <3>6. QED
      BY <2>2, <3>3, <3>5
  <2>3. CASE ~ (t \in me.page /\ me.fresh[t] # 0)
    <3>1. revisions'[t] = revisions[t]
      BY <1>1, <2>3
    <3>2. Latest(t)' = Latest(t)
      BY <3>1 DEF Latest
    <3>3. t \in me.page => me.due[t] <= Latest(t)
      BY <1>1, <2>3 DEF RunIsRight
    <3>4. /\ revisions'[t] \in Seq(Nat)
          /\ \A i \in 1..(Len(revisions'[t]) - 1) : revisions'[t][i] # revisions'[t][i + 1]
      BY <1>2, <2>1, <3>1
    <3>5. Latest(t)' \in Int /\ Latest(t) <= Latest(t)' /\ Latest(t)' <= usage[t]
      BY <1>2, <2>1, <3>2
    <3>6. QED
      BY <3>2, <3>3, <3>4, <3>5
  <2>4. QED
    BY <2>2, <2>3
<1>4. /\ after \in UsageTenants \union {0} /\ after \in Nat
      /\ \A d \in UsageTenants : d <= after => d <= me.after \/ d \in me.page
  <2>1. CASE me.page = {}
    BY <1>2, <2>1
  <2>2. CASE me.page # {}
    <3>1. \E m \in me.page : \A d \in me.page : d <= m
      BY <1>1, <2>2 DEF RunIsRight
    <3>2. LastOf(me.page) \in me.page
      BY <3>1 DEF LastOf
    <3>3. after = LastOf(me.page)
      BY <2>2
    <3>4. QED
      BY <1>1, <1>2, <3>2, <3>3 DEF RunIsRight
  <2>3. QED
    BY <2>1, <2>2
<1>5. state \in {"running", "done"}
      /\ (state = "done" => \A d \in UsageTenants : d <= me.after \/ d \in me.page)
  BY <1>1 DEF PageEnd
<1>6. run' = [run EXCEPT ![r] = new]
  BY <1>1 DEF RunCommits, UsageTypeOK, UsageRun
<1> HIDE DEF state, after
<1>7. /\ new \in UsageRun /\ new.page = {} /\ new.state = state
      /\ new.after = after /\ new.due = me.due
  <2>1. PICK S \in SUBSET UsageTenants : S = {}
    OBVIOUS
  <2>2. new = [run[r] EXCEPT !.page = S, !.fresh = None, !.state = state, !.after = after]
    BY <2>1
  <2>3. None \in [UsageTenants -> Nat]
    BY DEF None
  <2> HIDE DEF new
  <2>4. QED
    BY <1>1, <1>4, <1>5, <2>1, <2>2, <2>3 DEF UsageRun
<1> HIDE DEF new
<1>8. run' \in [UsageRuns -> UsageRun] /\ run'[r] = new
      /\ \A q \in UsageRuns : q # r => run'[q] = run[q]
  BY <1>1, <1>6, <1>7 DEF UsageTypeOK
<1>9. UsageTypeOK'
  BY <1>1, <1>3, <1>8 DEF UsageTypeOK
<1>10. RunIsRight(r)'
  <2>1. \A t \in UsageTenants : me.due[t] <= usage'[t]
    BY <1>1 DEF RunIsRight
  <2>2. ASSUME NEW t \in UsageTenants, t <= after \/ state = "done"
        PROVE  me.due[t] <= Latest(t)'
    <3>1. t <= me.after \/ t \in me.page
      BY <1>4, <1>5, <2>2
    <3>2. t <= me.after => me.due[t] <= Latest(t)
      BY <1>1 DEF RunIsRight
    <3>3. QED
      BY <1>2, <1>3, <3>1, <3>2
  <2>3. QED
    BY <1>5, <1>7, <1>8, <2>1, <2>2 DEF RunIsRight
<1>11. ASSUME NEW q \in UsageRuns, q # r PROVE RunIsRight(q)'
  <2>1. run'[q] = run[q] /\ RunIsRight(q)
    BY <1>1, <1>8, <1>11
  <2>2. \A t \in UsageTenants : usage[t] <= usage'[t] /\ Latest(t) <= Latest(t)'
    BY <1>1, <1>2, <1>3
  <2>3. \A t \in run[q].page : Latest(t)' = Latest(t)
    <3>1. run[q].page \subseteq UsageTenants
      BY <1>1, UsageTypes
    <3>2. run[q].page \cap me.page = {}
      BY <1>11 DEF UsageInv, PagesAreDisjoint
    <3>3. QED
      BY <1>3, <3>1, <3>2
  <2>4. QED
    BY <1>1, <1>9, <2>1, <2>2, <2>3, RunRests
<1>12. PagesAreDisjoint'
  BY <1>7, <1>8 DEF UsageInv, PagesAreDisjoint
<1>13. RevisionsDiffer'
  BY <1>3 DEF RevisionsDiffer
<1>14. LatestIsCounted'
  BY <1>1, <1>3 DEF LatestIsCounted
<1>15. QED
  BY <1>9, <1>10, <1>11, <1>12, <1>13, <1>14 DEF UsageInv, RunsAreRight

LEMMA UsageStep ==
  ASSUME UsageInv, [UsageNext]_usageVars
  PROVE  UsageInv'
<1>1. CASE UNCHANGED usageVars
  <2>1. UNCHANGED <<usage, revisions, run, usageFaults>>
    BY <1>1 DEF usageVars
  <2>2. UsageTypeOK' /\ RevisionsDiffer' /\ PagesAreDisjoint'
    BY <2>1 DEF UsageInv, UsageTypeOK, RevisionsDiffer, PagesAreDisjoint
  <2>3. LatestIsCounted' /\ RunsAreRight'
    BY <2>1 DEF UsageInv, LatestIsCounted, RunsAreRight, RunIsRight, Latest
  <2>4. QED
    BY <2>2, <2>3 DEF UsageInv
<1>2. CASE UsageNext
  BY <1>2, GrowsStep, BeginsStep, LooksStep, CommitsStep, DiesStep DEF UsageNext
<1>3. QED
  BY <1>1, <1>2

LEMMA UsageBegins == UsageInit => UsageInv
<1> SUFFICES ASSUME UsageInit PROVE UsageInv
  OBVIOUS
<1>1. UsageTypeOK
  BY IdleRunType, UsageAssumption DEF UsageInit, UsageTypeOK
<1>2. \A t \in UsageTenants : Latest(t) = -1 /\ usage[t] >= 0 /\ ~ (t <= 0)
  BY UsageAssumption DEF UsageInit, Latest
<1>3. LatestIsCounted
  <2>1. \A t \in UsageTenants : usage[t] \in Nat
    BY <1>1, UsageTypes
  <2>2. QED
    BY <1>2, <2>1 DEF LatestIsCounted
<1>4. RunsAreRight
  <2>1. \A r \in UsageRuns : run[r] = IdleRun
    BY DEF UsageInit
  <2>2. QED
    BY <1>2, <2>1, IdleRunType DEF RunsAreRight, RunIsRight
<1>5. PagesAreDisjoint /\ RevisionsDiffer
  BY IdleRunType DEF UsageInit, PagesAreDisjoint, RevisionsDiffer
<1>6. QED
  BY <1>1, <1>3, <1>4, <1>5 DEF UsageInv

LEMMA UsageInvariant == UsageSpec => []UsageInv
<1>1. UsageInv /\ [UsageNext]_usageVars => UsageInv'
  BY UsageStep
<1>2. QED
  BY UsageBegins, <1>1, PTL DEF UsageSpec

LEMMA UsageIsSafe == UsageInv => SnapshotsAreCurrent
<1> SUFFICES ASSUME UsageInv PROVE SnapshotsAreCurrent
  OBVIOUS
<1>1. ASSUME NEW r \in UsageRuns, run[r].state = "done", NEW t \in UsageTenants
      PROVE  revisions[t] # <<>> /\ revisions[t][Len(revisions[t])] >= run[r].due[t]
  <2>1. /\ run[r].due[t] <= Latest(t) /\ run[r].due[t] \in Nat /\ Latest(t) \in Int
        /\ Latest(t) >= 0 <=> revisions[t] # <<>>
    BY <1>1, UsageTypes DEF UsageInv, RunsAreRight, RunIsRight
  <2>2. revisions[t] # <<>>
    BY <2>1
  <2>3. QED
    BY <2>1, <2>2 DEF Latest
<1>2. QED
  BY <1>1 DEF UsageInv, RevisionsDiffer, SnapshotsAreCurrent

\* For any tenants, runs, page size and number of crashes, no quantity is
\* published twice in a row and a run that has ended has brought every tenant
\* up to what the ledger said when it began (snapshot_page, daily_snapshot).
THEOREM SnapshotsAreCurrentAlways == UsageSpec => []SnapshotsAreCurrent
BY UsageInvariant, UsageIsSafe, PTL

-------------------------------------------------------------------------------
(***************************************************************************)
(* Security mail: types, and the acceptances.                              *)
(***************************************************************************)

(* The invariant counts chances: a message that a worker may still claim, a   *)
(* worker that has not posted it yet, and a worker that will return it as     *)
(* failed. Every acceptance takes one; only a report that Postal defers the   *)
(* message, or an acceptance taken for a failure, makes a new one.            *)

MayBeClaimed(m) == letter[m].state \in {"none", "QUEUED", "DEFERRED"}

Chance(m) == IF MayBeClaimed(m) THEN 1 ELSE 0

Holders(m) == {w \in MailWorkers : postman[w].letter = m /\ postman[w].result \in {"none", "failed"}}

ChancesAreCounted ==
    \A m \in Mails : accepted[m] + Cardinality(Holders(m)) + Chance(m) <= 1 + reopened[m]

\* What a worker holds is live, and what it has learnt is true.
PostmenAreRight ==
    \A w \in MailWorkers :
        /\ postman[w].read => postman[w].result # "none"
        /\ postman[w].result # "none" => postman[w].letter # NoMail
        /\ postman[w].letter # NoMail =>
              /\ letter[postman[w].letter].state # "none"
              /\ ~letter[postman[w].letter].sandbox
        /\ postman[w].result = "submitted" =>
              accepted[postman[w].letter] > 0 \/ postman[w].letter \in misread

LettersAreRight ==
    \A m \in Mails :
        /\ letter[m].state = "none" => letter[m].sandbox
        /\ letter[m].sandbox => accepted[m] = 0
        /\ letter[m].state = "SUBMITTED" => accepted[m] > 0 \/ m \in misread

MailInv == MailTypeOK /\ ChancesAreCounted /\ PostmenAreRight /\ LettersAreRight

-------------------------------------------------------------------------------
(* Counting. *)

LEMMA HoldersAreFinite ==
  ASSUME NEW m
  PROVE  IsFiniteSet(Holders(m)) /\ Cardinality(Holders(m)) \in Nat
<1>1. Holders(m) \in SUBSET MailWorkers
  BY DEF Holders
<1>2. IsFiniteSet(Holders(m))
  BY <1>1, MailAssumption, FS_Subset
<1>3. QED
  BY <1>2, FS_CardinalityType

LEMMA Fewer ==
  ASSUME NEW S, NEW T \in SUBSET S, IsFiniteSet(S)
  PROVE  Cardinality(T) \in Nat /\ Cardinality(T) <= Cardinality(S)
<1>1. IsFiniteSet(T) /\ Cardinality(T) <= Cardinality(S)
  BY FS_Subset
<1>2. QED
  BY <1>1, FS_CardinalityType

LEMMA OneMore ==
  ASSUME NEW S, IsFiniteSet(S), NEW x
  PROVE  Cardinality(S \union {x}) \in Nat /\ Cardinality(S \union {x}) <= Cardinality(S) + 1
<1>1. IsFiniteSet(S \union {x})
        /\ Cardinality(S \union {x}) = IF x \in S THEN Cardinality(S) ELSE Cardinality(S) + 1
  BY FS_AddElement
<1>2. Cardinality(S) \in Nat /\ Cardinality(S \union {x}) \in Nat
  BY <1>1, FS_CardinalityType
<1>3. QED
  BY <1>1, <1>2

LEMMA OneLess ==
  ASSUME NEW S, IsFiniteSet(S), NEW x \in S
  PROVE  Cardinality(S \ {x}) \in Nat /\ Cardinality(S \ {x}) + 1 <= Cardinality(S)
<1>1. IsFiniteSet(S \ {x})
        /\ Cardinality(S \ {x}) = IF x \in S THEN Cardinality(S) - 1 ELSE Cardinality(S)
  BY FS_RemoveElement
<1>2. Cardinality(S) \in Nat /\ Cardinality(S \ {x}) \in Nat
  BY <1>1, FS_CardinalityType
<1>3. QED
  BY <1>1, <1>2

-------------------------------------------------------------------------------
(* What the steps write to messages. *)

LEMMA IdlePostmanType == IdlePostman \in Postman
  BY DEF IdlePostman, Postman

\* A message that was read, changed and not reopened.
Quiet(rec, written) ==
    /\ written \in Letter
    /\ written.sandbox = rec.sandbox
    /\ rec.state # "none" => written.state # "none"
    /\ written.state \in {"none", "QUEUED", "DEFERRED", "SUBMITTED"} => written.state = rec.state

QuietLetters ==
    /\ letter' \in [Mails -> Letter]
    /\ \A m \in Mails : Quiet(letter[m], letter'[m])

LEMMA SameIsQuiet == ASSUME NEW rec \in Letter PROVE Quiet(rec, rec)
  BY DEF Quiet

\* One message is changed quietly.
LEMMA OneQuiet ==
  ASSUME MailTypeOK, NEW m \in Mails, NEW written, Quiet(letter[m], written),
         letter' = [letter EXCEPT ![m] = written]
  PROVE  QuietLetters
<1>1. letter[m] \in Letter /\ written \in Letter
  BY DEF MailTypeOK, Quiet
<1>2. letter' \in [Mails -> Letter]
  BY <1>1 DEF MailTypeOK
<1>3. ASSUME NEW n \in Mails PROVE Quiet(letter[n], letter'[n])
  <2>1. CASE n = m
    BY <2>1 DEF MailTypeOK
  <2>2. CASE n # m
    BY <2>2, SameIsQuiet DEF MailTypeOK
  <2>3. QED
    BY <2>1, <2>2
<1>4. QED
  BY <1>2, <1>3 DEF QuietLetters

LEMMA TimeIsQuiet ==
  ASSUME MailTypeOK, NEW m \in Mails, MailTime(m)
  PROVE  QuietLetters
<1>1. letter[m] \in Letter
  BY DEF MailTypeOK
<1>2. /\ Quiet(letter[m], [letter[m] EXCEPT !.due = TRUE])
      /\ Quiet(letter[m], [letter[m] EXCEPT !.expired = TRUE])
      /\ Quiet(letter[m], [letter[m] EXCEPT !.old = TRUE])
  BY <1>1 DEF Quiet, Letter
<1>3. \/ letter' = [letter EXCEPT ![m] = [letter[m] EXCEPT !.due = TRUE]]
      \/ letter' = [letter EXCEPT ![m] = [letter[m] EXCEPT !.expired = TRUE]]
      \/ letter' = [letter EXCEPT ![m] = [letter[m] EXCEPT !.old = TRUE]]
  BY DEF MailTime
<1>4. QED
  BY <1>2, <1>3, OneQuiet

LEMMA SinkIsQuiet ==
  ASSUME MailTypeOK, NEW m \in Mails, SandboxProcess(m)
  PROVE  QuietLetters
<1>1. letter[m] \in Letter /\ letter[m].attempts + 1 \in Nat
  BY DEF MailTypeOK, Letter
<1> DEFINE written == [letter[m] EXCEPT !.state = "DELIVERED", !.attempts = letter[m].attempts + 1]
<1>2. Quiet(letter[m], written)
  BY <1>1 DEF Quiet, Letter, LetterStates, PurgedStates
<1>3. letter' = [letter EXCEPT ![m] = written]
  BY DEF SandboxProcess
<1>4. QED
  BY <1>2, <1>3, OneQuiet

LEMMA RecoveryIsQuiet ==
  ASSUME MailTypeOK, LeaseRecover
  PROVE  QuietLetters
<1>1. ASSUME NEW rec \in Letter PROVE Quiet(rec, Recovered(rec))
  <2>1. PICK state \in {"DEAD_LETTER", "INDETERMINATE"} :
          Recovered(rec) = [rec EXCEPT !.state = state, !.due = FALSE, !.expired = FALSE]
    BY DEF Recovered
  <2>2. QED
    BY <2>1 DEF Quiet, Letter, LetterStates, PurgedStates
<1>2. \A m \in Mails : letter[m] \in Letter
  BY DEF MailTypeOK
<1>3. letter' = [m \in Mails |-> IF letter[m].state = "PROCESSING" /\ letter[m].expired
                                 THEN Recovered(letter[m]) ELSE letter[m]]
  BY DEF LeaseRecover
<1>4. ASSUME NEW m \in Mails PROVE Quiet(letter[m], letter'[m])
  BY <1>1, <1>2, <1>3, SameIsQuiet
<1>5. letter' \in [Mails -> Letter]
  BY <1>3, <1>4 DEF Quiet
<1>6. QED
  BY <1>4, <1>5 DEF QuietLetters

LEMMA PurgeIsQuiet ==
  ASSUME MailTypeOK, PurgeWrite
  PROVE  QuietLetters
<1>1. \A m \in Mails : letter[m] \in Letter
  BY DEF MailTypeOK
<1>2. letter' = [m \in Mails |->
          IF purge[m] = "none" THEN letter[m]
          ELSE [letter[m] EXCEPT !.body = FALSE,
                                 !.state = IF purge[m] \in Active THEN "DEAD_LETTER"
                                           ELSE letter[m].state]]
  BY DEF PurgeWrite
<1>3. ASSUME NEW m \in Mails PROVE Quiet(letter[m], letter'[m])
  <2>1. CASE purge[m] = "none"
    BY <1>1, <1>2, <2>1, SameIsQuiet
  <2>2. CASE purge[m] # "none"
    <3>1. PICK state \in {"DEAD_LETTER", letter[m].state} :
            letter'[m] = [letter[m] EXCEPT !.body = FALSE, !.state = state]
      BY <1>2, <2>2
    <3>2. QED
      BY <1>1, <3>1 DEF Quiet, Letter, LetterStates, PurgedStates
  <2>3. QED
    BY <2>1, <2>2
<1>4. letter' \in [Mails -> Letter]
  BY <1>2, <1>3 DEF Quiet
<1>5. QED
  BY <1>3, <1>4 DEF QuietLetters

\* Nobody claims, posts or returns anything.
LEMMA QuietStep ==
  ASSUME MailInv, QuietLetters, UNCHANGED <<accepted, reopened, misread, postman>>,
         MailTypeOK'
  PROVE  MailInv'
<1>1. \A m \in Mails : /\ letter'[m].sandbox = letter[m].sandbox
                       /\ letter[m].state # "none" => letter'[m].state # "none"
                       /\ letter'[m].state \in {"none", "QUEUED", "DEFERRED", "SUBMITTED"}
                            => letter'[m].state = letter[m].state
  BY DEF QuietLetters, Quiet
<1>2. LettersAreRight'
  BY <1>1 DEF MailInv, LettersAreRight
<1>3. PostmenAreRight'
  <2>1. \A w \in MailWorkers : postman[w].letter \in Mails \union {NoMail}
    BY DEF MailInv, MailTypeOK, Postman
  <2>2. QED
    BY <1>1, <2>1 DEF MailInv, PostmenAreRight
<1>4. ChancesAreCounted'
  <2> SUFFICES ASSUME NEW m \in Mails
               PROVE  accepted[m] + Cardinality(Holders(m)) + Chance(m)' <= 1 + reopened[m]
    BY DEF ChancesAreCounted, Holders
  <2>1. Chance(m)' <= Chance(m) /\ Chance(m) \in 0..1 /\ Chance(m)' \in 0..1
    BY <1>1 DEF Chance, MayBeClaimed
  <2>2. accepted[m] \in Nat /\ reopened[m] \in Nat /\ Cardinality(Holders(m)) \in Nat
    BY HoldersAreFinite DEF MailInv, MailTypeOK
  <2>3. accepted[m] + Cardinality(Holders(m)) + Chance(m) <= 1 + reopened[m]
    BY DEF MailInv, ChancesAreCounted
  <2>4. QED
    BY <2>1, <2>2, <2>3
<1>5. QED
  BY <1>2, <1>3, <1>4 DEF MailInv

-------------------------------------------------------------------------------
(* The workers. *)

\* A worker holds a message when it may still post it or return it.
Holding(p, m) == p.letter = m /\ p.result \in {"none", "failed"}

LEMMA HoldersMove ==
  ASSUME MailTypeOK, NEW w \in MailWorkers, NEW p, postman' = [postman EXCEPT ![w] = p], NEW m
  PROVE  Holders(m)' = IF Holding(p, m) THEN Holders(m) \union {w} ELSE Holders(m) \ {w}
<1>1. postman'[w] = p /\ \A v \in MailWorkers : v # w => postman'[v] = postman[v]
  BY DEF MailTypeOK
<1>2. \A v \in MailWorkers : v \in Holders(m)' <=> IF v = w THEN Holding(p, m) ELSE v \in Holders(m)
  BY <1>1 DEF Holders, Holding
<1>3. Holders(m)' \subseteq MailWorkers /\ Holders(m) \subseteq MailWorkers
  BY DEF Holders
<1>4. QED
  BY <1>2, <1>3

\* What a message gains in chances, holders and acceptances is asked for.
Balanced(m) ==
    accepted'[m] + Cardinality(Holders(m)') + Chance(m)' + reopened[m]
      <= accepted[m] + Cardinality(Holders(m)) + Chance(m) + reopened'[m]

LEMMA PostmanCountStep ==
  ASSUME MailInv, MailTypeOK', \A m \in Mails : Balanced(m)
  PROVE  ChancesAreCounted'
<1> SUFFICES ASSUME NEW m \in Mails
             PROVE  accepted'[m] + Cardinality(Holders(m)') + Chance(m)' <= 1 + reopened'[m]
  BY DEF ChancesAreCounted
<1>1. IsFiniteSet(Holders(m)') /\ Cardinality(Holders(m)') \in Nat
  <2>1. Holders(m)' \in SUBSET MailWorkers
    BY DEF Holders
  <2>2. IsFiniteSet(Holders(m)')
    BY <2>1, MailAssumption, FS_Subset
  <2>3. QED
    BY <2>2, FS_CardinalityType
<1>2. /\ accepted[m] \in Nat /\ reopened[m] \in Nat /\ Cardinality(Holders(m)) \in Nat
      /\ accepted'[m] \in Nat /\ reopened'[m] \in Nat
  BY HoldersAreFinite DEF MailInv, MailTypeOK
<1>3. Chance(m) \in 0..1 /\ Chance(m)' \in 0..1
  BY DEF Chance
<1>4. accepted[m] + Cardinality(Holders(m)) + Chance(m) <= 1 + reopened[m]
  BY DEF MailInv, ChancesAreCounted
<1>5. QED
  BY <1>1, <1>2, <1>3, <1>4 DEF Balanced

\* A message about which nothing happens keeps its balance, and so does one
\* that loses a holder.
LEMMA BalanceOfRest ==
  ASSUME MailInv, NEW m \in Mails, Holders(m)' \in SUBSET Holders(m), Chance(m)' = Chance(m),
         accepted'[m] = accepted[m], reopened'[m] = reopened[m]
  PROVE  Balanced(m)
<1>1. Cardinality(Holders(m)') \in Nat /\ Cardinality(Holders(m)') <= Cardinality(Holders(m))
  BY HoldersAreFinite, Fewer
<1>2. Cardinality(Holders(m)) \in Nat /\ Chance(m) \in Nat
        /\ accepted[m] \in Nat /\ reopened[m] \in Nat
  BY HoldersAreFinite DEF MailInv, MailTypeOK, Chance
<1>3. QED
  BY <1>1, <1>2 DEF Balanced

LEMMA SubmitStep ==
  ASSUME MailInv, NEW m \in Mails, Submit(m)
  PROVE  MailInv'
<1>1. /\ letter[m] \in Letter /\ letter[m].state = "none"
      /\ UNCHANGED <<gates, accepted, reopened, misread, postman, purge, mailFaults>>
  BY DEF Submit, MailInv, MailTypeOK
<1>2. PICK sandbox \in BOOLEAN : letter' = [letter EXCEPT ![m] =
        [letter[m] EXCEPT !.state = "QUEUED", !.sandbox = sandbox, !.body = TRUE]]
  <2>1. (~LiveAllowed) \in BOOLEAN
    BY DEF LiveAllowed
  <2>2. letter' = [letter EXCEPT ![m] =
          [letter[m] EXCEPT !.state = "QUEUED", !.sandbox = ~LiveAllowed, !.body = TRUE]]
    BY DEF Submit
  <2>3. QED
    BY <2>1, <2>2
<1> DEFINE written == [letter[m] EXCEPT !.state = "QUEUED", !.sandbox = sandbox, !.body = TRUE]
<1>3. written \in Letter /\ written.state = "QUEUED"
  BY <1>1 DEF Letter, LetterStates, Active
<1>4. letter' = [letter EXCEPT ![m] = written]
  BY <1>2
<1> HIDE DEF written
<1>5. /\ letter' \in [Mails -> Letter] /\ letter'[m].state = "QUEUED"
      /\ \A n \in Mails : n # m => letter'[n] = letter[n]
  BY <1>3, <1>4 DEF MailInv, MailTypeOK
<1>6. MailTypeOK'
  BY <1>1, <1>5 DEF MailInv, MailTypeOK
<1>7. accepted[m] = 0 /\ \A w \in MailWorkers : postman[w].letter # m
  <2>1. m # NoMail
    BY MailAssumption
  <2>2. QED
    BY <1>1, <2>1 DEF MailInv, LettersAreRight, PostmenAreRight
<1>8. LettersAreRight'
  BY <1>1, <1>5, <1>7 DEF MailInv, LettersAreRight
<1>9. PostmenAreRight'
  <2>1. \A w \in MailWorkers : postman[w].letter \in Mails \union {NoMail}
    BY DEF MailInv, MailTypeOK, Postman
  <2>2. QED
    BY <1>1, <1>5, <1>7, <2>1 DEF MailInv, PostmenAreRight
<1>10. ASSUME NEW n \in Mails PROVE Balanced(n)
  <2>1. Holders(n)' = Holders(n) /\ Chance(n)' = Chance(n)
    BY <1>1, <1>5 DEF Holders, Chance, MayBeClaimed
  <2>2. QED
    BY <1>1, <2>1, BalanceOfRest
<1>11. QED
  BY <1>6, <1>8, <1>9, <1>10, PostmanCountStep DEF MailInv

LEMMA PostmanClaimStep ==
  ASSUME MailInv, NEW w \in MailWorkers, NEW m \in Mails, PostmanClaim(w, m)
  PROVE  MailInv'
<1>1. /\ letter[m] \in Letter /\ letter[m].attempts + 1 \in Nat
      /\ letter[m].state \in {"QUEUED", "DEFERRED"} /\ ~letter[m].sandbox
      /\ postman[w] = IdlePostman /\ m # NoMail
      /\ UNCHANGED <<gates, accepted, reopened, misread, purge, mailFaults>>
  BY MailAssumption DEF PostmanClaim, MailInv, MailTypeOK, Letter
<1> DEFINE written == [letter[m] EXCEPT !.state = "PROCESSING", !.attempts = letter[m].attempts + 1,
                                        !.expired = FALSE]
           holder == [IdlePostman EXCEPT !.letter = m, !.body = letter[m].body]
<1>2. written \in Letter /\ written.state = "PROCESSING" /\ written.sandbox = letter[m].sandbox
  BY <1>1 DEF Letter, LetterStates, Active
<1>3. /\ holder \in Postman /\ holder.letter = m /\ holder.result = "none" /\ ~holder.read
  BY <1>1 DEF IdlePostman, Postman, Letter
<1>4. /\ letter' = [letter EXCEPT ![m] = written]
      /\ postman' = [postman EXCEPT ![w] = holder]
  BY DEF PostmanClaim
<1> HIDE DEF written, holder
<1>5. /\ letter' \in [Mails -> Letter] /\ letter'[m] = written
      /\ \A n \in Mails : n # m => letter'[n] = letter[n]
  BY <1>2, <1>4 DEF MailInv, MailTypeOK
<1>6. /\ postman' \in [MailWorkers -> Postman] /\ postman'[w] = holder
      /\ \A v \in MailWorkers : v # w => postman'[v] = postman[v]
  BY <1>3, <1>4 DEF MailInv, MailTypeOK
<1>7. MailTypeOK'
  BY <1>1, <1>5, <1>6 DEF MailInv, MailTypeOK
<1>8. LettersAreRight'
  BY <1>1, <1>2, <1>5 DEF MailInv, LettersAreRight
<1>9. PostmenAreRight'
  <2>1. \A v \in MailWorkers : postman[v].letter \in Mails \union {NoMail}
    BY DEF MailInv, MailTypeOK, Postman
  <2>2. \A n \in Mails : letter[n].state # "none" =>
          letter'[n].state # "none" /\ letter'[n].sandbox = letter[n].sandbox
    BY <1>2, <1>5
  <2>3. QED
    BY <1>1, <1>2, <1>3, <1>5, <1>6, <2>1, <2>2 DEF MailInv, PostmenAreRight
<1>10. ASSUME NEW n \in Mails PROVE Balanced(n)
  <2>1. MailTypeOK /\ IsFiniteSet(Holders(n)) /\ Cardinality(Holders(n)) \in Nat
    BY HoldersAreFinite DEF MailInv
  <2>2. CASE n = m
    <3>1. Holders(n)' = Holders(n) \union {w}
      BY <1>3, <1>4, <2>1, <2>2, HoldersMove DEF Holding
    <3>2. Cardinality(Holders(n)') \in Nat /\ Cardinality(Holders(n)') <= Cardinality(Holders(n)) + 1
      BY <2>1, <3>1, OneMore
    <3>3. Chance(n) = 1 /\ Chance(n)' = 0
      BY <1>1, <1>2, <1>5, <2>2 DEF Chance, MayBeClaimed
    <3>4. accepted[n] \in Nat /\ reopened[n] \in Nat
      BY DEF MailInv, MailTypeOK
    <3>5. QED
      BY <1>1, <2>1, <3>2, <3>3, <3>4 DEF Balanced
  <2>3. CASE n # m
    <3>1. Holders(n)' = Holders(n) \ {w}
      BY <1>3, <1>4, <2>1, <2>3, HoldersMove DEF Holding
    <3>2. Chance(n)' = Chance(n)
      BY <1>5, <2>3 DEF Chance, MayBeClaimed
    <3>3. QED
      BY <1>1, <3>1, <3>2, BalanceOfRest
  <2>4. QED
    BY <2>2, <2>3
<1>11. QED
  BY <1>7, <1>8, <1>9, <1>10, PostmanCountStep DEF MailInv

\* A worker that goes idle, or has read that it may write, changes nothing else.
LEMMA PostmanMoves ==
  ASSUME MailInv, NEW w \in MailWorkers, NEW p \in Postman,
         p = IdlePostman \/ (p = [postman[w] EXCEPT !.read = TRUE] /\ postman[w].result # "none"),
         postman' = [postman EXCEPT ![w] = p],
         UNCHANGED <<letter, accepted, reopened, misread>>, MailTypeOK'
  PROVE  MailInv'
<1>1. /\ postman[w] \in Postman /\ postman'[w] = p
      /\ \A v \in MailWorkers : v # w => postman'[v] = postman[v]
  BY DEF MailInv, MailTypeOK
<1>2. \/ p.letter = NoMail /\ p.result = "none" /\ ~p.read
      \/ p.letter = postman[w].letter /\ p.result = postman[w].result /\ p.result # "none"
  BY <1>1 DEF IdlePostman, Postman
<1>3. PostmenAreRight'
  BY <1>1, <1>2 DEF MailInv, PostmenAreRight
<1>4. ASSUME NEW n \in Mails PROVE Balanced(n)
  <2>1. Holders(n)' \in SUBSET Holders(n)
    <3>1. n # NoMail
      BY MailAssumption
    <3>2. \A v \in MailWorkers : Holding(postman'[v], n) => Holding(postman[v], n)
      BY <1>1, <1>2, <3>1 DEF Holding
    <3>3. QED
      BY <3>2 DEF Holders, Holding
  <2>2. Chance(n)' = Chance(n)
    BY DEF Chance, MayBeClaimed
  <2>3. QED
    BY <2>1, <2>2, BalanceOfRest
<1>5. QED
  BY <1>3, <1>4, PostmanCountStep DEF MailInv, LettersAreRight

LEMMA ReadStep ==
  ASSUME MailInv, NEW w \in MailWorkers, PostmanRead(w)
  PROVE  MailInv'
<1>1. PICK p \in {IdlePostman, [postman[w] EXCEPT !.read = TRUE]} :
        postman' = [postman EXCEPT ![w] = p]
  BY DEF PostmanRead
<1>2. p \in Postman
  BY <1>1, IdlePostmanType DEF MailInv, MailTypeOK, Postman
<1>3. UNCHANGED <<gates, letter, accepted, reopened, misread, purge, mailFaults>> /\ postman[w].result # "none"
  BY DEF PostmanRead
<1>4. MailTypeOK'
  BY <1>1, <1>2, <1>3 DEF MailInv, MailTypeOK
<1>5. QED
  BY <1>1, <1>2, <1>3, <1>4, PostmanMoves

LEMMA DeathStep ==
  ASSUME MailInv, NEW w \in MailWorkers, PostmanDies(w)
  PROVE  MailInv'
<1>1. postman' = [postman EXCEPT ![w] = IdlePostman]
        /\ UNCHANGED <<gates, letter, accepted, reopened, misread, purge>>
  BY DEF PostmanDies
<1>2. mailFaults' \in 0..MailMaxFaults
  BY MailAssumption DEF PostmanDies, MailFault, MailInv, MailTypeOK
<1>3. MailTypeOK'
  BY <1>1, <1>2, IdlePostmanType DEF MailInv, MailTypeOK
<1>4. QED
  BY <1>1, <1>3, IdlePostmanType, PostmanMoves

LEMMA PostStep ==
  ASSUME MailInv, NEW w \in MailWorkers, PostmanPost(w)
  PROVE  MailInv'
<1>1. PICK m \in Mails : m = postman[w].letter /\ postman[w].result = "none" /\ m # NoMail
  BY DEF PostmanPost, MailInv, MailTypeOK, Postman
<1>2. PICK result \in {"submitted", "failed", "indeterminate"}, taken \in BOOLEAN :
        /\ accepted' = IF taken THEN [accepted EXCEPT ![m] = @ + 1] ELSE accepted
        /\ reopened' = IF taken /\ result = "failed" THEN [reopened EXCEPT ![m] = @ + 1]
                       ELSE reopened
        /\ misread' = IF result = "submitted" /\ ~taken THEN misread \union {m} ELSE misread
        /\ postman' = [postman EXCEPT ![w].result = result]
  BY <1>1 DEF PostmanPost
<1>3. UNCHANGED <<gates, letter, purge, mailFaults>>
  BY DEF PostmanPost
<1> DEFINE told == [postman[w] EXCEPT !.result = result]
<1>4. postman[w] \in Postman /\ postman' = [postman EXCEPT ![w] = told]
  BY <1>2 DEF MailInv, MailTypeOK
<1>5. /\ told \in Postman /\ told.letter = m /\ told.result = result
      /\ told.read = postman[w].read
  BY <1>1, <1>4 DEF Postman
<1> HIDE DEF told
<1>6. /\ postman' \in [MailWorkers -> Postman] /\ postman'[w] = told
      /\ \A v \in MailWorkers : v # w => postman'[v] = postman[v]
  BY <1>4, <1>5 DEF MailInv, MailTypeOK
<1>7. /\ accepted \in [Mails -> Nat] /\ reopened \in [Mails -> Nat]
      /\ accepted' \in [Mails -> Nat] /\ reopened' \in [Mails -> Nat]
      /\ misread' \in SUBSET Mails
  BY <1>2 DEF MailInv, MailTypeOK
<1>8. /\ accepted'[m] = IF taken THEN accepted[m] + 1 ELSE accepted[m]
      /\ reopened'[m] = IF taken /\ result = "failed" THEN reopened[m] + 1 ELSE reopened[m]
      /\ \A n \in Mails : n # m => accepted'[n] = accepted[n] /\ reopened'[n] = reopened[n]
  BY <1>2, <1>7
<1>9. MailTypeOK'
  BY <1>3, <1>6, <1>7 DEF MailInv, MailTypeOK
<1>10. letter[m].state # "none" /\ ~letter[m].sandbox
  BY <1>1 DEF MailInv, PostmenAreRight
<1>11. misread \subseteq misread' /\ \A n \in Mails : accepted[n] > 0 => accepted'[n] > 0
  BY <1>2, <1>7, <1>8
<1>12. LettersAreRight'
  BY <1>3, <1>8, <1>10, <1>11 DEF MailInv, LettersAreRight
<1>13. PostmenAreRight'
  <2>1. result = "submitted" => accepted'[m] > 0 \/ m \in misread'
    BY <1>2, <1>7, <1>8
  <2>3. \A v \in MailWorkers : postman[v].letter \in Mails \union {NoMail}
    BY DEF MailInv, MailTypeOK, Postman
  <2>4. \A v \in MailWorkers : v # w =>
          /\ postman'[v].read => postman'[v].result # "none"
          /\ postman'[v].result # "none" => postman'[v].letter # NoMail
          /\ postman'[v].letter # NoMail =>
                /\ letter[postman'[v].letter].state # "none"
                /\ ~letter[postman'[v].letter].sandbox
          /\ postman'[v].result = "submitted" =>
                accepted'[postman'[v].letter] > 0 \/ postman'[v].letter \in misread'
    BY <1>6, <1>11, <2>3 DEF MailInv, PostmenAreRight
  <2>5. /\ postman'[w].read => postman'[w].result # "none"
        /\ postman'[w].result # "none" => postman'[w].letter # NoMail
        /\ postman'[w].letter # NoMail =>
              /\ letter[postman'[w].letter].state # "none"
              /\ ~letter[postman'[w].letter].sandbox
        /\ postman'[w].result = "submitted" =>
              accepted'[postman'[w].letter] > 0 \/ postman'[w].letter \in misread'
    BY <1>1, <1>5, <1>6, <1>10, <2>1
  <2>6. QED
    BY <1>3, <2>4, <2>5 DEF PostmenAreRight
<1>14. ASSUME NEW n \in Mails PROVE Balanced(n)
  <2>1. MailTypeOK /\ IsFiniteSet(Holders(n)) /\ Cardinality(Holders(n)) \in Nat
    BY HoldersAreFinite DEF MailInv
  <2>2. Chance(n)' = Chance(n) /\ Chance(n) \in Nat
    BY <1>3 DEF Chance, MayBeClaimed
  <2>3. CASE n # m
    <3>1. Holders(n)' = Holders(n) \ {w}
      BY <1>4, <1>5, <2>1, <2>3, HoldersMove DEF Holding
    <3>2. QED
      BY <1>8, <2>2, <2>3, <3>1, BalanceOfRest
  <2>4. CASE n = m /\ result = "failed"
    <3>1. Holding(told, n)
      BY <1>5, <2>4 DEF Holding
    <3>2. Holders(n)' = Holders(n)
      <4>1. Holders(n)' = Holders(n) \union {w}
        BY <1>4, <2>1, <3>1, HoldersMove
      <4>2. w \in Holders(n)
        BY <1>1, <2>4 DEF Holders
      <4>3. QED
        BY <4>1, <4>2
    <3>3. QED
      BY <1>7, <1>8, <2>1, <2>2, <2>4, <3>2 DEF Balanced
  <2>5. CASE n = m /\ result # "failed"
    <3>0. ~Holding(told, n)
      BY <1>2, <1>5, <2>5 DEF Holding
    <3>1. Holders(n)' = Holders(n) \ {w} /\ w \in Holders(n)
      <4>1. Holders(n)' = Holders(n) \ {w}
        BY <1>4, <2>1, <3>0, HoldersMove
      <4>2. w \in Holders(n)
        BY <1>1, <2>5 DEF Holders
      <4>3. QED
        BY <4>1, <4>2
    <3>2. Cardinality(Holders(n)') \in Nat
            /\ Cardinality(Holders(n)') + 1 <= Cardinality(Holders(n))
      BY <2>1, <3>1, OneLess
    <3>3. accepted'[n] <= accepted[n] + 1 /\ reopened'[n] = reopened[n]
      BY <1>7, <1>8, <2>5
    <3>4. accepted[n] \in Nat /\ accepted'[n] \in Nat /\ reopened[n] \in Nat
      BY <1>7
    <3>5. QED
      BY <2>1, <2>2, <3>2, <3>3, <3>4 DEF Balanced
  <2>6. QED
    BY <2>3, <2>4, <2>5
<1>15. QED
  BY <1>9, <1>12, <1>13, <1>14, PostmanCountStep DEF MailInv

LEMMA PostmanOutcomeType ==
  ASSUME NEW rec \in Letter, NEW result \in {"submitted", "failed", "indeterminate"}
  PROVE  /\ Outcome(rec, result) \in Letter
         /\ Outcome(rec, result).sandbox = rec.sandbox
         /\ Outcome(rec, result).state \in {"SUBMITTED", "INDETERMINATE", "DEAD_LETTER", "DEFERRED"}
         /\ Outcome(rec, result).state = "SUBMITTED" => result = "submitted"
         /\ Outcome(rec, result).state = "DEFERRED" => result = "failed"
<1>1. CASE result = "submitted"
  <2>1. Outcome(rec, result) = [rec EXCEPT !.state = "SUBMITTED", !.body = FALSE, !.expired = FALSE]
    BY <1>1 DEF Outcome
  <2>2. QED
    BY <1>1, <2>1 DEF Letter, LetterStates, PurgedStates
<1>2. CASE result = "indeterminate"
  <2>1. Outcome(rec, result) = [rec EXCEPT !.state = "INDETERMINATE", !.expired = FALSE]
    BY <1>2 DEF Outcome
  <2>2. QED
    BY <1>2, <2>1 DEF Letter, LetterStates
<1>3. CASE result = "failed"
  <2>1. \/ Outcome(rec, result) = [rec EXCEPT !.state = "DEAD_LETTER", !.body = FALSE,
                                              !.expired = FALSE, !.due = FALSE]
        \/ Outcome(rec, result) = [rec EXCEPT !.state = "DEFERRED", !.expired = FALSE,
                                              !.due = FALSE]
    BY <1>3 DEF Outcome
  <2>2. QED
    BY <1>3, <2>1 DEF Letter, LetterStates, PurgedStates, Active
<1>4. QED
  BY <1>1, <1>2, <1>3

LEMMA WriteStep ==
  ASSUME MailInv, NEW w \in MailWorkers, PostmanWrite(w)
  PROVE  MailInv'
<1>1. postman[w] \in Postman /\ postman[w].result # "none" /\ postman[w].letter # NoMail
  BY DEF PostmanWrite, MailInv, MailTypeOK, PostmenAreRight
<1>2. PICK m \in Mails : m = postman[w].letter
  BY <1>1 DEF Postman
<1>3. PICK result \in {"submitted", "failed", "indeterminate"} : result = postman[w].result
  BY <1>1 DEF Postman
<1> DEFINE written == Outcome(letter[m], result)
<1>4. /\ letter[m] \in Letter
      /\ letter' = [letter EXCEPT ![m] = written]
      /\ postman' = [postman EXCEPT ![w] = IdlePostman]
      /\ UNCHANGED <<gates, accepted, reopened, misread, purge, mailFaults>>
  BY <1>2, <1>3 DEF PostmanWrite, MailInv, MailTypeOK
<1>5. /\ written \in Letter
      /\ written.sandbox = letter[m].sandbox
      /\ written.state \in {"SUBMITTED", "INDETERMINATE", "DEAD_LETTER", "DEFERRED"}
      /\ written.state = "SUBMITTED" => result = "submitted"
      /\ written.state = "DEFERRED" => result = "failed"
  BY <1>4, PostmanOutcomeType
<1> HIDE DEF written
<1>6. /\ letter' \in [Mails -> Letter] /\ letter'[m] = written
      /\ \A n \in Mails : n # m => letter'[n] = letter[n]
  BY <1>4, <1>5 DEF MailInv, MailTypeOK
<1>7. /\ postman' \in [MailWorkers -> Postman] /\ postman'[w] = IdlePostman
      /\ \A v \in MailWorkers : v # w => postman'[v] = postman[v]
  BY <1>4, IdlePostmanType DEF MailInv, MailTypeOK
<1>8. MailTypeOK'
  BY <1>4, <1>6, <1>7 DEF MailInv, MailTypeOK
<1>9. LettersAreRight'
  <2>1. result = "submitted" => accepted[m] > 0 \/ m \in misread
    BY <1>2, <1>3 DEF MailInv, PostmenAreRight
  <2>2. \A n \in Mails : letter'[n].sandbox = letter[n].sandbox
    BY <1>5, <1>6
  <2>3. \A n \in Mails : letter'[n].state = "none" => letter[n].state = "none"
    BY <1>5, <1>6
  <2>4. \A n \in Mails : letter'[n].state = "SUBMITTED" => accepted[n] > 0 \/ n \in misread
    BY <1>5, <1>6, <2>1 DEF MailInv, LettersAreRight
  <2>5. QED
    BY <1>4, <2>2, <2>3, <2>4 DEF MailInv, LettersAreRight
<1>10. PostmenAreRight'
  <2>1. \A v \in MailWorkers : postman[v].letter \in Mails \union {NoMail}
    BY DEF MailInv, MailTypeOK, Postman
  <2>2. \A n \in Mails : letter[n].state # "none" =>
          letter'[n].state # "none" /\ letter'[n].sandbox = letter[n].sandbox
    BY <1>5, <1>6
  <2>3. IdlePostman.letter = NoMail /\ IdlePostman.result = "none" /\ ~IdlePostman.read
    BY DEF IdlePostman
  <2>4. QED
    BY <1>4, <1>7, <2>1, <2>2, <2>3 DEF MailInv, PostmenAreRight
<1>11. ASSUME NEW n \in Mails PROVE Balanced(n)
  <2>1. MailTypeOK /\ IsFiniteSet(Holders(n)) /\ Cardinality(Holders(n)) \in Nat
    BY HoldersAreFinite DEF MailInv
  <2>2. n # NoMail
    BY MailAssumption
  <2>3. Holders(n)' = Holders(n) \ {w}
    <3>1. ~Holding(IdlePostman, n)
      BY <2>2 DEF Holding, IdlePostman
    <3>2. QED
      BY <1>4, <2>1, <3>1, HoldersMove
  <2>4. CASE n = m /\ written.state = "DEFERRED"
    <3>1. w \in Holders(n)
      BY <1>2, <1>3, <1>5, <2>4 DEF Holders
    <3>2. Cardinality(Holders(n)') \in Nat
            /\ Cardinality(Holders(n)') + 1 <= Cardinality(Holders(n))
      BY <2>1, <2>3, <3>1, OneLess
    <3>3. Chance(n) \in 0..1 /\ Chance(n)' \in 0..1 /\ accepted[n] \in Nat /\ reopened[n] \in Nat
      BY DEF Chance, MailInv, MailTypeOK
    <3>4. QED
      BY <1>4, <2>1, <3>2, <3>3 DEF Balanced
  <2>5. CASE n = m /\ written.state # "DEFERRED"
    <3>1. Cardinality(Holders(n)') \in Nat /\ Cardinality(Holders(n)') <= Cardinality(Holders(n))
      BY <2>1, <2>3, Fewer
    <3>2. Chance(n) \in 0..1 /\ Chance(n)' = 0 /\ accepted[n] \in Nat /\ reopened[n] \in Nat
      BY <1>5, <1>6, <2>5 DEF Chance, MayBeClaimed, MailInv, MailTypeOK
    <3>3. QED
      BY <1>4, <2>1, <3>1, <3>2 DEF Balanced
  <2>6. CASE n # m
    <3>1. Chance(n)' = Chance(n)
      BY <1>6, <2>6 DEF Chance, MayBeClaimed
    <3>2. QED
      BY <1>4, <2>3, <3>1, BalanceOfRest
  <2>7. QED
    BY <2>4, <2>5, <2>6
<1>12. QED
  BY <1>8, <1>9, <1>10, <1>11, PostmanCountStep DEF MailInv

LEMMA ReportStep ==
  ASSUME MailInv, NEW m \in Mails, Report(m)
  PROVE  MailInv'
<1>1. PICK state \in {"SENT", "DELIVERED", "DEFERRED", "FAILED", "BOUNCED_HARD"} :
        /\ letter' = [letter EXCEPT ![m].state = state]
        /\ reopened' = IF state = "DEFERRED" THEN [reopened EXCEPT ![m] = @ + 1] ELSE reopened
  BY DEF Report
<1>2. accepted[m] > 0 /\ UNCHANGED <<gates, accepted, misread, postman, purge>>
  BY DEF Report
<1> DEFINE written == [letter[m] EXCEPT !.state = state]
<1>3. letter[m] \in Letter /\ letter' = [letter EXCEPT ![m] = written]
  BY <1>1 DEF MailInv, MailTypeOK
<1>4. written \in Letter /\ written.state = state /\ written.sandbox = letter[m].sandbox
  BY <1>3 DEF Letter, LetterStates, Active, PurgedStates
<1> HIDE DEF written
<1>5. /\ letter' \in [Mails -> Letter] /\ letter'[m] = written
      /\ \A n \in Mails : n # m => letter'[n] = letter[n]
  BY <1>3, <1>4 DEF MailInv, MailTypeOK
<1>6. /\ reopened' \in [Mails -> Nat]
      /\ reopened'[m] = IF state = "DEFERRED" THEN reopened[m] + 1 ELSE reopened[m]
      /\ \A n \in Mails : n # m => reopened'[n] = reopened[n]
  BY <1>1 DEF MailInv, MailTypeOK
<1>7. mailFaults' \in 0..MailMaxFaults
  BY MailAssumption DEF Report, MailFault, MailInv, MailTypeOK
<1>8. MailTypeOK'
  BY <1>2, <1>5, <1>6, <1>7 DEF MailInv, MailTypeOK
<1>9. accepted[m] # 0
  BY <1>2
<1>10. LettersAreRight'
  BY <1>2, <1>4, <1>5, <1>9 DEF MailInv, LettersAreRight
<1>11. PostmenAreRight'
  <2>1. \A v \in MailWorkers : postman[v].letter \in Mails \union {NoMail}
    BY DEF MailInv, MailTypeOK, Postman
  <2>2. \A n \in Mails : letter[n].state # "none" =>
          letter'[n].state # "none" /\ letter'[n].sandbox = letter[n].sandbox
    BY <1>4, <1>5
  <2>3. QED
    BY <1>2, <2>1, <2>2 DEF MailInv, PostmenAreRight
<1>12. ASSUME NEW n \in Mails PROVE Balanced(n)
  <2>1. Holders(n)' = Holders(n) /\ Cardinality(Holders(n)) \in Nat
    BY <1>2, HoldersAreFinite DEF Holders
  <2>2. accepted[n] \in Nat /\ reopened[n] \in Nat /\ Chance(n) \in 0..1 /\ Chance(n)' \in 0..1
    BY DEF Chance, MailInv, MailTypeOK
  <2>3. CASE n = m /\ state = "DEFERRED"
    BY <1>2, <1>6, <2>1, <2>2, <2>3 DEF Balanced
  <2>4. CASE n = m /\ state # "DEFERRED"
    <3>1. Chance(n)' = 0
      BY <1>4, <1>5, <2>4 DEF Chance, MayBeClaimed
    <3>2. QED
      BY <1>2, <1>6, <2>1, <2>2, <2>4, <3>1 DEF Balanced
  <2>5. CASE n # m
    <3>1. Chance(n)' = Chance(n)
      BY <1>5, <2>5 DEF Chance, MayBeClaimed
    <3>2. QED
      BY <1>2, <1>6, <2>1, <2>5, <3>1, BalanceOfRest
  <2>6. QED
    BY <2>3, <2>4, <2>5
<1>13. QED
  BY <1>8, <1>10, <1>11, <1>12, PostmanCountStep DEF MailInv

-------------------------------------------------------------------------------
(* The whole step. *)

LEMMA MailStep ==
  ASSUME MailInv, [MailNext]_mailVars
  PROVE  MailInv'
<1>1. MailTypeOK /\ \A m \in Mails : letter[m] \in Letter
  BY DEF MailInv, MailTypeOK
<1>2. ASSUME QuietLetters, UNCHANGED <<accepted, reopened, misread, postman>>,
             gates' \in Gates, purge' \in [Mails -> LetterStates],
             mailFaults' \in 0..MailMaxFaults
      PROVE  MailInv'
  BY <1>1, <1>2, QuietStep DEF MailTypeOK, QuietLetters
<1>3. ASSUME NEW m \in Mails, MailTime(m) \/ SandboxProcess(m) PROVE MailInv'
  <2>1. UNCHANGED <<gates, accepted, reopened, misread, postman, purge, mailFaults>>
    BY <1>3 DEF MailTime, SandboxProcess
  <2>2. QuietLetters
    BY <1>1, <1>3, TimeIsQuiet, SinkIsQuiet
  <2>3. QED
    BY <1>1, <1>2, <2>1, <2>2 DEF MailTypeOK
<1>4. CASE LeaseRecover
  <2>1. UNCHANGED <<gates, accepted, reopened, misread, postman, purge, mailFaults>>
    BY <1>4 DEF LeaseRecover
  <2>2. QED
    BY <1>1, <1>2, <1>4, <2>1, RecoveryIsQuiet DEF MailTypeOK
<1>5. CASE PurgeWrite
  <2>1. NoPurge \in [Mails -> LetterStates]
    BY DEF NoPurge, LetterStates
  <2>2. UNCHANGED <<gates, accepted, reopened, misread, postman, mailFaults>> /\ purge' = NoPurge
    BY <1>5 DEF PurgeWrite
  <2>3. QED
    BY <1>1, <1>2, <1>5, <2>1, <2>2, PurgeIsQuiet DEF MailTypeOK
<1>6. ASSUME letter' = letter PROVE QuietLetters
  BY <1>1, <1>6, SameIsQuiet DEF QuietLetters, MailTypeOK
<1>7. CASE PurgeRead
  <2>1. \A m \in Mails : letter[m].state \in LetterStates
    BY <1>1 DEF Letter
  <2>2. purge' \in [Mails -> LetterStates]
    BY <1>7, <2>1 DEF PurgeRead, LetterStates
  <2>3. UNCHANGED <<gates, letter, accepted, reopened, misread, postman, mailFaults>>
    BY <1>7 DEF PurgeRead
  <2>4. QED
    BY <1>1, <1>2, <1>6, <2>2, <2>3 DEF MailTypeOK
<1>8. CASE GatesChange
  <2>1. gates' \in Gates /\ mailFaults' \in 0..MailMaxFaults
    BY <1>1, <1>8, MailAssumption DEF GatesChange, MailFault, MailTypeOK
  <2>2. UNCHANGED <<letter, accepted, reopened, misread, postman, purge>>
    BY <1>8 DEF GatesChange
  <2>3. QED
    BY <1>1, <1>2, <1>6, <2>1, <2>2 DEF MailTypeOK
<1>9. CASE UNCHANGED mailVars
  <2>1. UNCHANGED <<gates, letter, accepted, reopened, misread, postman, purge, mailFaults>>
    BY <1>9 DEF mailVars
  <2>2. QED
    BY <1>1, <1>2, <1>6, <2>1 DEF MailTypeOK
<1>10. ASSUME NEW m \in Mails,
              \/ Submit(m) \/ Report(m)
              \/ \E w \in MailWorkers : PostmanClaim(w, m)
       PROVE  MailInv'
  BY <1>10, SubmitStep, ReportStep, PostmanClaimStep
<1>11. ASSUME NEW w \in MailWorkers,
              PostmanPost(w) \/ PostmanRead(w) \/ PostmanWrite(w) \/ PostmanDies(w)
       PROVE  MailInv'
  BY <1>11, PostStep, ReadStep, WriteStep, DeathStep
<1>12. QED
  BY <1>3, <1>4, <1>5, <1>7, <1>8, <1>9, <1>10, <1>11 DEF MailNext

LEMMA MailBegins == MailInit => MailInv
<1> SUFFICES ASSUME MailInit PROVE MailInv
  OBVIOUS
<1>1. MailTypeOK
  BY IdlePostmanType, MailAssumption
  DEF MailInit, MailTypeOK, Gates, Letter, LetterStates, NoPurge
<1>2. LettersAreRight /\ PostmenAreRight
  BY DEF MailInit, LettersAreRight, PostmenAreRight, IdlePostman
<1>3. ASSUME NEW m \in Mails
      PROVE  accepted[m] + Cardinality(Holders(m)) + Chance(m) <= 1 + reopened[m]
  <2>1. m # NoMail
    BY MailAssumption
  <2>2. Holders(m) = {}
    BY <2>1 DEF MailInit, Holders, IdlePostman
  <2>3. Cardinality(Holders(m)) = 0
    BY <2>2, FS_EmptySet
  <2>4. QED
    BY <2>3 DEF MailInit, Chance, MayBeClaimed
<1>4. QED
  BY <1>1, <1>2, <1>3 DEF MailInv, ChancesAreCounted

LEMMA MailInvariant == MailSpec => []MailInv
<1>1. MailInv /\ [MailNext]_mailVars => MailInv'
  BY MailStep
<1>2. QED
  BY MailBegins, <1>1, PTL DEF MailSpec

LEMMA MailIsSafe == MailInv => SecurityMailOnce
<1> SUFFICES ASSUME MailInv, NEW m \in Mails
             PROVE  /\ accepted[m] <= 1 + reopened[m]
                    /\ letter[m].sandbox => accepted[m] = 0
                    /\ letter[m].state = "SUBMITTED" => accepted[m] > 0 \/ m \in misread
  BY DEF SecurityMailOnce
<1>1. /\ accepted[m] \in Nat /\ reopened[m] \in Nat
      /\ Cardinality(Holders(m)) \in Nat /\ Chance(m) \in Nat
  BY HoldersAreFinite DEF MailInv, MailTypeOK, Chance
<1>2. accepted[m] + Cardinality(Holders(m)) + Chance(m) <= 1 + reopened[m]
  BY DEF MailInv, ChancesAreCounted
<1>3. accepted[m] <= 1 + reopened[m]
  BY <1>1, <1>2
<1>4. QED
  BY <1>3 DEF MailInv, LettersAreRight

\* Workers that die, are slow, have no answer or lose their lease, and purges
\* that end what they have read, never lead to a second acceptance by Postal; nor
\* is a sandbox message ever handed over. One shown as submitted was accepted, or
\* refused by an answer that was taken for an acceptance.
THEOREM SecurityMailOnceCorrect == MailSpec => []SecurityMailOnce
BY MailInvariant, MailIsSafe, PTL

-------------------------------------------------------------------------------
(***************************************************************************)
(* The gates of a send.                                                    *)
(***************************************************************************)

USE DEF Giving, Taking, Opening, Listing

(* A gate that was closed and answered is still closed, for as long as it      *)
(* counts as closed: what shuts it is in the tables. And no grant is under way *)
(* that could open it unseen.                                                  *)

\* What shuts a gate.
Shut(bar) ==
    CASE bar = "optOut"   -> ListedRows # {}
      [] bar = "consent"  -> ~consent.subscribed
      [] bar = "tenant"   -> ~tenant.enabled
      [] bar = "domain"   -> tenant.domainHeld
      [] bar = "sendGate" -> ~tenant.open
      [] bar = "quota"    -> sent >= SendQuota
      [] OTHER            -> TRUE

ClosedIsShut == "quota" \notin closed /\ \A b \in closed : Shut(b)

\* What binds a request to send that is under way: the tenant's state is the
\* one it began with, everything else is as the tables are now.
Binds(me) ==
    /\ me.barred \cap {"optOut", "consent"} # {} => me.stream = "marketing"
    /\ "domain" \in me.barred => me.path = "api"
    /\ "tenant" \in me.barred => ~me.enabled
    /\ \A b \in me.barred \ {"tenant"} : Shut(b)

SendersAreBound ==
    \A q \in GateSenders :
        /\ gateSender[q].step = "begun" => Binds(gateSender[q])
        /\ gateSender[q].step \in {"passed", "admitted"} => gateSender[q].barred \subseteq {"bounce"}

UnderWay(w, kinds) == gateWriter[w].step = "read" /\ gateWriter[w].kind \in kinds

\* While a grant is under way no consent counts as refused; a request that is
\* calm shares its time with no grant or deletion of another, and a calm
\* revocation that found the preference off will find it off.
WritersAreRight ==
    \A w \in GateWriters :
        /\ gateWriter[w].step = "read" /\ gateWriter[w].row # NoRow => gateWriter[w].seen # "none"
        /\ UnderWay(w, {"delete"}) => gateWriter[w].row # NoRow
        /\ UnderWay(w, Giving) =>
              /\ "consent" \notin closed
              /\ \A q \in GateSenders : gateSender[q].step = "begun" => "consent" \notin gateSender[q].barred
        /\ UnderWay(w, Opening) =>
              \A v \in GateWriters \ {w} : gateWriter[v].step = "read" => ~gateWriter[v].calm
        /\ UnderWay(w, Taking) /\ gateWriter[w].calm /\ ~gateWriter[w].subscribed =>
              ~consent.subscribed
        /\ UnderWay(w, {"upsert"}) => gateWriter[w].reason \in GivenReasons

GateInv == GateTypeOK /\ ClosedIsShut /\ SendersAreBound /\ WritersAreRight

-------------------------------------------------------------------------------
(* What a step does to the requests to send. *)

LEMMA RefusedType ==
  /\ Sender("refused") \in SendRequest
  /\ Sender("refused").step = "refused"
<1>1. Sender("refused") = [step |-> "refused", stream |-> "transactional", path |-> "api",
                          enabled |-> TRUE, barred |-> {}]
  BY DEF Sender
<1>2. {} \in SUBSET Bars
  OBVIOUS
<1>3. [step |-> "refused", stream |-> "transactional", path |-> "api",
       enabled |-> TRUE, barred |-> {}] \in SendRequest
  BY <1>2 DEF SendRequest
<1>4. Sender("refused") \in SendRequest
  BY <1>1, <1>3
<1>5. Sender("refused").step = "refused"
  BY DEF Sender
<1>6. QED
  BY <1>4, <1>5

\* They go on, without some of their bars.
Trimmed(gone) ==
    /\ gateSender' \in [GateSenders -> SendRequest]
    /\ \A q \in GateSenders :
          /\ gateSender'[q].step = gateSender[q].step
          /\ gateSender'[q].stream = gateSender[q].stream
          /\ gateSender'[q].path = gateSender[q].path
          /\ gateSender'[q].enabled = gateSender[q].enabled
          /\ gateSender'[q].barred = gateSender[q].barred \ gone

LEMMA LiftedTrims ==
  ASSUME GateTypeOK, NEW bars \in SUBSET Bars, Lifted(bars)
  PROVE  Trimmed(bars) /\ closed' = closed \ bars
<1>1. ASSUME NEW q \in GateSenders
      PROVE  /\ [gateSender[q] EXCEPT !.barred = gateSender[q].barred \ bars] \in SendRequest
             /\ gateSender'[q] = [gateSender[q] EXCEPT !.barred = gateSender[q].barred \ bars]
  <2>1. gateSender[q] \in SendRequest
    BY DEF GateTypeOK
  <2>2. PICK left \in SUBSET Bars : left = gateSender[q].barred \ bars
    BY <2>1 DEF SendRequest
  <2>3. [gateSender[q] EXCEPT !.barred = left] \in SendRequest
    BY <2>1, <2>2 DEF SendRequest
  <2>4. gateSender'[q] = [gateSender[q] EXCEPT !.barred = gateSender[q].barred \ bars]
    BY DEF Lifted
  <2>5. QED
    BY <2>2, <2>3, <2>4
<1>2. gateSender' = [q \in GateSenders |->
          [gateSender[q] EXCEPT !.barred = gateSender[q].barred \ bars]]
  BY DEF Lifted
<1>3. gateSender' \in [GateSenders -> SendRequest]
  BY <1>1, <1>2
<1>4. \A q \in GateSenders : gateSender[q] \in SendRequest
  BY DEF GateTypeOK
<1>5. QED
  BY <1>1, <1>3, <1>4 DEF Trimmed, Lifted, SendRequest

LEMMA SameTrims == ASSUME GateTypeOK, UNCHANGED gateSender PROVE Trimmed({})
  BY DEF GateTypeOK, Trimmed

\* A bar that matters to nobody: it is not closed, and binds no request.
Moot(b) ==
    /\ b \notin closed
    /\ \A q \in GateSenders : gateSender[q].step = "begun" => b \notin gateSender[q].barred

LEMMA GatesHold ==
  ASSUME GateInv, NEW gone, NEW new \in SUBSET (Bars \ {"quota"}), Trimmed(gone),
         closed' = (closed \ gone) \union new,
         \A b \in new : Shut(b)',
         \A b \in Bars \ gone : (Shut(b) => Shut(b)') \/ Moot(b)
  PROVE  ClosedIsShut' /\ SendersAreBound'
<1>1. closed \subseteq Bars
  BY DEF GateInv, GateTypeOK
<1>2. ClosedIsShut'
  <2>1. "quota" \notin closed'
    BY DEF GateInv, ClosedIsShut
  <2>2. ASSUME NEW b \in closed' PROVE Shut(b)'
    <3>1. CASE b \in new
      BY <3>1
    <3>2. CASE b \in closed \ gone
      BY <1>1, <3>2 DEF GateInv, ClosedIsShut, Moot
    <3>3. QED
      BY <3>1, <3>2
  <2>3. QED
    BY <2>1, <2>2 DEF ClosedIsShut
<1>3. ASSUME NEW q \in GateSenders
      PROVE  /\ gateSender'[q].step = "begun" => Binds(gateSender[q])'
             /\ gateSender'[q].step \in {"passed", "admitted"} => gateSender'[q].barred \subseteq {"bounce"}
  <2>1. /\ gateSender'[q].step = gateSender[q].step
        /\ gateSender'[q].stream = gateSender[q].stream
        /\ gateSender'[q].path = gateSender[q].path
        /\ gateSender'[q].enabled = gateSender[q].enabled
        /\ gateSender'[q].barred = gateSender[q].barred \ gone
        /\ gateSender[q].barred \subseteq Bars
    BY DEF Trimmed, GateInv, GateTypeOK, SendRequest
  <2>2. CASE gateSender[q].step = "begun"
    <3>1. Binds(gateSender[q])
      BY <2>2 DEF GateInv, SendersAreBound
    <3>2. \A b \in gateSender'[q].barred \ {"tenant"} : Shut(b)'
      BY <2>1, <2>2, <3>1 DEF Binds, Moot
    <3>3. QED
      BY <2>1, <2>2, <3>1, <3>2 DEF Binds
  <2>3. CASE gateSender[q].step # "begun"
    BY <2>1, <2>3 DEF GateInv, SendersAreBound
  <2>4. QED
    BY <2>2, <2>3
<1>4. QED
  BY <1>2, <1>3 DEF SendersAreBound

\* Steps that leave the writers and the consents alone.
LEMMA WritersRest ==
  ASSUME GateInv, UNCHANGED <<gateWriter, consent>>,
         "consent" \in closed' => "consent" \in closed,
         \A q \in GateSenders :
             gateSender'[q].step = "begun" /\ "consent" \in gateSender'[q].barred =>
                 ~Moot("consent")
  PROVE  WritersAreRight'
<1>1. \A w \in GateWriters : UnderWay(w, Giving) => Moot("consent")
  BY DEF GateInv, WritersAreRight, Moot
<1>2. \A w \in GateWriters, kinds \in SUBSET WriteKinds : UnderWay(w, kinds)' <=> UnderWay(w, kinds)
  BY DEF UnderWay
<1>3. Giving \in SUBSET WriteKinds /\ {"delete"} \in SUBSET WriteKinds
        /\ Taking \in SUBSET WriteKinds /\ {"upsert"} \in SUBSET WriteKinds
        /\ Opening \in SUBSET WriteKinds
  BY DEF WriteKinds
<1>4. \A w \in GateWriters : UnderWay(w, Giving)' =>
          /\ "consent" \notin closed'
          /\ \A q \in GateSenders : gateSender'[q].step = "begun" => "consent" \notin gateSender'[q].barred
  BY <1>1, <1>2, <1>3 DEF Moot
<1>5. QED
  BY <1>4 DEF GateInv, WritersAreRight, UnderWay

-------------------------------------------------------------------------------
(* Suspensions and the tenant's gate. *)

LEMMA ControlStep ==
  ASSUME GateInv, NEW gone \in SUBSET {"tenant", "domain", "sendGate"},
         NEW new \in SUBSET {"tenant", "domain", "sendGate"}, Trimmed(gone),
         closed' = (closed \ gone) \union new,
         tenant' \in [enabled : BOOLEAN, held : BOOLEAN, domainHeld : BOOLEAN, open : BOOLEAN],
         "tenant" \in new \/ (~tenant.enabled /\ "tenant" \notin gone) => ~tenant'.enabled,
         "domain" \in new \/ (tenant.domainHeld /\ "domain" \notin gone) => tenant'.domainHeld,
         "sendGate" \in new \/ (~tenant.open /\ "sendGate" \notin gone) => ~tenant'.open,
         ControlChanges,
         UNCHANGED <<listed, consent, sent, gateWriter>>
  PROVE  GateInv'
<1>1. new \in SUBSET (Bars \ {"quota"}) /\ gone \in SUBSET Bars
  BY DEF Bars
<1>2. GateTypeOK'
  BY <1>1, GateAssumption DEF GateInv, GateTypeOK, ControlChanges, Trimmed
<1>3. ListedRows' = ListedRows
  BY DEF ListedRows
<1>4. \A b \in new : Shut(b)'
  BY DEF Shut
<1>5. \A b \in Bars \ gone : Shut(b) => Shut(b)'
  BY <1>3 DEF Shut, Bars
<1>6. ClosedIsShut' /\ SendersAreBound'
  BY <1>1, <1>4, <1>5, GatesHold
<1>7. WritersAreRight'
  BY WritersRest DEF Trimmed, Moot
<1>8. QED
  BY <1>2, <1>6, <1>7 DEF GateInv

LEMMA ControlsKeep ==
  ASSUME GateInv,
         \/ SuspendTenant \/ ReleaseTenant \/ AbuseIsCritical \/ SuspendDomain \/ ReleaseDomain
         \/ \E open \in BOOLEAN : SetSendGate(open)
  PROVE  GateInv'
<1>1. GateTypeOK
  BY DEF GateInv
<1>2. CASE SuspendTenant \/ AbuseIsCritical
  <2>1. /\ closed' = (closed \ {}) \union {"tenant"} /\ Trimmed({})
        /\ tenant' = [tenant EXCEPT !.held = tenant'.held, !.enabled = FALSE] /\ tenant'.held \in BOOLEAN
        /\ ControlChanges /\ UNCHANGED <<listed, consent, sent, gateWriter>>
    BY <1>1, <1>2, SameTrims DEF SuspendTenant, AbuseIsCritical, GateTypeOK
  <2>2. QED
    BY <1>1, <2>1, ControlStep DEF GateTypeOK
<1>3. CASE ReleaseTenant
  <2>1. /\ Lifted({"tenant"})
        /\ tenant' = [tenant EXCEPT !.held = FALSE, !.enabled = TRUE]
        /\ ControlChanges /\ UNCHANGED <<listed, consent, sent, gateWriter>>
    BY <1>3 DEF ReleaseTenant
  <2>2. closed' = (closed \ {"tenant"}) \union {} /\ Trimmed({"tenant"})
    BY <1>1, <2>1, LiftedTrims DEF Bars
  <2>3. QED
    BY <1>1, <2>1, <2>2, ControlStep DEF GateTypeOK
<1>4. CASE SuspendDomain
  <2>1. /\ closed' = (closed \ {}) \union {"domain"} /\ Trimmed({})
        /\ tenant' = [tenant EXCEPT !.domainHeld = TRUE]
        /\ ControlChanges /\ UNCHANGED <<listed, consent, sent, gateWriter>>
    BY <1>1, <1>4, SameTrims DEF SuspendDomain
  <2>2. QED
    BY <1>1, <2>1, ControlStep DEF GateTypeOK
<1>5. CASE ReleaseDomain
  <2>1. /\ Lifted({"domain"})
        /\ tenant' = [tenant EXCEPT !.domainHeld = FALSE]
        /\ ControlChanges /\ UNCHANGED <<listed, consent, sent, gateWriter>>
    BY <1>5 DEF ReleaseDomain
  <2>2. closed' = (closed \ {"domain"}) \union {} /\ Trimmed({"domain"})
    BY <1>1, <2>1, LiftedTrims DEF Bars
  <2>3. QED
    BY <1>1, <2>1, <2>2, ControlStep DEF GateTypeOK
<1>6. ASSUME SetSendGate(TRUE) PROVE GateInv'
  <2>1. /\ Lifted({"sendGate"})
        /\ tenant' = [tenant EXCEPT !.open = TRUE]
        /\ ControlChanges /\ UNCHANGED <<listed, consent, sent, gateWriter>>
    BY <1>6 DEF SetSendGate
  <2>2. closed' = (closed \ {"sendGate"}) \union {} /\ Trimmed({"sendGate"})
    BY <1>1, <2>1, LiftedTrims DEF Bars
  <2>3. QED
    BY <1>1, <2>1, <2>2, ControlStep DEF GateTypeOK
<1>7. ASSUME SetSendGate(FALSE) PROVE GateInv'
  <2>1. /\ closed' = (closed \ {}) \union {"sendGate"} /\ Trimmed({})
        /\ tenant' = [tenant EXCEPT !.open = FALSE]
        /\ ControlChanges /\ UNCHANGED <<listed, consent, sent, gateWriter>>
    BY <1>1, <1>7, SameTrims DEF SetSendGate
  <2>2. QED
    BY <1>1, <2>1, ControlStep DEF GateTypeOK
<1>8. QED
  BY <1>2, <1>3, <1>4, <1>5, <1>6, <1>7

-------------------------------------------------------------------------------
(* Requests to send. *)

LEMMA BeginStep ==
  ASSUME GateInv, NEW q \in GateSenders, NEW stream \in {"marketing", "transactional"},
         NEW path \in {"api", "provider"}, SenderBegins(q, stream, path)
  PROVE  GateInv'
<1> DEFINE begun == [step |-> "begun", stream |-> stream, path |-> path,
                     enabled |-> tenant.enabled, barred |-> BarsFor(stream, path)]
<1>1. gateSender' = [gateSender EXCEPT ![q] = begun]
        /\ UNCHANGED <<listed, consent, tenant, sent, controls, gateWriter, closed>>
  BY DEF SenderBegins
<1>2. BarsFor(stream, path) \subseteq Bars
  BY DEF BarsFor, GateInv, GateTypeOK, Bars
<1>3. begun \in SendRequest
  BY <1>2 DEF SendRequest, GateInv, GateTypeOK
<1>4. Binds(begun)
  <2>1. \A b \in closed : Shut(b) /\ b # "quota"
    BY DEF GateInv, ClosedIsShut
  <2>2. \A b \in BarsFor(stream, path) : b \in closed \/ (b = "quota" /\ sent >= SendQuota)
    BY DEF BarsFor
  <2>3. \A b \in BarsFor(stream, path) : Shut(b)
    BY <2>1, <2>2 DEF Shut
  <2>4. "tenant" \in BarsFor(stream, path) => ~tenant.enabled
    BY <2>3 DEF Shut
  <2>5. /\ BarsFor(stream, path) \cap {"optOut", "consent"} # {} => stream = "marketing"
        /\ "domain" \in BarsFor(stream, path) => path = "api"
    BY <2>1 DEF BarsFor
  <2>6. QED
    BY <2>3, <2>4, <2>5 DEF Binds
<1>5. begun.step = "begun" /\ ("consent" \in begun.barred => "consent" \in closed)
  BY DEF BarsFor
<1> HIDE DEF begun
<1>6. /\ gateSender' \in [GateSenders -> SendRequest] /\ gateSender'[q] = begun
      /\ \A p \in GateSenders : p # q => gateSender'[p] = gateSender[p]
  BY <1>1, <1>3 DEF GateInv, GateTypeOK
<1>7. GateTypeOK'
  BY <1>1, <1>6 DEF GateInv, GateTypeOK
<1>8. \A b : Shut(b)' = Shut(b)
  BY <1>1 DEF Shut, ListedRows
<1>9. ClosedIsShut'
  BY <1>1, <1>8 DEF GateInv, ClosedIsShut
<1>10. SendersAreBound'
  <2>1. \A me : Binds(me)' <=> Binds(me)
    BY <1>8 DEF Binds
  <2>2. QED
    BY <1>4, <1>5, <1>6, <2>1 DEF GateInv, SendersAreBound, Binds
<1>11. WritersAreRight'
  BY <1>1, <1>5, <1>6, WritersRest DEF Moot
<1>12. QED
  BY <1>7, <1>9, <1>10, <1>11 DEF GateInv

\* A request that is let through was barred by nothing but a bounce.
LEMMA CheckStep ==
  ASSUME GateInv, NEW q \in GateSenders, SenderIsChecked(q)
  PROVE  GateInv'
<1> DEFINE me == gateSender[q]
<1>0. me \in SendRequest /\ me.step = "begun" /\ Binds(me)
  BY DEF SenderIsChecked, GateInv, GateTypeOK, SendersAreBound
<1>1. PICK r \in IF ListedRows = {} THEN {NoRow} ELSE ListedRows :
        gateSender' = [gateSender EXCEPT ![q] =
             IF /\ me.enabled /\ tenant.open
                /\ r # NoRow => ~Suppressed(me.stream, listed[r])
                /\ Consented(me.stream) /\ Controlled(me.path) /\ WithinQuota
             THEN [me EXCEPT !.step = "passed"] ELSE Sender("refused")]
  BY DEF SenderIsChecked
<1>2. UNCHANGED <<listed, consent, tenant, sent, controls, gateWriter, closed>>
  BY DEF SenderIsChecked
<1> DEFINE free == /\ me.enabled /\ tenant.open
                   /\ r # NoRow => ~Suppressed(me.stream, listed[r])
                   /\ Consented(me.stream) /\ Controlled(me.path) /\ WithinQuota
           now == IF free THEN [me EXCEPT !.step = "passed"] ELSE Sender("refused")
<1>3. /\ gateSender' = [gateSender EXCEPT ![q] = now]
      /\ free => now = [me EXCEPT !.step = "passed"]
      /\ ~free => now = Sender("refused")
  BY <1>1
<1> HIDE DEF now
<1>4. now \in SendRequest /\ now.step # "begun"
  <2>1. CASE free
    BY <1>0, <1>3, <2>1 DEF SendRequest
  <2>2. CASE ~free
    BY <1>3, <2>2, RefusedType
  <2>3. QED
    BY <2>1, <2>2
<1>5. now.step \in {"passed", "admitted"} => now.barred \subseteq {"bounce"}
  <2> SUFFICES ASSUME free PROVE me.barred \subseteq {"bounce"}
    <3>1. CASE free
      BY <1>0, <1>3, <3>1 DEF SendRequest
    <3>2. CASE ~free
      BY <1>3, <3>2 DEF Sender
    <3>3. QED
      BY <3>1, <3>2
  <2>1. me.barred \subseteq Bars /\ me.stream \in {"marketing", "transactional"}
    BY <1>0 DEF SendRequest
  <2>2. "tenant" \notin me.barred
    BY <1>0, <1>3 DEF Binds
  <2>3. "sendGate" \notin me.barred /\ "domain" \notin me.barred
    BY <1>0, <1>3 DEF Binds, Shut, Controlled
  <2>4. "quota" \notin me.barred
    BY <1>0, <1>3, GateAssumption DEF Binds, Shut, WithinQuota, GateInv, GateTypeOK
  <2>5. "consent" \notin me.barred
    BY <1>0, <1>3 DEF Binds, Shut, Consented
  <2>6. "optOut" \notin me.barred
    <3> SUFFICES ASSUME "optOut" \in me.barred PROVE FALSE
      OBVIOUS
    <3>1. me.stream = "marketing" /\ ListedRows # {}
      BY <1>0 DEF Binds, Shut
    <3>2. r \in ListedRows /\ r # NoRow /\ listed[r] # "none"
      BY <1>1, <3>1, GateAssumption DEF ListedRows
    <3>3. QED
      BY <1>3, <3>1, <3>2 DEF Suppressed
  <2>7. QED
    BY <2>1, <2>2, <2>3, <2>4, <2>5, <2>6 DEF Bars
<1> HIDE DEF me, free
<1>6. /\ gateSender' \in [GateSenders -> SendRequest] /\ gateSender'[q] = now
      /\ \A p \in GateSenders : p # q => gateSender'[p] = gateSender[p]
  BY <1>3, <1>4 DEF GateInv, GateTypeOK
<1>7. GateTypeOK'
  BY <1>2, <1>6 DEF GateInv, GateTypeOK
<1>8. \A b : Shut(b)' = Shut(b)
  BY <1>2 DEF Shut, ListedRows
<1>9. ClosedIsShut'
  BY <1>2, <1>8 DEF GateInv, ClosedIsShut
<1>10. SendersAreBound'
  <2>1. \A x : Binds(x)' <=> Binds(x)
    BY <1>8 DEF Binds
  <2>2. QED
    BY <1>4, <1>5, <1>6, <2>1 DEF GateInv, SendersAreBound, Binds
<1>11. WritersAreRight'
  <2>1. \A p \in GateSenders : gateSender'[p].step = "begun" => gateSender'[p] = gateSender[p]
    BY <1>4, <1>6
  <2>2. QED
    BY <1>2, <2>1, WritersRest DEF Moot
<1>12. QED
  BY <1>7, <1>9, <1>10, <1>11 DEF GateInv

LEMMA AdmitStep ==
  ASSUME GateInv, NEW q \in GateSenders, SenderIsAdmitted(q)
  PROVE  GateInv'
<1> DEFINE now == [gateSender[q] EXCEPT !.step = "admitted"]
<1>1. /\ gateSender[q] \in SendRequest /\ gateSender[q].step = "passed"
      /\ gateSender[q].barred \subseteq {"bounce"}
      /\ gateSender' = [gateSender EXCEPT ![q] = now]
      /\ sent \in Nat /\ sent' = sent + 1
      /\ UNCHANGED <<listed, consent, tenant, controls, gateWriter, closed>>
  BY DEF SenderIsAdmitted, GateInv, GateTypeOK, SendersAreBound
<1>2. now \in SendRequest /\ now.step = "admitted" /\ now.barred \subseteq {"bounce"}
  BY <1>1 DEF SendRequest
<1> HIDE DEF now
<1>3. /\ gateSender' \in [GateSenders -> SendRequest] /\ gateSender'[q] = now
      /\ \A p \in GateSenders : p # q => gateSender'[p] = gateSender[p]
  BY <1>1, <1>2 DEF GateInv, GateTypeOK
<1>4. GateTypeOK'
  BY <1>1, <1>3 DEF GateInv, GateTypeOK
<1>5. \A b : Shut(b) => Shut(b)'
  BY <1>1, GateAssumption DEF Shut, ListedRows
<1>6. ClosedIsShut'
  BY <1>1, <1>5 DEF GateInv, ClosedIsShut
<1>7. SendersAreBound'
  <2>1. \A x : Binds(x) => Binds(x)'
    BY <1>5 DEF Binds
  <2>2. QED
    BY <1>2, <1>3, <2>1 DEF GateInv, SendersAreBound, Binds
<1>8. WritersAreRight'
  <2>1. \A p \in GateSenders : gateSender'[p].step = "begun" => gateSender'[p] = gateSender[p]
    BY <1>2, <1>3
  <2>2. QED
    BY <1>1, <2>1, WritersRest DEF Moot
<1>9. QED
  BY <1>4, <1>6, <1>7, <1>8 DEF GateInv

-------------------------------------------------------------------------------
(* Requests that change suppressions and consents. *)

LEMMA WriterReadStep ==
  ASSUME GateInv, NEW w \in GateWriters, NEW kind \in WriteKinds, NEW reason \in GivenReasons,
         WriterReads(w, kind, reason)
  PROVE  GateInv'
<1>1. GateTypeOK /\ WritersAreRight
  BY DEF GateInv
<1>2. PICK r \in IF ListedRows = {} \/ kind \notin Listing THEN {NoRow} ELSE ListedRows :
        /\ gateWriter[w].step = "idle"
        /\ kind = "delete" => r # NoRow
        /\ gateWriter' = [v \in GateWriters |->
             IF v = w
             THEN [step |-> "read", kind |-> kind, reason |-> reason, row |-> r,
                   seen |-> IF r = NoRow THEN "none" ELSE listed[r],
                   subscribed |-> consent.subscribed,
                   at |-> 1 + Cardinality({u \in GateWriters : gateWriter[u].step # "idle"}),
                   calm |-> WritersUnderWay(Opening) = {}]
             ELSE [gateWriter[v] EXCEPT !.calm = @ /\ kind \notin Opening]]
        /\ IF kind \in Giving THEN Lifted({"consent"}) ELSE UNCHANGED <<closed, gateSender>>
        /\ UNCHANGED <<listed, consent, tenant, sent, controls>>
  BY DEF WriterReads
<1> DEFINE calm == WritersUnderWay(Opening) = {}
           at == 1 + Cardinality({u \in GateWriters : gateWriter[u].step # "idle"})
           seen == IF r = NoRow THEN "none" ELSE listed[r]
<1>3. at \in Nat
  <2>1. IsFiniteSet({u \in GateWriters : gateWriter[u].step # "idle"})
    <3>1. {u \in GateWriters : gateWriter[u].step # "idle"} \in SUBSET GateWriters
      OBVIOUS
    <3>2. QED
      BY <3>1, GateAssumption, FS_Subset
  <2>2. QED
    BY <2>1, FS_CardinalityType
<1>4. /\ r \in SuppressionRows \union {NoRow} /\ seen \in Reasons \union {"none"}
      /\ r # NoRow => seen # "none"
  BY <1>1 DEF ListedRows, GateTypeOK
<1>5. reason \in Reasons /\ consent.subscribed \in BOOLEAN
  BY <1>1 DEF GivenReasons, Reasons, GateTypeOK
<1>6. /\ gateWriter'[w].step = "read" /\ gateWriter'[w].kind = kind
      /\ gateWriter'[w].reason = reason
      /\ gateWriter'[w].row = r /\ gateWriter'[w].seen = seen
      /\ gateWriter'[w].subscribed = consent.subscribed
      /\ gateWriter'[w].calm = calm /\ gateWriter'[w] \in WriteRequest
  <2>1. gateWriter'[w] = [step |-> "read", kind |-> kind, reason |-> reason, row |-> r,
                          seen |-> seen, subscribed |-> consent.subscribed, at |-> at, calm |-> calm]
    BY <1>2
  <2>2. calm \in BOOLEAN
    OBVIOUS
  <2> HIDE DEF calm, at, seen
  <2>3. gateWriter'[w] \in WriteRequest
    BY <1>3, <1>4, <1>5, <2>1, <2>2 DEF WriteRequest
  <2>4. QED
    BY <2>1, <2>3
<1>7. ASSUME NEW v \in GateWriters, v # w
      PROVE  /\ gateWriter'[v] \in WriteRequest
             /\ gateWriter'[v].step = gateWriter[v].step /\ gateWriter'[v].kind = gateWriter[v].kind
             /\ gateWriter'[v].reason = gateWriter[v].reason
             /\ gateWriter'[v].row = gateWriter[v].row /\ gateWriter'[v].seen = gateWriter[v].seen
             /\ gateWriter'[v].subscribed = gateWriter[v].subscribed
             /\ gateWriter'[v].calm => gateWriter[v].calm /\ kind \notin Opening
  <2>1. PICK quiet \in BOOLEAN : quiet = (gateWriter[v].calm /\ kind \notin Opening)
    OBVIOUS
  <2>2. gateWriter'[v] = [gateWriter[v] EXCEPT !.calm = quiet] /\ gateWriter[v] \in WriteRequest
    BY <1>1, <1>2, <1>7, <2>1 DEF GateTypeOK
  <2>3. QED
    BY <2>1, <2>2 DEF WriteRequest
<1>8. gateWriter' \in [GateWriters -> WriteRequest]
  BY <1>2, <1>6, <1>7
<1>9. PICK gone \in {{}, {"consent"}} :
         /\ Trimmed(gone) /\ closed' = (closed \ gone) \union {}
         /\ kind \in Giving => gone = {"consent"}
  <2>1. CASE kind \in Giving
    BY <1>1, <1>2, <2>1, LiftedTrims DEF Bars
  <2>2. CASE kind \notin Giving
    BY <1>1, <1>2, <2>2, SameTrims
  <2>3. QED
    BY <2>1, <2>2
<1>10. UNCHANGED <<listed, consent, tenant, sent, controls>>
  BY <1>2
<1>11. GateTypeOK'
  BY <1>1, <1>8, <1>9, <1>10 DEF GateTypeOK, Trimmed
<1>12. \A b : Shut(b)' = Shut(b)
  BY <1>10 DEF Shut, ListedRows
<1>13. ClosedIsShut' /\ SendersAreBound'
  <2>1. {} \in SUBSET (Bars \ {"quota"}) /\ \A b \in {} : Shut(b)'
    OBVIOUS
  <2>2. \A b \in Bars \ gone : (Shut(b) => Shut(b)') \/ Moot(b)
    BY <1>12
  <2>3. Trimmed(gone) /\ closed' = (closed \ gone) \union {}
    BY <1>9
  <2>4. QED
    BY <2>1, <2>2, <2>3, GatesHold
<1>14. ASSUME NEW v \in GateWriters PROVE
        /\ gateWriter'[v].step = "read" /\ gateWriter'[v].row # NoRow => gateWriter'[v].seen # "none"
        /\ UnderWay(v, {"delete"})' => gateWriter'[v].row # NoRow
        /\ UnderWay(v, Taking)' /\ gateWriter'[v].calm /\ ~gateWriter'[v].subscribed =>
              ~consent'.subscribed
        /\ UnderWay(v, {"upsert"})' => gateWriter'[v].reason \in GivenReasons
  <2>1. CASE v = w
    BY <1>2, <1>4, <1>6, <1>10, <2>1 DEF UnderWay
  <2>2. CASE v # w
    BY <1>1, <1>7, <1>10, <2>2 DEF WritersAreRight, UnderWay
  <2>3. QED
    BY <2>1, <2>2
<1>15. ASSUME NEW v \in GateWriters, UnderWay(v, Giving)' PROVE
        /\ "consent" \notin closed'
        /\ \A q \in GateSenders : gateSender'[q].step = "begun" => "consent" \notin gateSender'[q].barred
  <2>1. CASE kind \in Giving
    BY <1>9, <2>1 DEF Trimmed
  <2>2. CASE kind \notin Giving
    <3>1. v # w /\ UnderWay(v, Giving)
      BY <1>6, <1>7, <1>15, <2>2 DEF UnderWay
    <3>2. QED
      BY <1>1, <1>9, <3>1 DEF WritersAreRight, Trimmed
  <2>3. QED
    BY <2>1, <2>2
<1>16. ASSUME NEW v \in GateWriters, UnderWay(v, Opening)',
              NEW u \in GateWriters \ {v}, gateWriter'[u].step = "read"
       PROVE  ~gateWriter'[u].calm
  <2>1. CASE v = w
    BY <1>6, <1>7, <1>16, <2>1 DEF UnderWay
  <2>2. CASE v # w /\ u = w
    <3>1. UnderWay(v, Opening)
      BY <1>7, <1>16, <2>2 DEF UnderWay
    <3>2. ~calm
      BY <3>1 DEF UnderWay, WritersUnderWay
    <3>3. QED
      BY <1>6, <2>2, <3>2
  <2>3. CASE v # w /\ u # w
    <3>1. UnderWay(v, Opening) /\ gateWriter[u].step = "read"
      BY <1>7, <1>16, <2>3 DEF UnderWay
    <3>2. QED
      BY <1>1, <1>7, <2>3, <3>1 DEF WritersAreRight
  <2>4. QED
    BY <2>1, <2>2, <2>3
<1>17. WritersAreRight'
  BY <1>14, <1>15, <1>16 DEF WritersAreRight
<1>18. QED
  BY <1>11, <1>13, <1>17 DEF GateInv

LEMMA DoneType ==
  /\ Writer("done") \in WriteRequest /\ Writer("idle") \in WriteRequest
  /\ Writer("done").step = "done" /\ Writer("idle").step = "idle"
<1>1. ASSUME NEW step \in {"idle", "done"}
      PROVE  [step |-> step, kind |-> "grant", reason |-> "other", row |-> NoRow,
              seen |-> "none", subscribed |-> FALSE, at |-> 0, calm |-> TRUE] \in WriteRequest
  BY DEF WriteRequest, WriteKinds, Reasons
<1>2. Writer("done") \in WriteRequest /\ Writer("idle") \in WriteRequest
  BY <1>1 DEF Writer
<1>3. Writer("done").step = "done" /\ Writer("idle").step = "idle"
  BY DEF Writer
<1>4. QED
  BY <1>2, <1>3

\* A suppression that is rewritten stays one.
LEMMA WordsStay ==
  ASSUME GateInv, NEW w \in GateWriters, gateWriter[w].step = "read", gateWriter[w].row # NoRow
  PROVE  Reworded(w) \in Reasons
<1>1. gateWriter[w] \in WriteRequest /\ gateWriter[w].seen # "none"
  BY DEF GateInv, GateTypeOK, WritersAreRight
<1>2. gateWriter[w].seen \in Reasons /\ gateWriter[w].reason \in Reasons
  BY <1>1 DEF WriteRequest
<1>3. Unsubscribed(gateWriter[w].seen) \in Reasons /\ "bounced" \in Reasons
  BY <1>2 DEF Unsubscribed, Reasons
<1>4. QED
  BY <1>1, <1>2, <1>3 DEF Reworded, WriteRequest, WriteKinds

\* Only a deletion takes a suppression away, and whoever else answers about
\* suppressions leaves one.
LEMMA ListingStep ==
  ASSUME GateInv, NEW w \in GateWriters, gateWriter[w].step = "read",
         gateWriter[w].row # NoRow => listed[gateWriter[w].row] # "none",
         WritesListing(w)
  PROVE  /\ listed' \in [SuppressionRows -> Reasons \union {"none"}]
         /\ gateWriter[w].kind # "delete" => ListedRows \subseteq ListedRows'
         /\ gateWriter[w].kind \in {"unsubscribe", "bounce", "upsert", "revoke"} => ListedRows' # {}
<1> DEFINE me == gateWriter[w]
<1>1. /\ me \in WriteRequest /\ listed \in [SuppressionRows -> Reasons \union {"none"}]
      /\ "none" \notin Reasons
      /\ me.row \in SuppressionRows \union {NoRow} /\ me.kind \in WriteKinds
  BY DEF GateInv, GateTypeOK, Reasons, WriteRequest
<1>2. me.kind = "delete" => me.row # NoRow
  BY DEF GateInv, WritersAreRight, UnderWay
<1>3. CASE me.kind \notin Listing
  BY <1>1, <1>3 DEF WritesListing, ListedRows
<1>4. CASE me.kind \in Listing /\ me.row = NoRow
  <2>1. PICK r \in SuppressionRows \ ListedRows : listed' = [listed EXCEPT ![r] = NewReason(w)]
    BY <1>4 DEF WritesListing
  <2>2. NewReason(w) \in Reasons
    <3>1. me.kind \in {"unsubscribe", "bounce", "upsert", "revoke"}
      BY <1>1, <1>2, <1>4 DEF WriteKinds
    <3>2. Unsubscribed(me.seen) \in Reasons
      <4>1. me.seen \in KeptReasons => me.seen \in Reasons
        BY DEF KeptReasons, Reasons
      <4>2. QED
        BY <4>1 DEF Unsubscribed, Reasons
    <3>3. me.reason \in Reasons /\ "bounced" \in Reasons /\ "revoked" \in Reasons
      BY <1>1 DEF WriteRequest, Reasons
    <3>4. QED
      BY <3>1, <3>2, <3>3 DEF NewReason, Reworded
  <2>3. /\ listed' \in [SuppressionRows -> Reasons \union {"none"}]
        /\ listed'[r] # "none"
        /\ \A x \in SuppressionRows : x # r => listed'[x] = listed[x]
    BY <1>1, <2>1, <2>2
  <2>4. QED
    BY <2>3 DEF ListedRows
<1>5. CASE me.kind \in Listing /\ me.row # NoRow /\ me.kind = "delete"
  <2>1. listed' = [listed EXCEPT ![me.row] = "none"]
    BY <1>5 DEF WritesListing
  <2>2. QED
    BY <1>1, <1>5, <2>1
<1>6. CASE me.kind \in Listing /\ me.row # NoRow /\ me.kind # "delete"
  <2>1. me.row \in SuppressionRows /\ me.row \in ListedRows
    BY <1>1, <1>6 DEF ListedRows
  <2>2. listed' = [listed EXCEPT ![me.row] = Reworded(w)] \/ listed' = listed
    BY <1>6 DEF WritesListing
  <2>3. Reworded(w) \in Reasons
    BY <1>6, WordsStay
  <2>4. /\ listed' \in [SuppressionRows -> Reasons \union {"none"}]
        /\ listed'[me.row] # "none"
        /\ \A x \in SuppressionRows : x # me.row => listed'[x] = listed[x]
    BY <1>1, <2>1, <2>2, <2>3 DEF ListedRows
  <2>5. QED
    BY <2>1, <2>4 DEF ListedRows
<1>7. QED
  BY <1>3, <1>4, <1>5, <1>6

\* A request that is not a grant never turns the preference on; a calm
\* revocation leaves it off.
LEMMA ConsentStep ==
  ASSUME GateInv, NEW w \in GateWriters, gateWriter[w].step = "read", WritesConsent(w)
  PROVE  /\ consent' \in [subscribed : BOOLEAN, latest : Consents, at : Nat]
         /\ gateWriter[w].kind \notin Giving => (~consent.subscribed => ~consent'.subscribed)
         /\ gateWriter[w].kind \in Taking /\ gateWriter[w].calm => ~consent'.subscribed
<1> DEFINE me == gateWriter[w]
<1>1. /\ me \in WriteRequest
      /\ consent \in [subscribed : BOOLEAN, latest : Consents, at : Nat]
  BY DEF GateInv, GateTypeOK
<1>2. CASE me.kind \notin Giving \union Taking
  BY <1>1, <1>2 DEF WritesConsent
<1>3. CASE me.kind \in Giving \union Taking
  <2>1. PICK gives \in BOOLEAN : gives = (me.kind \in Giving)
    <3>1. CASE me.kind \in Giving
      <4>1. TRUE = (me.kind \in Giving)
        BY <3>1, Zenon
      <4>2. QED
        BY <4>1, TRUE \in BOOLEAN, Zenon
    <3>2. CASE me.kind \notin Giving
      <4>1. FALSE = (me.kind \in Giving)
        BY <3>2, SMT
      <4>2. QED
        BY <4>1, FALSE \in BOOLEAN, Zenon
    <3>3. QED
      BY <3>1, <3>2, Zenon
  <2>2. PICK subscribed \in BOOLEAN :
          subscribed = IF me.subscribed # gives THEN gives ELSE consent.subscribed
    BY <1>1
  <2>0. PICK later \in BOOLEAN :
          later <=> (me.kind \in {"grant", "revoke", "pending"} /\ me.at >= consent.at)
    <3>1. CASE me.kind \in {"grant", "revoke", "pending"} /\ me.at >= consent.at
      BY <3>1, TRUE \in BOOLEAN
    <3>2. CASE ~(me.kind \in {"grant", "revoke", "pending"} /\ me.at >= consent.at)
      BY <3>2, FALSE \in BOOLEAN
    <3>3. QED
      BY <3>1, <3>2
  <2>3. PICK latest \in Consents : latest = IF later THEN ConsentOf(me.kind) ELSE consent.latest
    BY <1>1 DEF ConsentOf, Consents
  <2>4. PICK at \in Nat : at = IF later THEN me.at ELSE consent.at
    BY <1>1 DEF WriteRequest
  <2>5. consent' = [subscribed |-> subscribed, latest |-> latest, at |-> at]
    BY <1>3, <2>0, <2>1, <2>2, <2>3, <2>4 DEF WritesConsent
  <2>6. consent' \in [subscribed : BOOLEAN, latest : Consents, at : Nat]
          /\ consent'.subscribed = subscribed
    BY <2>5
  <2>7. me.kind \notin Giving => (~consent.subscribed => ~subscribed)
    BY <2>1, <2>2
  <2>8. me.kind \in Taking /\ me.calm => ~subscribed
    <3> SUFFICES ASSUME me.kind \in Taking, me.calm PROVE ~subscribed
      OBVIOUS
    <3>1. ~me.subscribed => ~consent.subscribed
      BY DEF GateInv, WritersAreRight, UnderWay
    <3>2. ~gives /\ me.subscribed \in BOOLEAN
      BY <1>1, <2>1 DEF WriteRequest
    <3>3. QED
      BY <2>2, <3>1, <3>2
  <2>9. QED
    BY <2>6, <2>7, <2>8
<1>4. QED
  BY <1>2, <1>3

\* The writers, after one of them is done.
LEMMA WritersGoOn ==
  ASSUME GateInv, NEW w \in GateWriters, gateWriter[w].step = "read",
         gateWriter' = [gateWriter EXCEPT ![w] = Writer("done")],
         gateWriter[w].kind \notin Giving => (~consent.subscribed => ~consent'.subscribed),
         NEW gone, Trimmed(gone),
         "consent" \in closed' =>
             "consent" \in closed \/ (gateWriter[w].kind \in Taking /\ gateWriter[w].calm)
  PROVE  gateWriter' \in [GateWriters -> WriteRequest] /\ WritersAreRight'
<1>1. /\ gateWriter' \in [GateWriters -> WriteRequest]
      /\ gateWriter'[w].step = "done"
      /\ \A v \in GateWriters : v # w => gateWriter'[v] = gateWriter[v]
  BY DoneType DEF GateInv, GateTypeOK
<1>2. ASSUME NEW v \in GateWriters, gateWriter'[v].step = "read"
      PROVE  v # w /\ gateWriter'[v] = gateWriter[v]
  BY <1>1, <1>2
<1>3. WritersAreRight
  BY DEF GateInv
<1>4. ASSUME NEW v \in GateWriters, UnderWay(v, Giving)' PROVE
        /\ "consent" \notin closed'
        /\ \A q \in GateSenders : gateSender'[q].step = "begun" => "consent" \notin gateSender'[q].barred
  <2>1. v # w /\ UnderWay(v, Giving) /\ UnderWay(v, Opening)
    BY <1>2, <1>4 DEF UnderWay
  <2>2. ~gateWriter[w].calm
    BY <1>3, <2>1 DEF WritersAreRight
  <2>3. QED
    BY <1>3, <2>1, <2>2 DEF WritersAreRight, Trimmed
<1>5. ASSUME NEW v \in GateWriters, UnderWay(v, Taking)', gateWriter'[v].calm,
             ~gateWriter'[v].subscribed
      PROVE  ~consent'.subscribed
  <2>1. v # w /\ gateWriter'[v] = gateWriter[v] /\ UnderWay(v, Taking) /\ gateWriter[v].calm
    BY <1>2, <1>5 DEF UnderWay
  <2>2. ~consent.subscribed /\ gateWriter[v].step = "read"
    BY <1>3, <1>5, <2>1 DEF WritersAreRight, UnderWay
  <2>3. gateWriter[w].kind \notin Giving
    BY <1>3, <2>1, <2>2 DEF WritersAreRight, UnderWay
  <2>4. QED
    BY <2>2, <2>3
<1>6. ASSUME NEW v \in GateWriters PROVE
        /\ gateWriter'[v].step = "read" /\ gateWriter'[v].row # NoRow => gateWriter'[v].seen # "none"
        /\ UnderWay(v, {"delete"})' => gateWriter'[v].row # NoRow
        /\ UnderWay(v, Opening)' =>
              \A u \in GateWriters \ {v} : gateWriter'[u].step = "read" => ~gateWriter'[u].calm
        /\ UnderWay(v, {"upsert"})' => gateWriter'[v].reason \in GivenReasons
  BY <1>2, <1>3 DEF WritersAreRight, UnderWay
<1>7. QED
  BY <1>1, <1>4, <1>5, <1>6 DEF WritersAreRight

LEMMA CommitStep ==
  ASSUME GateInv, NEW w \in GateWriters, WriterCommits(w)
  PROVE  GateInv'
<1> DEFINE me == gateWriter[w]
<1>1. /\ me \in WriteRequest /\ me.step = "read" /\ me.kind \in WriteKinds
      /\ me.row # NoRow => listed[me.row] # "none"
      /\ WritesListing(w) /\ WritesConsent(w)
      /\ gateWriter' = [gateWriter EXCEPT ![w] = Writer("done")]
      /\ UNCHANGED <<tenant, sent, controls>> /\ GateTypeOK
  BY DEF WriterCommits, GateInv, GateTypeOK, WriteRequest
<1>2. /\ listed' \in [SuppressionRows -> Reasons \union {"none"}]
      /\ me.kind # "delete" => ListedRows \subseteq ListedRows'
      /\ me.kind \in {"unsubscribe", "bounce", "upsert", "revoke"} => ListedRows' # {}
  BY <1>1, ListingStep
<1>3. /\ consent' \in [subscribed : BOOLEAN, latest : Consents, at : Nat]
      /\ me.kind \notin Giving => (~consent.subscribed => ~consent'.subscribed)
      /\ me.kind \in Taking /\ me.calm => ~consent'.subscribed
  BY <1>1, ConsentStep
<1>4. PICK gone \in SUBSET Bars, new \in SUBSET {"optOut", "consent", "bounce"} :
        /\ Trimmed(gone) /\ closed' = (closed \ gone) \union new
        /\ me.kind = "delete" => gone = {"optOut", "bounce"}
        /\ "optOut" \in new => me.kind \in {"unsubscribe", "revoke"}
        /\ "consent" \in new => me.kind \in Taking /\ me.calm
  <2>1. CASE me.kind \in {"delete", "upsert"}
    <3>1. PICK gone \in {{"optOut", "bounce"}, {"bounce"}} :
            Lifted(gone) /\ (me.kind = "delete" => gone = {"optOut", "bounce"})
      BY <2>1 DEF WriterCommits
    <3>2. gone \in SUBSET Bars
      BY DEF Bars
    <3>3. Trimmed(gone) /\ closed' = (closed \ gone) \union {}
      BY <1>1, <3>1, <3>2, LiftedTrims
    <3>4. PICK none \in SUBSET {"optOut", "consent", "bounce"} : none = {}
      OBVIOUS
    <3>5. closed' = (closed \ gone) \union none
      BY <3>3, <3>4
    <3> HIDE DEF me
    <3>6. QED
      BY <3>1, <3>2, <3>3, <3>4, <3>5
  <2>2. CASE me.kind \notin {"delete", "upsert"}
    <3> DEFINE new == (IF me.calm /\ me.kind \in {"unsubscribe", "revoke"} THEN {"optOut"} ELSE {})
                 \union (IF me.calm /\ me.kind \in Taking THEN {"consent"} ELSE {})
                 \union (IF me.calm /\ me.kind = "bounce" THEN {"bounce"} ELSE {})
    <3>1. closed' = (closed \ {}) \union new /\ UNCHANGED gateSender
      BY <2>2 DEF WriterCommits
    <3>2. /\ new \in SUBSET {"optOut", "consent", "bounce"}
          /\ "optOut" \in new => me.kind \in {"unsubscribe", "revoke"}
          /\ "consent" \in new => me.kind \in Taking /\ me.calm
      OBVIOUS
    <3> HIDE DEF new
    <3>3. Trimmed({}) /\ {} \in SUBSET Bars
      BY <1>1, <3>1, SameTrims
    <3>4. QED
      BY <2>2, <3>1, <3>2, <3>3
  <2>3. QED
    BY <2>1, <2>2
<1>5. gateWriter' \in [GateWriters -> WriteRequest] /\ WritersAreRight'
  BY <1>1, <1>3, <1>4, WritersGoOn
<1>6. GateTypeOK'
  BY <1>1, <1>2, <1>3, <1>4, <1>5 DEF GateTypeOK, Trimmed, Bars
<1>7. \A b \in new : Shut(b)'
  BY <1>2, <1>3, <1>4 DEF Shut
<1>8. \A b \in Bars \ gone : (Shut(b) => Shut(b)') \/ Moot(b)
  <2>1. me.kind \in Giving => Moot("consent")
    BY <1>1 DEF GateInv, WritersAreRight, Moot, UnderWay
  <2>2. "optOut" \notin gone => (Shut("optOut") => Shut("optOut")')
    BY <1>2, <1>4 DEF Shut
  <2>3. (Shut("consent") => Shut("consent")') \/ Moot("consent")
    BY <1>3, <2>1 DEF Shut
  <2>4. \A b \in Bars \ {"optOut", "consent"} : Shut(b) => Shut(b)'
    BY <1>1 DEF Shut, Bars
  <2>5. QED
    BY <2>2, <2>3, <2>4
<1>9. ClosedIsShut' /\ SendersAreBound'
  <2>1. new \in SUBSET (Bars \ {"quota"})
    BY DEF Bars
  <2>2. QED
    BY <1>4, <1>7, <1>8, <2>1, GatesHold
<1>10. QED
  BY <1>5, <1>6, <1>9 DEF GateInv

LEMMA LossStep ==
  ASSUME GateInv, NEW w \in GateWriters, WriterLosesRow(w)
  PROVE  GateInv'
<1> DEFINE me == gateWriter[w]
<1>1. /\ me \in WriteRequest /\ me.step = "read"
      /\ WritesConsent(w) \/ UNCHANGED consent
      /\ gateWriter' = [gateWriter EXCEPT ![w] = Writer("done")]
      /\ UNCHANGED <<listed, tenant, sent, controls, gateSender, closed>> /\ GateTypeOK
  BY DEF WriterLosesRow, GateInv, GateTypeOK
<1>2. /\ consent' \in [subscribed : BOOLEAN, latest : Consents, at : Nat]
      /\ me.kind \notin Giving => (~consent.subscribed => ~consent'.subscribed)
  BY <1>1, ConsentStep DEF GateTypeOK
<1>3. Trimmed({})
  BY <1>1, SameTrims
<1>4. gateWriter' \in [GateWriters -> WriteRequest] /\ WritersAreRight'
  BY <1>1, <1>2, <1>3, WritersGoOn
<1>5. GateTypeOK'
  BY <1>1, <1>2, <1>4 DEF GateTypeOK
<1>6. \A b \in Bars \ {} : (Shut(b) => Shut(b)') \/ Moot(b)
  <2>1. me.kind \in Giving => Moot("consent")
    BY <1>1 DEF GateInv, WritersAreRight, Moot, UnderWay
  <2>2. (Shut("consent") => Shut("consent")') \/ Moot("consent")
    BY <1>2, <2>1 DEF Shut
  <2>3. \A b \in Bars \ {"consent"} : Shut(b) => Shut(b)'
    BY <1>1 DEF Shut, Bars, ListedRows
  <2>4. QED
    BY <2>2, <2>3
<1>7. ClosedIsShut' /\ SendersAreBound'
  <2>1. {} \in SUBSET (Bars \ {"quota"}) /\ \A b \in {} : Shut(b)'
    OBVIOUS
  <2>2. closed' = (closed \ {}) \union {}
    BY <1>1
  <2>3. QED
    BY <1>3, <1>6, <2>1, <2>2, GatesHold
<1>8. QED
  BY <1>4, <1>5, <1>7 DEF GateInv

-------------------------------------------------------------------------------
(* The whole step. *)

LEMMA GateStep ==
  ASSUME GateInv, [GateNext]_gateVars
  PROVE  GateInv'
<1>1. CASE UNCHANGED gateVars
  <2>1. UNCHANGED <<listed, consent, tenant, sent, controls, gateWriter, gateSender, closed>>
    BY <1>1 DEF gateVars
  <2>2. GateTypeOK' /\ \A b : Shut(b)' = Shut(b)
    BY <2>1 DEF GateInv, GateTypeOK, Shut, ListedRows
  <2>3. ClosedIsShut' /\ SendersAreBound'
    BY <2>1, <2>2 DEF GateInv, ClosedIsShut, SendersAreBound, Binds
  <2>4. WritersAreRight'
    <3>1. GateInv /\ UNCHANGED <<gateWriter, consent>> /\ closed' = closed /\ gateSender' = gateSender
      BY <2>1
    <3>2. QED
      BY <3>1, WritersRest DEF Moot
  <2>5. QED
    BY <2>2, <2>3, <2>4 DEF GateInv
<1>2. ASSUME NEW w \in GateWriters,
             \/ WriterCommits(w) \/ WriterLosesRow(w)
             \/ \E kind \in WriteKinds \ {"upsert"} : WriterReads(w, kind, "other")
             \/ \E reason \in GivenReasons : WriterReads(w, "upsert", reason)
      PROVE  GateInv'
  <2>1. "other" \in GivenReasons /\ "upsert" \in WriteKinds
    BY DEF GivenReasons, WriteKinds
  <2>2. QED
    BY <1>2, <2>1, CommitStep, LossStep, WriterReadStep
<1>3. ASSUME NEW q \in GateSenders,
             \/ SenderIsChecked(q) \/ SenderIsAdmitted(q)
             \/ \E stream \in {"marketing", "transactional"}, path \in {"api", "provider"} :
                   SenderBegins(q, stream, path)
      PROVE  GateInv'
  BY <1>3, CheckStep, AdmitStep, BeginStep
<1>4. QED
  BY <1>1, <1>2, <1>3, ControlsKeep DEF GateNext

LEMMA GateBegins == GateInit => GateInv
<1> SUFFICES ASSUME GateInit PROVE GateInv
  OBVIOUS
<1>1. \A q \in GateSenders : gateSender[q].step = "idle"
  BY DEF GateInit, Sender
<1>2. \A w \in GateWriters : gateWriter[w] \in WriteRequest /\ gateWriter[w].step = "idle"
  BY DoneType DEF GateInit
<1>3. Sender("idle") \in SendRequest
  <2>1. {} \in SUBSET Bars
    OBVIOUS
  <2>2. [step |-> "idle", stream |-> "transactional", path |-> "api",
         enabled |-> TRUE, barred |-> {}] \in SendRequest
    BY <2>1 DEF SendRequest
  <2>3. QED
    BY <2>2 DEF Sender
<1>4. gateSender \in [GateSenders -> SendRequest] /\ gateWriter \in [GateWriters -> WriteRequest]
  BY <1>3, DoneType DEF GateInit
<1>5. "granted" \in Consents
  BY DEF Consents
<1>6. consent \in [subscribed : BOOLEAN, latest : Consents, at : Nat]
  BY <1>5 DEF GateInit
<1>7. GateTypeOK
  BY <1>4, <1>6, GateAssumption DEF GateInit, GateTypeOK
<1>8. QED
  BY <1>1, <1>2, <1>7 DEF GateInit, GateInv, ClosedIsShut, SendersAreBound, WritersAreRight, UnderWay

LEMMA GateInvariant == GateSpec => []GateInv
<1>1. GateInv /\ [GateNext]_gateVars => GateInv'
  BY GateStep
<1>2. QED
  BY GateBegins, <1>1, PTL DEF GateSpec

\* What was closed and answered binds every request to send that begins later,
\* however many requests change the suppressions and the consents meanwhile and
\* however many rows one address has.
THEOREM ClosedGatesBindAlways == GateSpec => []ClosedGatesBind
<1>1. GateInv => ClosedGatesBind
  BY DEF GateInv, SendersAreBound, ClosedGatesBind
<1>2. QED
  BY GateInvariant, <1>1, PTL

HIDE DEF Giving, Taking, Opening, Listing
===============================================================================
