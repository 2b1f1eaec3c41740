-------------------------- MODULE EmailDeliveryProofs --------------------------
(***************************************************************************)
(* Proofs about EmailDelivery, for any messages, workers, limits and       *)
(* bounds: types, that doubt never causes a second sending, that what a    *)
(* row says of its message is so, and that settled rows stay settled.      *)
(***************************************************************************)
EXTENDS EmailDelivery, FiniteSetTheorems, TLAPS

-------------------------------------------------------------------------------
(* Types. *)

LEMMA IdleWorkerType == IdleWorker \in Worker
  BY DEF IdleWorker, Worker

\* What one transaction writes to a row keeps it a row.
LEMMA RowWriteType ==
  ASSUME TypeOK, NEW m \in Messages, NEW state \in OutboxStates,
         NEW attempts \in Nat, NEW due \in BOOLEAN, NEW stale \in BOOLEAN
  PROVE  [outbox EXCEPT ![m].state = state, ![m].attempts = attempts,
                        ![m].due = due, ![m].stale = stale] \in [Messages -> OutboxRow]
<1> DEFINE written == [outbox[m] EXCEPT !.state = state, !.attempts = attempts,
                                        !.due = due, !.stale = stale]
<1>1. written \in OutboxRow
  BY DEF TypeOK, OutboxRow
<1>2. [outbox EXCEPT ![m].state = state, ![m].attempts = attempts,
                     ![m].due = due, ![m].stale = stale] = [outbox EXCEPT ![m] = written]
  OBVIOUS
<1> HIDE DEF written
<1>3. QED
  BY <1>1, <1>2 DEF TypeOK

LEMMA OutcomeType ==
  ASSUME NEW m, NEW result \in {"ok", "ambiguous", "definite"}
  PROVE  /\ Outcome(m, result)[1] \in {"delivered", "INDETERMINATE", "failed", "retry"}
         /\ Outcome(m, result)[2] \in Statuses
         /\ result = "ok" <=> Outcome(m, result)[1] = "delivered"
         /\ Outcome(m, result)[1] \in {"failed", "retry"} => result = "definite"
  BY DEF Outcome, Ambiguous, Statuses, Reports

\* The message of a busy worker is a message.
Busy(w) == worker[w].step # "idle"
BusyHasMessage == \A w \in Workers : Busy(w) => worker[w].message \in Messages

LEMMA ReportingWrites ==
  ASSUME TypeOK, NEW w \in Workers, NEW result \in {"ok", "ambiguous", "definite"},
         Reporting(w, result)
  PROVE  /\ worker' \in [Workers -> Worker]
         /\ worker'[w].step = "reporting"
         /\ worker'[w].message = worker[w].message
         /\ worker'[w].result = result
         /\ \A v \in Workers \ {w} : worker'[v] = worker[v]
  BY DEF TypeOK, Reporting, Worker

LEMMA StepType ==
  ASSUME TypeOK, BusyHasMessage, [Next]_vars
  PROVE  TypeOK'
<1> USE DEF TypeOK
<1>1. ASSUME NEW m \in Messages, BecomeDue(m) PROVE TypeOK'
  BY <1>1 DEF BecomeDue, OutboxRow
<1>2. ASSUME NEW m \in Messages, BecomeStale(m) PROVE TypeOK'
  BY <1>2 DEF BecomeStale, OutboxRow
<1>3. ASSUME NEW m \in Messages, Send(m) PROVE TypeOK'
  BY <1>3 DEF Send, OutboxRow, OutboxStates, Gate, Statuses
<1>4. ASSUME NEW m \in Messages, Cancel(m) PROVE TypeOK'
  BY <1>4 DEF Cancel, Cancelled, OutboxRow, OutboxStates, Statuses
<1>5. ASSUME NEW m \in Messages, NEW report \in Reports, Callback(m, report) PROVE TypeOK'
  BY <1>5 DEF Callback, Statuses
<1>6. ASSUME NEW w \in Workers, Abandon(w) PROVE TypeOK'
  BY <1>6 DEF Abandon, Abandoned, OutboxRow, OutboxStates, Statuses
<1>7. ASSUME NEW w \in Workers, NEW m \in Messages, Quarantine(w, m) PROVE TypeOK'
  BY <1>7 DEF Quarantine, OutboxRow, OutboxStates, Statuses
<1>8. ASSUME NEW w \in Workers, NEW m \in Messages, Claim(w, m) PROVE TypeOK'
  <2>1. outbox' \in [Messages -> OutboxRow] /\ status' \in [Messages -> Statuses]
    BY <1>8 DEF Claim, OutboxRow, OutboxStates, Statuses
  <2>2. gate' \in Gate
    BY <1>8 DEF Claim, ClaimedDeliveries, Gate
  <2>3. worker' \in [Workers -> Worker]
    BY <1>8 DEF Claim, Worker
  <2>4. QED
    BY <1>8, <2>1, <2>2, <2>3 DEF Claim
<1>9. ASSUME NEW w \in Workers, NEW m \in Messages, CancelDuringClaim(w, m) PROVE TypeOK'
  BY <1>9 DEF CancelDuringClaim, Cancelled, OutboxRow, OutboxStates, Statuses, Worker, Count
<1>10. ASSUME NEW w \in Workers, PostAccepted(w) PROVE TypeOK'
  <2>1. worker[w].message \in Messages
    BY <1>10 DEF PostAccepted, BusyHasMessage, Busy
  <2>2. accepted' \in [Messages -> Nat]
    BY <1>10, <2>1 DEF PostAccepted
  <2>3. worker' \in [Workers -> Worker]
    BY <1>10, ReportingWrites DEF PostAccepted
  <2>4. QED
    BY <1>10, <2>2, <2>3 DEF PostAccepted
<1>11. ASSUME NEW w \in Workers, PostUnrecorded(w) PROVE TypeOK'
  <2>1. worker[w].message \in Messages
    BY <1>11 DEF PostUnrecorded, BusyHasMessage, Busy
  <2>2. accepted' \in [Messages -> Nat] /\ unrecorded' \in [Messages -> Nat]
    BY <1>11, <2>1 DEF PostUnrecorded
  <2>3. worker' \in [Workers -> Worker]
    BY <1>11, ReportingWrites DEF PostUnrecorded
  <2>4. QED
    BY <1>11, <2>2, <2>3 DEF PostUnrecorded
<1>12. ASSUME NEW w \in Workers, PostFailed(w) \/ PostMisread(w) PROVE TypeOK'
  <2>1. CASE PostFailed(w)
    BY <2>1, ReportingWrites DEF PostFailed
  <2>2. CASE PostMisread(w)
    <3>1. worker[w].message \in Messages
      BY <2>2 DEF PostMisread, BusyHasMessage, Busy
    <3>2. misread' \in SUBSET Messages
      BY <2>2, <3>1 DEF PostMisread
    <3>3. worker' \in [Workers -> Worker]
      BY <2>2, ReportingWrites DEF PostMisread
    <3>4. QED
      BY <2>2, <3>2, <3>3 DEF PostMisread
  <2>3. QED
    BY <1>12, <2>1, <2>2
<1>13. ASSUME NEW w \in Workers, Record(w) PROVE TypeOK'
  <2> DEFINE m == worker[w].message
             outcome == Outcome(m, worker[w].result)
  <2>1. m \in Messages /\ worker[w].result \in {"ok", "ambiguous", "definite"}
    BY <1>13 DEF Record, BusyHasMessage, Busy, Worker
  <2>2. outcome[1] \in OutboxStates /\ outcome[2] \in Statuses
    BY <2>1, OutcomeType DEF OutboxStates
  <2> HIDE DEF m, outcome
  <2>3. /\ outbox' = [outbox EXCEPT ![m].state = outcome[1], ![m].due = FALSE, ![m].stale = FALSE]
        /\ status' = [status EXCEPT ![m] = outcome[2]]
        /\ worker' = [worker EXCEPT ![w] = IdleWorker]
        /\ UNCHANGED <<gate, accepted, unrecorded, misread, count>>
    BY <1>13 DEF Record, m, outcome
  <2>4. [outbox[m] EXCEPT !.state = outcome[1], !.due = FALSE, !.stale = FALSE] \in OutboxRow
    BY <2>1, <2>2 DEF OutboxRow
  <2>5. outbox' = [outbox EXCEPT ![m] = [outbox[m] EXCEPT !.state = outcome[1], !.due = FALSE,
                                                         !.stale = FALSE]]
    BY <2>3
  <2>6. outbox' \in [Messages -> OutboxRow]
    BY <2>4, <2>5
  <2>7. status' \in [Messages -> Statuses] /\ worker' \in [Workers -> Worker]
    BY <2>2, <2>3, IdleWorkerType
  <2>8. QED
    BY <2>3, <2>6, <2>7
<1>14. ASSUME NEW w \in Workers, Crash(w) PROVE TypeOK'
  BY <1>14, IdleWorkerType DEF Crash, Count
<1>15. CASE UNCHANGED vars
  BY <1>15 DEF vars
<1>16. QED
  BY <1>1, <1>2, <1>3, <1>4, <1>5, <1>6, <1>7, <1>8, <1>9, <1>10, <1>11, <1>12, <1>13, <1>14,
     <1>15 DEF Next, Time, Environment, Pass

-------------------------------------------------------------------------------
(* What a step does to the rows, the workers and the acceptances. *)

OthersKeep(w) == \A v \in Workers \ {w} : worker'[v] = worker[v]
OtherRowsKeep(m) == \A n \in Messages \ {m} : outbox'[n].state = outbox[n].state
NothingAccepted == accepted' = accepted /\ unrecorded' = unrecorded /\ misread' = misread

\* Rows change without a worker that holds them.
RowsMove ==
  /\ worker' = worker /\ NothingAccepted
  /\ \A n \in Messages :
       \/ outbox'[n].state = outbox[n].state
       \/ outbox[n].state = "none" /\ outbox'[n].state = "pending"
       \/ /\ outbox[n].state \in {"pending", "retry"}
          /\ outbox'[n].state \in {"cancelled", "quarantined"}
       \/ outbox[n].state = "sending" /\ outbox'[n].state = "INDETERMINATE"

\* A worker takes a waiting message in hand.
TakesUp(w, m) ==
  /\ ~Busy(w)
  /\ worker'[w].step # "idle" /\ worker'[w].message = m /\ worker'[w].result = "definite"
  /\ OthersKeep(w)
  /\ outbox[m].state \in {"pending", "retry"}
  /\ outbox'[m].state \in {"sending", "cancelled"}
  /\ outbox'[m].state = "cancelled" => worker'[w].step = "reporting"
  /\ OtherRowsKeep(m)
  /\ NothingAccepted

\* A worker learns, or does not learn, what Postal did.
Posts(w, m) ==
  /\ worker[w].step = "posting" /\ worker[w].message = m
  /\ worker'[w].step = "reporting" /\ worker'[w].message = m
  /\ OthersKeep(w)
  /\ outbox' = outbox
  /\ \A n \in Messages \ {m} :
       accepted'[n] = accepted[n] /\ unrecorded'[n] = unrecorded[n]
  /\ misread \subseteq misread'
  /\ \/ /\ accepted'[m] = accepted[m] /\ unrecorded'[m] = unrecorded[m]
        /\ worker'[w].result = "ok" => m \in misread'
     \/ /\ accepted'[m] = accepted[m] + 1 /\ unrecorded'[m] = unrecorded[m]
        /\ worker'[w].result # "definite"
     \/ /\ accepted'[m] = accepted[m] + 1 /\ unrecorded'[m] = unrecorded[m] + 1
        /\ worker'[w].result = "definite"

\* A worker writes down what it knows of a message.
WritesDown(w, m) ==
  /\ worker[w].step = "reporting" /\ worker[w].message = m
  /\ ~Busy(w)' /\ OthersKeep(w)
  /\ outbox'[m].state \in {"delivered", "INDETERMINATE", "failed", "retry"}
  /\ outbox'[m].state = "delivered" => worker[w].result = "ok"
  /\ outbox'[m].state \in {"failed", "retry"} => worker[w].result = "definite"
  /\ OtherRowsKeep(m)
  /\ NothingAccepted

Dies(w) == ~Busy(w)' /\ OthersKeep(w) /\ outbox' = outbox /\ NothingAccepted

LEMMA StepShape ==
  ASSUME TypeOK, BusyHasMessage, [Next]_vars
  PROVE  \/ RowsMove
         \/ \E w \in Workers, m \in Messages : TakesUp(w, m) \/ Posts(w, m) \/ WritesDown(w, m)
         \/ \E w \in Workers : Dies(w)
<1> USE DEF TypeOK
<1>1. ASSUME NEW m \in Messages, BecomeDue(m) \/ BecomeStale(m) PROVE RowsMove
  BY <1>1 DEF BecomeDue, BecomeStale, RowsMove, NothingAccepted, OutboxRow
<1>2. ASSUME NEW m \in Messages, Send(m) PROVE RowsMove
  BY <1>2 DEF Send, RowsMove, NothingAccepted, OutboxRow
<1>3. ASSUME NEW m \in Messages, Cancel(m) PROVE RowsMove
  BY <1>3 DEF Cancel, Cancelled, Cancellable, RowsMove, NothingAccepted, OutboxRow
<1>4. ASSUME NEW m \in Messages, NEW report \in Reports, Callback(m, report) PROVE RowsMove
  BY <1>4 DEF Callback, RowsMove, NothingAccepted
<1>5. ASSUME NEW w \in Workers, Abandon(w) PROVE RowsMove
  BY <1>5 DEF Abandon, Abandoned, RowsMove, NothingAccepted, OutboxRow
<1>6. ASSUME NEW w \in Workers, NEW m \in Messages, Quarantine(w, m) PROVE RowsMove
  BY <1>6 DEF Quarantine, Taken, Waiting, RowsMove, NothingAccepted, OutboxRow
<1>7. ASSUME NEW w \in Workers, NEW m \in Messages, Claim(w, m) PROVE TakesUp(w, m)
  <2>1. ~Busy(w) /\ outbox[m].state \in {"pending", "retry"}
    BY <1>7 DEF Claim, Taken, Waiting, Busy
  <2>2. outbox'[m].state = "sending" /\ OtherRowsKeep(m)
    BY <1>7 DEF Claim, OtherRowsKeep, OutboxRow
  <2>3. /\ worker'[w] = [step |-> "posting", message |-> m, result |-> "definite"]
        /\ OthersKeep(w)
    BY <1>7 DEF Claim, OthersKeep, Worker
  <2>4. QED
    BY <1>7, <2>1, <2>2, <2>3 DEF Claim, TakesUp, NothingAccepted
<1>8. ASSUME NEW w \in Workers, NEW m \in Messages, CancelDuringClaim(w, m)
      PROVE TakesUp(w, m)
  <2>1. ~Busy(w) /\ outbox[m].state \in {"pending", "retry"}
    BY <1>8 DEF CancelDuringClaim, Taken, Waiting, Busy
  <2>2. outbox'[m].state = "cancelled" /\ OtherRowsKeep(m)
    BY <1>8 DEF CancelDuringClaim, Cancelled, OtherRowsKeep, OutboxRow
  <2>3. /\ worker'[w] = [step |-> "reporting", message |-> m, result |-> "definite"]
        /\ OthersKeep(w)
    BY <1>8 DEF CancelDuringClaim, OthersKeep, Worker
  <2>4. QED
    BY <1>8, <2>1, <2>2, <2>3 DEF CancelDuringClaim, TakesUp, NothingAccepted
<1>9. ASSUME NEW w \in Workers,
             PostAccepted(w) \/ PostUnrecorded(w) \/ PostMisread(w) \/ PostFailed(w)
      PROVE \E m \in Messages : Posts(w, m)
  <2> DEFINE m == worker[w].message
  <2>1. worker[w].step = "posting" /\ m \in Messages
    BY <1>9 DEF PostAccepted, PostUnrecorded, PostMisread, PostFailed, BusyHasMessage, Busy
  <2> HIDE DEF m
  <2>2. CASE PostAccepted(w)
    <3>1. PICK result \in {"ok", "ambiguous"} : Reporting(w, result)
      BY <2>2 DEF PostAccepted
    <3>2. worker'[w].step = "reporting" /\ worker'[w].message = m /\ OthersKeep(w)
          /\ worker'[w].result # "definite"
      BY <3>1, ReportingWrites DEF OthersKeep, m
    <3>3. /\ accepted'[m] = accepted[m] + 1
          /\ \A n \in Messages \ {m} : accepted'[n] = accepted[n]
          /\ outbox' = outbox /\ unrecorded' = unrecorded /\ misread' = misread
      BY <2>1, <2>2 DEF PostAccepted, m
    <3>4. QED
      BY <2>1, <3>2, <3>3 DEF Posts, m
  <2>3. CASE PostUnrecorded(w)
    <3>1. worker'[w].step = "reporting" /\ worker'[w].message = m /\ OthersKeep(w)
          /\ worker'[w].result = "definite"
      BY <2>3, ReportingWrites DEF PostUnrecorded, OthersKeep, m
    <3>2. /\ accepted'[m] = accepted[m] + 1 /\ unrecorded'[m] = unrecorded[m] + 1
          /\ \A n \in Messages \ {m} :
               accepted'[n] = accepted[n] /\ unrecorded'[n] = unrecorded[n]
          /\ outbox' = outbox /\ misread' = misread
      BY <2>1, <2>3 DEF PostUnrecorded, m
    <3>3. QED
      BY <2>1, <3>1, <3>2 DEF Posts, m
  <2>4. CASE PostFailed(w)
    <3>1. PICK result \in {"ambiguous", "definite"} : Reporting(w, result)
      BY <2>4 DEF PostFailed
    <3>2. worker'[w].step = "reporting" /\ worker'[w].message = m /\ OthersKeep(w)
          /\ worker'[w].result # "ok"
      BY <3>1, ReportingWrites DEF OthersKeep, m
    <3>3. QED
      BY <2>1, <2>4, <3>2 DEF PostFailed, Posts, m
  <2>5. CASE PostMisread(w)
    <3>1. worker'[w].step = "reporting" /\ worker'[w].message = m /\ OthersKeep(w)
      BY <2>5, ReportingWrites DEF PostMisread, OthersKeep, m
    <3>2. /\ m \in misread' /\ misread \subseteq misread'
          /\ outbox' = outbox /\ accepted' = accepted /\ unrecorded' = unrecorded
      BY <2>5 DEF PostMisread, m
    <3>3. QED
      BY <2>1, <3>1, <3>2 DEF Posts, m
  <2>6. QED
    BY <1>9, <2>2, <2>3, <2>4, <2>5
<1>10. ASSUME NEW w \in Workers, Record(w) PROVE \E m \in Messages : WritesDown(w, m)
  <2> DEFINE m == worker[w].message
             outcome == Outcome(m, worker[w].result)
  <2>1. m \in Messages /\ worker[w].result \in {"ok", "ambiguous", "definite"}
    BY <1>10 DEF Record, BusyHasMessage, Busy, Worker
  <2>2. /\ outcome[1] \in {"delivered", "INDETERMINATE", "failed", "retry"}
        /\ outcome[1] = "delivered" => worker[w].result = "ok"
        /\ outcome[1] \in {"failed", "retry"} => worker[w].result = "definite"
    BY <2>1, OutcomeType
  <2>3. /\ worker[w].step = "reporting"
        /\ outbox' = [outbox EXCEPT ![m].state = outcome[1], ![m].due = FALSE,
                                    ![m].stale = FALSE]
        /\ worker' = [worker EXCEPT ![w] = IdleWorker]
        /\ NothingAccepted
    BY <1>10 DEF Record, NothingAccepted
  <2> HIDE DEF m, outcome
  <2>4. outbox'[m].state = outcome[1] /\ OtherRowsKeep(m)
    BY <2>1, <2>3 DEF OtherRowsKeep, OutboxRow
  <2>5. ~Busy(w)' /\ OthersKeep(w)
    BY <2>3 DEF OthersKeep, Busy, IdleWorker, Worker
  <2>6. worker[w].message = m
    BY DEF m
  <2>7. QED
    BY <2>1, <2>2, <2>3, <2>4, <2>5, <2>6 DEF WritesDown
<1>11. ASSUME NEW w \in Workers, Crash(w) PROVE Dies(w)
  BY <1>11 DEF Crash, Dies, OthersKeep, NothingAccepted, Busy, IdleWorker, Worker
<1>12. CASE UNCHANGED vars
  BY <1>12 DEF vars, RowsMove, NothingAccepted
<1>13. QED
  BY <1>1, <1>2, <1>3, <1>4, <1>5, <1>6, <1>7, <1>8, <1>9, <1>10, <1>11, <1>12
     DEF Next, Time, Environment, Pass

-------------------------------------------------------------------------------
(* The inductive invariant. A message that a worker has in hand is found by *)
(* no other worker: its row is neither pending nor retry, so it has one     *)
(* holder. Whatever a worker takes for a definite failure has been accepted *)
(* only where that acceptance went unrecorded, and so has whatever is not   *)
(* being sent, delivered or uncertain.                                      *)

Holds(w, m) == Busy(w) /\ worker[w].message = m

PostingIsUndecided ==
  \A w \in Workers : worker[w].step = "posting" => worker[w].result = "definite"

OneHolder ==
  \A v, w \in Workers : \A m \in Messages : Holds(v, m) /\ Holds(w, m) => v = w

HeldIsNotWaiting ==
  \A w \in Workers : \A m \in Messages :
    Holds(w, m) => \/ outbox[m].state \in {"sending", "INDETERMINATE"}
                   \/ outbox[m].state = "cancelled" /\ worker[w].step = "reporting"

DefiniteIsUnsent ==
  \A w \in Workers : \A m \in Messages :
    Holds(w, m) /\ worker[w].result = "definite" => accepted[m] <= unrecorded[m]

OkWasRead ==
  \A w \in Workers : \A m \in Messages :
    Holds(w, m) /\ worker[w].result = "ok" => accepted[m] > 0 \/ m \in misread

Inv ==
  /\ TypeOK /\ BusyHasMessage /\ PostingIsUndecided
  /\ OneHolder /\ HeldIsNotWaiting
  /\ DefiniteIsUnsent /\ NoOtherDuplicate
  /\ OkWasRead /\ RowsMatchPostal

LEMMA InvInit == Init => Inv
<1> SUFFICES ASSUME Init PROVE Inv
  OBVIOUS
<1>1. TypeOK
  BY DEF Init, TypeOK, OutboxRow, OutboxStates, Statuses, Gate, Worker, IdleWorker, Count
<1>2. \A w \in Workers : ~Busy(w) /\ worker[w].step = "idle"
  BY DEF Init, Busy, IdleWorker
<1>3. \A m \in Messages : outbox[m].state = "none" /\ accepted[m] = 0 /\ unrecorded[m] = 0
  BY DEF Init
<1>4. QED
  BY <1>1, <1>2, <1>3 DEF Inv, BusyHasMessage, PostingIsUndecided, OneHolder,
     HeldIsNotWaiting, DefiniteIsUnsent, NoOtherDuplicate, OkWasRead,
     RowsMatchPostal, Holds

\* The parts of the invariant that only concern who holds what.
Holding == BusyHasMessage /\ PostingIsUndecided /\ OneHolder /\ HeldIsNotWaiting

LEMMA RowsMoveKeeps ==
  ASSUME Inv, TypeOK', RowsMove
  PROVE  Inv'
<1>1. \A w \in Workers : worker'[w] = worker[w] /\ (Busy(w)' <=> Busy(w))
  BY DEF RowsMove, Busy
<1>2. /\ \A m \in Messages : accepted'[m] = accepted[m] /\ unrecorded'[m] = unrecorded[m]
      /\ misread' = misread
  BY DEF RowsMove, NothingAccepted
<1>3. \A w \in Workers, m \in Messages : Holds(w, m)' <=> Holds(w, m)
  BY <1>1 DEF Holds
<1>4. Holding'
  BY <1>1, <1>3 DEF Inv, Holding, BusyHasMessage, PostingIsUndecided, OneHolder,
     HeldIsNotWaiting, RowsMove
<1>5. RowsMatchPostal'
  BY <1>2 DEF Inv, RowsMatchPostal, RowsMove
<1>6. DefiniteIsUnsent' /\ OkWasRead' /\ NoOtherDuplicate'
  BY <1>1, <1>2, <1>3 DEF Inv, DefiniteIsUnsent, OkWasRead, NoOtherDuplicate
<1>7. QED
  BY <1>4, <1>5, <1>6 DEF Inv, Holding

LEMMA TakesUpKeeps ==
  ASSUME Inv, TypeOK', NEW w \in Workers, NEW m \in Messages, TakesUp(w, m)
  PROVE  Inv'
<1>1. \A v \in Workers \ {w} : worker'[v] = worker[v] /\ (Busy(v)' <=> Busy(v))
  BY DEF TakesUp, OthersKeep, Busy
<1>2. /\ \A n \in Messages : accepted'[n] = accepted[n] /\ unrecorded'[n] = unrecorded[n]
      /\ misread' = misread
  BY DEF TakesUp, NothingAccepted
<1>3. /\ Busy(w)' /\ worker'[w].message = m /\ worker'[w].result = "definite"
  BY DEF TakesUp, Busy
<1>4. \A v \in Workers : ~Holds(v, m)
  BY DEF Inv, HeldIsNotWaiting, TakesUp
<1>5. \A v \in Workers, n \in Messages :
        Holds(v, n)' <=> IF v = w THEN n = m ELSE Holds(v, n)
  BY <1>1, <1>3 DEF Holds
<1>6. Holding'
  <2>1. BusyHasMessage' /\ PostingIsUndecided'
    BY <1>1, <1>3 DEF Inv, BusyHasMessage, PostingIsUndecided
  <2>2. OneHolder'
    BY <1>4, <1>5 DEF Inv, OneHolder
  <2>3. HeldIsNotWaiting'
    <3> SUFFICES ASSUME NEW v \in Workers, NEW n \in Messages, Holds(v, n)'
                 PROVE  \/ outbox'[n].state \in {"sending", "INDETERMINATE"}
                        \/ outbox'[n].state = "cancelled" /\ worker'[v].step = "reporting"
      BY DEF HeldIsNotWaiting
    <3>1. CASE v = w
      BY <1>5, <3>1 DEF TakesUp
    <3>2. CASE v # w
      <4>1. Holds(v, n) /\ n # m /\ worker'[v] = worker[v]
        BY <1>1, <1>4, <1>5, <3>2
      <4>2. outbox'[n].state = outbox[n].state
        BY <4>1 DEF TakesUp, OtherRowsKeep
      <4>3. QED
        BY <4>1, <4>2 DEF Inv, HeldIsNotWaiting
    <3>3. QED
      BY <3>1, <3>2
  <2>4. QED
    BY <2>1, <2>2, <2>3 DEF Holding
<1>7. RowsMatchPostal' /\ NoOtherDuplicate'
  BY <1>2 DEF Inv, RowsMatchPostal, NoOtherDuplicate, TakesUp,
     OtherRowsKeep
<1>8. accepted[m] <= unrecorded[m]
  BY DEF Inv, RowsMatchPostal, TakesUp
<1>9. DefiniteIsUnsent' /\ OkWasRead'
  BY <1>1, <1>2, <1>3, <1>5, <1>8 DEF Inv, DefiniteIsUnsent, OkWasRead
<1>10. QED
  BY <1>6, <1>7, <1>9 DEF Inv, Holding

LEMMA PostsKeeps ==
  ASSUME Inv, TypeOK', NEW w \in Workers, NEW m \in Messages, Posts(w, m)
  PROVE  Inv'
<1>1. \A v \in Workers \ {w} : worker'[v] = worker[v] /\ (Busy(v)' <=> Busy(v))
  BY DEF Posts, OthersKeep, Busy
<1>2. /\ Holds(w, m) /\ Busy(w)' /\ worker'[w].message = m /\ worker'[w].step # "posting"
      /\ worker[w].result = "definite"
  BY DEF Posts, Holds, Busy, Inv, PostingIsUndecided
<1>3. \A v \in Workers, n \in Messages : Holds(v, n)' <=> Holds(v, n)
  BY <1>1, <1>2 DEF Holds
<1>4. \A n \in Messages : outbox'[n].state = outbox[n].state
  BY DEF Posts
<1>5. Holding'
  <2>1. BusyHasMessage' /\ PostingIsUndecided' /\ OneHolder'
    BY <1>1, <1>2, <1>3 DEF Inv, BusyHasMessage, PostingIsUndecided, OneHolder
  <2>2. \A v \in Workers : worker[v].step = "reporting" => worker'[v].step = "reporting"
    BY <1>1 DEF Posts
  <2>3. HeldIsNotWaiting'
    BY <1>3, <1>4, <2>2 DEF Inv, HeldIsNotWaiting
  <2>4. QED
    BY <2>1, <2>3 DEF Holding
<1>6. outbox[m].state \in {"sending", "INDETERMINATE"} /\ accepted[m] <= unrecorded[m]
  BY <1>2 DEF Posts, Inv, HeldIsNotWaiting, DefiniteIsUnsent
<1>7. /\ accepted[m] \in Nat /\ unrecorded[m] \in Nat
      /\ accepted'[m] <= 1 + unrecorded'[m]
      /\ worker'[w].result = "definite" => accepted'[m] <= unrecorded'[m]
      /\ worker'[w].result = "ok" => accepted'[m] > 0 \/ m \in misread'
  BY <1>6 DEF Posts, Inv, TypeOK
<1>8. /\ \A n \in Messages \ {m} : accepted'[n] = accepted[n] /\ unrecorded'[n] = unrecorded[n]
      /\ misread \subseteq misread'
  BY DEF Posts
<1>9. RowsMatchPostal' /\ NoOtherDuplicate'
  BY <1>4, <1>6, <1>7, <1>8 DEF Inv, RowsMatchPostal, NoOtherDuplicate
<1>10. \A v \in Workers : Holds(v, m) => v = w
  BY <1>2 DEF Inv, OneHolder
<1>11. DefiniteIsUnsent' /\ OkWasRead'
  <2>1. SUFFICES ASSUME NEW v \in Workers, NEW n \in Messages, Holds(v, n)
                 PROVE  /\ worker'[v].result = "definite" => accepted'[n] <= unrecorded'[n]
                        /\ worker'[v].result = "ok" => accepted'[n] > 0 \/ n \in misread'
    BY <1>3 DEF DefiniteIsUnsent, OkWasRead
  <2>2. CASE v = w
    <3>1. n = m
      BY <2>1, <2>2, <1>2 DEF Holds
    <3>2. QED
      BY <1>7, <2>2, <3>1
  <2>3. CASE v # w
    <3>1. n # m /\ worker'[v] = worker[v]
      BY <1>1, <1>10, <2>1, <2>3
    <3>2. accepted'[n] = accepted[n] /\ unrecorded'[n] = unrecorded[n]
      BY <1>8, <3>1
    <3>3. QED
      BY <1>8, <2>1, <3>1, <3>2 DEF Inv, DefiniteIsUnsent, OkWasRead
  <2>4. QED
    BY <2>2, <2>3
<1>12. QED
  BY <1>5, <1>9, <1>11 DEF Inv, Holding

LEMMA WritesDownKeeps ==
  ASSUME Inv, TypeOK', NEW w \in Workers, NEW m \in Messages, WritesDown(w, m)
  PROVE  Inv'
<1>1. \A v \in Workers \ {w} : worker'[v] = worker[v] /\ (Busy(v)' <=> Busy(v))
  BY DEF WritesDown, OthersKeep, Busy
<1>2. /\ \A n \in Messages : accepted'[n] = accepted[n] /\ unrecorded'[n] = unrecorded[n]
      /\ misread' = misread
  BY DEF WritesDown, NothingAccepted
<1>3. ~Busy(w)' /\ worker'[w].step = "idle" /\ Holds(w, m)
  BY DEF WritesDown, Busy, Holds
<1>4. \A v \in Workers, n \in Messages : Holds(v, n)' <=> (v # w /\ Holds(v, n))
  BY <1>1, <1>3 DEF Holds
<1>5. \A v \in Workers : ~Holds(v, m)'
  BY <1>3, <1>4 DEF Inv, OneHolder
<1>6. Holding'
  <2>1. BusyHasMessage' /\ PostingIsUndecided' /\ OneHolder'
    BY <1>1, <1>3, <1>4 DEF Inv, BusyHasMessage, PostingIsUndecided, OneHolder
  <2>2. HeldIsNotWaiting'
    <3> SUFFICES ASSUME NEW v \in Workers, NEW n \in Messages, Holds(v, n)'
                 PROVE  \/ outbox'[n].state \in {"sending", "INDETERMINATE"}
                        \/ outbox'[n].state = "cancelled" /\ worker'[v].step = "reporting"
      BY DEF HeldIsNotWaiting
    <3>1. Holds(v, n) /\ n # m /\ worker'[v] = worker[v]
      BY <1>1, <1>4, <1>5
    <3>2. outbox'[n].state = outbox[n].state
      BY <3>1 DEF WritesDown, OtherRowsKeep
    <3>3. QED
      BY <3>1, <3>2 DEF Inv, HeldIsNotWaiting
  <2>3. QED
    BY <2>1, <2>2 DEF Holding
<1>7. /\ worker[w].result = "definite" => accepted[m] <= unrecorded[m]
      /\ worker[w].result = "ok" => accepted[m] > 0 \/ m \in misread
  BY <1>3 DEF Inv, DefiniteIsUnsent, OkWasRead
<1>8. RowsMatchPostal' /\ NoOtherDuplicate'
  BY <1>2, <1>7 DEF Inv, RowsMatchPostal, NoOtherDuplicate, WritesDown,
     OtherRowsKeep
<1>9. DefiniteIsUnsent' /\ OkWasRead'
  BY <1>1, <1>2, <1>4 DEF Inv, DefiniteIsUnsent, OkWasRead
<1>10. QED
  BY <1>6, <1>8, <1>9 DEF Inv, Holding

LEMMA DiesKeeps ==
  ASSUME Inv, TypeOK', NEW w \in Workers, Dies(w)
  PROVE  Inv'
<1>1. \A v \in Workers \ {w} : worker'[v] = worker[v] /\ (Busy(v)' <=> Busy(v))
  BY DEF Dies, OthersKeep, Busy
<1>2. ~Busy(w)' /\ worker'[w].step = "idle"
  BY DEF Dies, Busy
<1>3. \A v \in Workers, n \in Messages : Holds(v, n)' <=> (v # w /\ Holds(v, n))
  BY <1>1, <1>2 DEF Holds
<1>4. UNCHANGED <<outbox, accepted, unrecorded, misread>>
  BY DEF Dies, NothingAccepted
<1>5. Holding'
  BY <1>1, <1>2, <1>3, <1>4 DEF Inv, Holding, BusyHasMessage, PostingIsUndecided, OneHolder,
     HeldIsNotWaiting
<1>6. QED
  BY <1>1, <1>3, <1>4, <1>5 DEF Inv, Holding, DefiniteIsUnsent,
     NoOtherDuplicate, OkWasRead, RowsMatchPostal

LEMMA InvStep == Inv /\ [Next]_vars => Inv'
<1> SUFFICES ASSUME Inv, [Next]_vars PROVE Inv'
  OBVIOUS
<1>1. TypeOK /\ BusyHasMessage
  BY DEF Inv
<1>2. TypeOK'
  BY <1>1, StepType
<1>3. QED
  BY <1>1, <1>2, StepShape, RowsMoveKeeps, TakesUpKeeps, PostsKeeps, WritesDownKeeps, DiesKeeps

LEMMA InvCorrect == Spec => []Inv
  BY InvInit, InvStep, PTL DEF Spec

-------------------------------------------------------------------------------
(* Theorems. *)

\* Every variable stays within its declared type, for tenant_email_outbox_loop
\* with any number of workers and messages.
THEOREM TypeCorrect == Spec => []TypeOK
<1>1. Inv => TypeOK
  BY DEF Inv
<1>2. QED
  BY InvCorrect, <1>1, PTL

\* Postal gets a message again only after an acceptance the worker could not
\* record: provider_outcome_is_ambiguous, the treatment of abandoned rows and
\* aborted claims never lead to a second sending.
THEOREM DuplicatesExplained == Spec => []NoOtherDuplicate
<1>1. Inv => NoOtherDuplicate
  BY DEF Inv
<1>2. QED
  BY InvCorrect, <1>1, PTL

\* What a row says of its message is so, whatever crashes, aborted claims and
\* late, unfenced records there are: delivered is an acceptance, or a refusal
\* read as one, and what waits, failed, was quarantined or cancelled has been
\* accepted only by acceptances that no worker could record.
THEOREM RowsMatchPostalCorrect == Spec => []RowsMatchPostal
<1>1. Inv => RowsMatchPostal
  BY DEF Inv
<1>2. QED
  BY InvCorrect, <1>1, PTL

\* Settled rows stay settled: the unfenced record at the end of a pass finds
\* the row as it was claimed, or given up, or cancelled by an aborted claim.
THEOREM SettledCorrect == Spec => SettledStays
<1> DEFINE Keeps(m) ==
      /\ outbox[m].state \in {"delivered", "failed", "quarantined"} =>
           outbox'[m].state = outbox[m].state
      /\ outbox[m].state \in {"cancelled", "INDETERMINATE"} =>
           \/ outbox'[m].state = outbox[m].state
           \/ \E w \in Workers : worker[w].step = "reporting" /\ worker[w].message = m
<1>1. ASSUME Inv, [Next]_vars, NEW n \in Messages PROVE Keeps(n)
  <2>1. CASE RowsMove
    BY <2>1 DEF RowsMove
  <2>2. ASSUME NEW w \in Workers, NEW m \in Messages, TakesUp(w, m) PROVE Keeps(n)
    BY <2>2 DEF TakesUp, OtherRowsKeep
  <2>3. ASSUME NEW w \in Workers, NEW m \in Messages, Posts(w, m) PROVE Keeps(n)
    BY <2>3 DEF Posts
  <2>4. ASSUME NEW w \in Workers, NEW m \in Messages, WritesDown(w, m) PROVE Keeps(n)
    <3>1. outbox[m].state \in {"sending", "INDETERMINATE", "cancelled"}
      BY <1>1, <2>4 DEF Inv, HeldIsNotWaiting, Holds, Busy, WritesDown
    <3>2. QED
      BY <2>4, <3>1 DEF WritesDown, OtherRowsKeep
  <2>5. ASSUME NEW w \in Workers, Dies(w) PROVE Keeps(n)
    BY <2>5 DEF Dies
  <2>6. QED
    BY <1>1, <2>1, <2>2, <2>3, <2>4, <2>5, StepShape DEF Inv
<1>2. Inv /\ [Next]_vars => [\A m \in Messages : Keeps(m)]_vars
  BY <1>1
<1>3. QED
  BY InvCorrect, <1>2, PTL DEF Spec, SettledStays

-------------------------------------------------------------------------------
(* The canary gate. Its counters are the cardinalities of two sets of       *)
(* messages: those admitted and those tried at least once.                  *)

Admitted == {m \in Gated : outbox[m].state # "none"}
Tried == {m \in Gated : outbox[m].attempts > 0}

NewIsUntried == \A m \in Messages : outbox[m].state = "none" => outbox[m].attempts = 0

PostingIsTried ==
  \A w \in Workers : \A m \in Messages :
    worker[w].step = "posting" /\ worker[w].message = m => outbox[m].attempts > 0

GateInv == Inv /\ NewIsUntried /\ PostingIsTried /\ CanaryBound

RowsKeep(m) == \A n \in Messages \ {m} : outbox'[n] = outbox[n]

\* A message is admitted, under the gate's lock if it is gated.
Admits(m) ==
  /\ outbox[m].state = "none" /\ outbox'[m].state # "none"
  /\ outbox'[m].attempts = outbox[m].attempts
  /\ RowsKeep(m)
  /\ gate'.claimed = gate.claimed
  /\ gate'.reserved = IF m \in Gated THEN gate.reserved + 1 ELSE gate.reserved
  /\ m \in Gated => gate.reserved < Maximum
  /\ worker' = worker /\ accepted' = accepted

\* A worker tries to deliver a message.
Tries(w, m) ==
  /\ outbox[m].state # "none" /\ outbox'[m].state # "none"
  /\ outbox'[m].attempts = outbox[m].attempts + 1
  /\ RowsKeep(m)
  /\ gate'.reserved = gate.reserved /\ gate'.claimed = ClaimedDeliveries(m)
  /\ worker'[w].message = m
  /\ OthersKeep(w)
  /\ accepted' = accepted

\* Everything else: nothing is admitted and nothing tried, and only messages
\* that are being posted are accepted.
GateKeeps ==
  /\ gate' = gate
  /\ \A n \in Messages :
       /\ outbox'[n].attempts = outbox[n].attempts
       /\ outbox'[n].state = "none" <=> outbox[n].state = "none"
       /\ \/ accepted'[n] = accepted[n]
          \/ \E w \in Workers : worker[w].step = "posting" /\ worker[w].message = n
  /\ \A w \in Workers : worker'[w].step = "posting" => worker'[w] = worker[w]

LEMMA GateShape ==
  ASSUME Inv, [Next]_vars
  PROVE  \/ GateKeeps
         \/ \E m \in Messages : Admits(m)
         \/ \E w \in Workers, m \in Messages : Tries(w, m)
<1>1. TypeOK /\ BusyHasMessage
  BY DEF Inv
<1> USE <1>1 DEF TypeOK
<1>2. ASSUME NEW m \in Messages, BecomeDue(m) \/ BecomeStale(m) PROVE GateKeeps
  BY <1>2 DEF BecomeDue, BecomeStale, GateKeeps, OutboxRow
<1>3. ASSUME NEW m \in Messages, Send(m) PROVE Admits(m)
  BY <1>3 DEF Send, Admits, RowsKeep, OutboxRow, Gate
<1>4. ASSUME NEW m \in Messages, Cancel(m) PROVE GateKeeps
  BY <1>4 DEF Cancel, Cancelled, Cancellable, GateKeeps, OutboxRow
<1>5. ASSUME NEW m \in Messages, NEW report \in Reports, Callback(m, report) PROVE GateKeeps
  BY <1>5 DEF Callback, GateKeeps
<1>6. ASSUME NEW w \in Workers, Abandon(w) PROVE GateKeeps
  BY <1>6 DEF Abandon, Abandoned, GateKeeps, OutboxRow
<1>7. ASSUME NEW w \in Workers, NEW m \in Messages, Quarantine(w, m) PROVE GateKeeps
  BY <1>7 DEF Quarantine, Taken, Waiting, GateKeeps, OutboxRow
<1>8. ASSUME NEW w \in Workers, NEW m \in Messages, Claim(w, m) PROVE Tries(w, m)
  <2>1. outbox[m].state # "none"
    BY <1>8 DEF Claim, Taken, Waiting
  <2>2. /\ outbox'[m].state # "none"
        /\ outbox'[m].attempts = outbox[m].attempts + 1
        /\ RowsKeep(m)
    BY <1>8 DEF Claim, RowsKeep, OutboxRow
  <2>3. gate'.reserved = gate.reserved /\ gate'.claimed = ClaimedDeliveries(m)
    BY <1>8 DEF Claim, Gate
  <2>4. worker'[w].message = m /\ OthersKeep(w)
    BY <1>8 DEF Claim, OthersKeep, Worker
  <2>5. QED
    BY <1>8, <2>1, <2>2, <2>3, <2>4 DEF Claim, Tries
<1>9. ASSUME NEW w \in Workers, NEW m \in Messages, CancelDuringClaim(w, m) PROVE GateKeeps
  <2>1. outbox[m].state # "none"
    BY <1>9 DEF CancelDuringClaim, Taken, Waiting
  <2>2. \A n \in Messages : /\ outbox'[n].attempts = outbox[n].attempts
                            /\ outbox'[n].state = "none" <=> outbox[n].state = "none"
    BY <1>9, <2>1 DEF CancelDuringClaim, Cancelled, OutboxRow
  <2>3. \A v \in Workers : worker'[v].step = "posting" => worker'[v] = worker[v]
    BY <1>9 DEF CancelDuringClaim, Worker
  <2>4. gate' = gate /\ accepted' = accepted
    BY <1>9 DEF CancelDuringClaim
  <2>5. QED
    BY <2>2, <2>3, <2>4 DEF GateKeeps
<1>10. ASSUME NEW w \in Workers,
              PostAccepted(w) \/ PostUnrecorded(w) \/ PostMisread(w) \/ PostFailed(w)
       PROVE  GateKeeps
  <2>1. gate' = gate /\ outbox' = outbox
    BY <1>10 DEF PostAccepted, PostUnrecorded, PostMisread, PostFailed
  <2>2. worker[w].step = "posting" /\ worker[w].message \in Messages
    BY <1>10 DEF PostAccepted, PostUnrecorded, PostMisread, PostFailed, BusyHasMessage, Busy
  <2>3. \A n \in Messages \ {worker[w].message} : accepted'[n] = accepted[n]
    BY <1>10, <2>2 DEF PostAccepted, PostUnrecorded, PostMisread, PostFailed
  <2>4. \E result \in {"ok", "ambiguous", "definite"} : Reporting(w, result)
    BY <1>10 DEF PostAccepted, PostUnrecorded, PostMisread, PostFailed
  <2>5. \A v \in Workers : worker'[v].step = "posting" => worker'[v] = worker[v]
    BY <2>4, ReportingWrites
  <2>6. QED
    BY <2>1, <2>2, <2>3, <2>5 DEF GateKeeps
<1>11. ASSUME NEW w \in Workers, Record(w) PROVE GateKeeps
  <2> DEFINE m == worker[w].message
             outcome == Outcome(m, worker[w].result)
  <2>1. m \in Messages /\ worker[w].result \in {"ok", "ambiguous", "definite"}
    BY <1>11 DEF Record, BusyHasMessage, Busy, Worker
  <2>2. outcome[1] # "none"
    BY <2>1, OutcomeType
  <2>3. outbox[m].state # "none"
    BY <1>11, <2>1 DEF Record, Inv, HeldIsNotWaiting, Holds, Busy
  <2>4. /\ outbox' = [outbox EXCEPT ![m].state = outcome[1], ![m].due = FALSE,
                                    ![m].stale = FALSE]
        /\ worker' = [worker EXCEPT ![w] = IdleWorker]
        /\ gate' = gate /\ accepted' = accepted
    BY <1>11 DEF Record
  <2> HIDE DEF m, outcome
  <2>5. \A n \in Messages : /\ outbox'[n].attempts = outbox[n].attempts
                            /\ outbox'[n].state = "none" <=> outbox[n].state = "none"
    BY <2>1, <2>2, <2>3, <2>4 DEF OutboxRow
  <2>6. \A v \in Workers : worker'[v].step = "posting" => worker'[v] = worker[v]
    BY <2>4 DEF IdleWorker
  <2>7. QED
    BY <2>4, <2>5, <2>6 DEF GateKeeps
<1>12. ASSUME NEW w \in Workers, Crash(w) PROVE GateKeeps
  BY <1>12 DEF Crash, GateKeeps, IdleWorker
<1>13. CASE UNCHANGED vars
  BY <1>13 DEF vars, GateKeeps
<1>14. QED
  BY <1>2, <1>3, <1>4, <1>5, <1>6, <1>7, <1>8, <1>9, <1>10, <1>11, <1>12, <1>13
     DEF Next, Time, Environment, Pass

\* The counters and the two sets, in the form in which they are proved.
GateCounts ==
  /\ gate.reserved = Cardinality(Admitted)
  /\ gate.claimed = Cardinality(Tried)
  /\ gate.reserved <= Maximum
  /\ {m \in Gated : accepted[m] > 0} \subseteq Tried

LEMMA GateCountsAre == CanaryBound <=> GateCounts
BY DEF CanaryBound, GateCounts, Admitted, Tried

LEMMA SetsAreFinite == IsFiniteSet(Admitted) /\ IsFiniteSet(Tried)
<1>1. IsFiniteSet(Messages) /\ Admitted \subseteq Messages /\ Tried \subseteq Messages
  BY MessagesAssumption DEF Admitted, Tried
<1>2. QED
  BY <1>1, FS_Subset

LEMMA GateInit == Init => GateInv
<1> SUFFICES ASSUME Init PROVE GateInv
  OBVIOUS
<1>1. Inv
  BY InvInit
<1>2. NewIsUntried /\ PostingIsTried
  BY DEF Init, NewIsUntried, PostingIsTried, IdleWorker
<1>3. \A m \in Gated : outbox[m].state = "none" /\ outbox[m].attempts = 0 /\ accepted[m] = 0
  BY MessagesAssumption DEF Init
<1>4. /\ Admitted = {} /\ Tried = {} /\ {m \in Gated : accepted[m] > 0} = {}
      /\ gate.reserved = 0 /\ gate.claimed = 0
  <2>1. Admitted = {}
    BY <1>3 DEF Admitted
  <2>2. Tried = {}
    BY <1>3 DEF Tried
  <2>3. {m \in Gated : accepted[m] > 0} = {}
    BY <1>3
  <2>4. gate.reserved = 0 /\ gate.claimed = 0
    BY DEF Init
  <2>5. QED
    BY <2>1, <2>2, <2>3, <2>4
<1>5. GateCounts
  <2>1. Cardinality({}) = 0
    BY FS_EmptySet
  <2>2. QED
    BY <1>4, <2>1, BoundsAssumption DEF GateCounts
<1>6. QED
  BY <1>1, <1>2, <1>5, GateCountsAre DEF GateInv

LEMMA GateKeepsInv ==
  ASSUME GateInv, GateKeeps
  PROVE  NewIsUntried' /\ PostingIsTried' /\ CanaryBound'
<1>1. NewIsUntried' /\ PostingIsTried'
  BY DEF GateInv, GateKeeps, NewIsUntried, PostingIsTried
<1>2. Admitted' = Admitted /\ Tried' = Tried
  <2>1. \A m \in Gated : /\ outbox'[m].attempts = outbox[m].attempts
                         /\ outbox'[m].state # "none" <=> outbox[m].state # "none"
    BY MessagesAssumption DEF GateKeeps
  <2>2. Admitted' = Admitted
    BY <2>1 DEF Admitted
  <2>3. Tried' = Tried
    BY <2>1 DEF Tried
  <2>4. QED
    BY <2>2, <2>3
<1>3. {m \in Gated : accepted'[m] > 0} \subseteq Tried
  <2> SUFFICES ASSUME NEW m \in Gated, accepted'[m] > 0 PROVE outbox[m].attempts > 0
    BY DEF Tried
  <2>1. m \in Messages
    BY MessagesAssumption
  <2>2. CASE accepted'[m] = accepted[m]
    BY <2>2, GateCountsAre DEF GateInv, GateCounts, Tried
  <2>3. CASE \E w \in Workers : worker[w].step = "posting" /\ worker[w].message = m
    BY <2>1, <2>3 DEF GateInv, PostingIsTried
  <2>4. QED
    BY <2>1, <2>2, <2>3 DEF GateKeeps
<1>4. GateCounts'
  BY <1>2, <1>3, GateCountsAre DEF GateInv, GateKeeps, GateCounts
<1>5. QED
  BY <1>1, <1>4, GateCountsAre, PTL

LEMMA AdmitsKeepsInv ==
  ASSUME GateInv, NEW m \in Messages, Admits(m)
  PROVE  NewIsUntried' /\ PostingIsTried' /\ CanaryBound'
<1>1. NewIsUntried' /\ PostingIsTried'
  BY DEF GateInv, Admits, RowsKeep, NewIsUntried, PostingIsTried
<1>2. \A n \in Messages : outbox'[n].attempts = outbox[n].attempts
  BY DEF Admits, RowsKeep
<1>3. Tried' = Tried
  BY <1>2, MessagesAssumption DEF Tried
<1>4. Admitted' = IF m \in Gated THEN Admitted \union {m} ELSE Admitted
  BY MessagesAssumption DEF Admits, RowsKeep, Admitted
<1>5. m \notin Admitted
  BY DEF Admits, Admitted
<1>6. gate'.reserved = Cardinality(Admitted')
  <2>1. CASE m \in Gated
    <3>1. Cardinality(Admitted \union {m}) = Cardinality(Admitted) + 1
      BY <1>5, SetsAreFinite, FS_AddElement
    <3>2. QED
      BY <1>4, <2>1, <3>1, GateCountsAre DEF GateInv, GateCounts, Admits
  <2>2. CASE m \notin Gated
    BY <1>4, <2>2, GateCountsAre DEF GateInv, GateCounts, Admits
  <2>3. QED
    BY <2>1, <2>2
<1>7. gate'.reserved <= Maximum
  BY GateCountsAre, BoundsAssumption DEF GateInv, Inv, TypeOK, Gate, GateCounts, Admits
<1>8. GateCounts'
  BY <1>3, <1>6, <1>7, GateCountsAre DEF GateInv, GateCounts, Admits
<1>9. QED
  BY <1>1, <1>8, GateCountsAre, PTL

LEMMA TriesKeepsInv ==
  ASSUME GateInv, NEW w \in Workers, NEW m \in Messages, Tries(w, m)
  PROVE  NewIsUntried' /\ PostingIsTried' /\ CanaryBound'
<1>1. outbox[m].attempts \in Nat /\ outbox'[m].attempts = outbox[m].attempts + 1
  BY DEF GateInv, Inv, TypeOK, OutboxRow, Tries
<1>2. NewIsUntried'
  BY DEF GateInv, Tries, RowsKeep, NewIsUntried
<1>3. PostingIsTried'
  BY <1>1 DEF GateInv, Tries, RowsKeep, OthersKeep, PostingIsTried
<1>4. Admitted' = Admitted
  BY MessagesAssumption DEF Tries, RowsKeep, Admitted
<1>5. Tried' = IF m \in Gated THEN Tried \union {m} ELSE Tried
  <2>1. outbox'[m].attempts > 0
    BY <1>1
  <2>2. \A n \in Gated \ {m} : outbox'[n] = outbox[n]
    BY MessagesAssumption DEF Tries, RowsKeep
  <2>3. QED
    BY <2>1, <2>2 DEF Tried
<1>6. m \in Tried <=> m \in Gated /\ ~FirstAttempt(m)
  BY <1>1 DEF Tried, FirstAttempt
<1>7. gate'.claimed = Cardinality(Tried')
  <2>1. CASE m \in Gated /\ FirstAttempt(m)
    <3>1. Tried' = Tried \union {m} /\ m \notin Tried
      BY <1>5, <1>6, <2>1
    <3>2. Cardinality(Tried \union {m}) = Cardinality(Tried) + 1
      BY <3>1, SetsAreFinite, FS_AddElement
    <3>3. gate.claimed = Cardinality(Tried) /\ gate'.claimed = gate.claimed + 1
      BY <2>1, GateCountsAre DEF GateInv, GateCounts, Tries, ClaimedDeliveries
    <3>4. QED
      BY <3>1, <3>2, <3>3
  <2>2. CASE ~(m \in Gated /\ FirstAttempt(m))
    <3>1. Tried' = Tried
      BY <1>5, <1>6, <2>2
    <3>2. QED
      BY <2>2, <3>1, GateCountsAre DEF GateInv, GateCounts, Tries, ClaimedDeliveries
  <2>3. QED
    BY <2>1, <2>2
<1>8. GateCounts'
  BY <1>4, <1>5, <1>7, GateCountsAre DEF GateInv, GateCounts, Tries
<1>9. QED
  BY <1>2, <1>3, <1>8, GateCountsAre, PTL

LEMMA GateStep == GateInv /\ [Next]_vars => GateInv'
<1> SUFFICES ASSUME GateInv, [Next]_vars PROVE GateInv'
  OBVIOUS
<1>1. Inv /\ Inv'
  BY InvStep DEF GateInv
<1>2. NewIsUntried' /\ PostingIsTried' /\ CanaryBound'
  BY <1>1, GateShape, GateKeepsInv, AdmitsKeepsInv, TriesKeepsInv
<1>3. QED
  BY <1>1, <1>2 DEF GateInv

\* The gate's counters agree with the messages they count, for any maximum:
\* no more messages than it allows are admitted, and only those reach Postal.
THEOREM CanaryCorrect == Spec => []CanaryBound
<1>1. GateInv => CanaryBound
  BY DEF GateInv
<1>2. QED
  BY GateInit, GateStep, <1>1, PTL DEF Spec
===============================================================================
