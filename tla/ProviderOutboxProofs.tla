------------------------- MODULE ProviderOutboxProofs -------------------------
(***************************************************************************)
(* Proofs about ProviderOutbox, for any rows, workers, operators, limits   *)
(* and bounds: types, the fence of the acknowledgement, that DELIVERED is  *)
(* never wrong, that settled rows stay settled, the refinement of          *)
(* AtLeastOnceOutbox, and that the pages of reconciliation are fair.       *)
(***************************************************************************)
EXTENDS ProviderOutbox, FiniteSetTheorems, WellFoundedInduction, TLAPS

LEMMA NewRowType == NewRow \in Row
  BY DEF NewRow, Row, RowStates, Errors

LEMMA QueueRowsType ==
  ASSUME NEW queue
  PROVE  QueueRows(queue) \subseteq Rows
  BY DEF QueueRows, Rows

LEMMA OldestType ==
  ASSUME NEW S, NEW k
  PROVE  Oldest(S, k) \subseteq S
  BY DEF Oldest

\* A page holds due dead letters only.
LEMMA PageType ==
  ASSUME NEW limit
  PROVE  /\ PageEvents(limit) \subseteq DueDead(EventRows)
         /\ PageUsages(limit) \subseteq DueDead(UsageRows)
<1>1. ASSUME NEW S, NEW k PROVE FirstEvents(S, k) \subseteq S
  BY OldestType DEF FirstEvents, Unreviewed
<1>2. QED
  BY <1>1, OldestType DEF PageEvents, PageUsages

\* What each transaction writes to a row.

LEMMA ReleasedType ==
  ASSUME NEW rec \in Row, NEW state \in RowStates
  PROVE  /\ Released(rec, state) \in Row
         /\ Released(rec, state).state = state
  BY DEF Released, Row

LEMMA RecoveredType ==
  ASSUME TypeOK, NEW r \in Rows
  PROVE  Recovered(r) \in Row /\ Recovered(r).state = "RETRY"
<1>1. row[r] \in Row /\ "RETRY" \in RowStates
  BY DEF TypeOK, RowStates
<1>2. Released(row[r], "RETRY") \in Row /\ Released(row[r], "RETRY").state = "RETRY"
  BY <1>1, ReleasedType
<1>3. QED
  BY <1>2 DEF Recovered, Row, Errors

LEMMA ClaimedType ==
  ASSUME NEW rec \in Row, NEW c \in Claims
  PROVE  /\ Claimed(rec, c) \in Row
         /\ Claimed(rec, c).state = "PROCESSING"
  BY DEF Claimed, Row, RowStates

LEMMA AcknowledgedType ==
  ASSUME TypeOK, NEW r \in Rows, NEW result \in Results
  PROVE  /\ Acknowledged(r, result) \in Row
         /\ result = "ok" => Acknowledged(r, result).state = "DELIVERED"
         /\ result # "ok" => Acknowledged(r, result).state \in {"RETRY", "DEAD_LETTER"}
<1>1. row[r] \in Row /\ row[r].attempts + 1 \in Nat
  BY DEF TypeOK, Row
<1>2. \A state \in RowStates : /\ Released(row[r], state) \in Row
                               /\ Released(row[r], state).state = state
  BY <1>1, ReleasedType
<1>3. {"DELIVERED", "DEAD_LETTER", "RETRY"} \subseteq RowStates
  BY DEF RowStates
<1>4. CASE result = "ok"
  <2>1. Acknowledged(r, result) = [Released(row[r], "DELIVERED") EXCEPT
                                     !.attempts = row[r].attempts + 1, !.error = "none"]
    BY <1>4 DEF Acknowledged
  <2>2. Released(row[r], "DELIVERED") \in Row /\ Released(row[r], "DELIVERED").state = "DELIVERED"
    BY <1>2, <1>3
  <2>3. QED
    BY <1>1, <1>4, <2>1, <2>2 DEF Row, Errors
<1>5. CASE result # "ok"
  <2> DEFINE failed == IF row[r].attempts + 1 >= MaxAttempts THEN "DEAD_LETTER" ELSE "RETRY"
  <2>1. Acknowledged(r, result) = [Released(row[r], failed) EXCEPT
                                     !.attempts = row[r].attempts + 1, !.error = "failed",
                                     !.due = FALSE]
    BY <1>5 DEF Acknowledged
  <2>2. failed \in {"DEAD_LETTER", "RETRY"}
    OBVIOUS
  <2> HIDE DEF failed
  <2> DEFINE rel == Released(row[r], failed)
  <2>3. rel \in Row /\ rel.state = failed
    BY <1>2, <1>3, <2>2
  <2> HIDE DEF rel
  <2>4. [rel EXCEPT !.attempts = row[r].attempts + 1, !.error = "failed", !.due = FALSE] \in Row
    BY <1>1, <2>3 DEF Row, Errors
  <2>5. [rel EXCEPT !.attempts = row[r].attempts + 1, !.error = "failed", !.due = FALSE].state
          = rel.state
    BY <2>3 DEF Row
  <2>6. QED
    BY <1>5, <2>1, <2>2, <2>3, <2>4, <2>5 DEF rel
<1>6. QED
  BY <1>4, <1>5

LEMMA ManualWrittenType ==
  ASSUME TypeOK, NEW o \in Operators, manual[o].row # NoRow
  PROVE  /\ manual[o].row \in Rows
         /\ ManualWritten(o) \in Row
         /\ ManualWritten(o).state \in {"RETRY", row[manual[o].row].state}
         /\ manual[o].state # "DEAD_LETTER" =>
              ManualWritten(o).state = row[manual[o].row].state
<1> DEFINE r   == manual[o].row
           rec == [row[r] EXCEPT !.attempts = IF manual[o].attempts = 0 THEN @ ELSE 0,
                                 !.error = IF manual[o].error = "none" THEN @ ELSE "none",
                                 !.due = TRUE]
           unleased == r \in UsageRows /\ rec.state = "PROCESSING"
<1>1. r \in Rows
  BY DEF TypeOK, Manual
<1>2. row[r] \in Row
  BY <1>1 DEF TypeOK
<1>3. rec \in Row /\ rec.state = row[r].state
  BY <1>2 DEF Row, Errors
<1>4. ManualWritten(o) = IF manual[o].state = "DEAD_LETTER" THEN Released(rec, "RETRY")
                         ELSE IF unleased THEN [rec EXCEPT !.claim = NoClaim, !.expired = TRUE]
                         ELSE rec
  BY DEF ManualWritten
<1> HIDE DEF rec, unleased, r
<1>5. "RETRY" \in RowStates
  BY DEF RowStates
<1>6. Released(rec, "RETRY") \in Row /\ Released(rec, "RETRY").state = "RETRY"
  BY <1>3, <1>5, ReleasedType
<1>7. [rec EXCEPT !.claim = NoClaim, !.expired = TRUE] \in Row
      /\ [rec EXCEPT !.claim = NoClaim, !.expired = TRUE].state = rec.state
  BY <1>3 DEF Row
<1>8. QED
  BY <1>1, <1>3, <1>4, <1>6, <1>7 DEF r

LEMMA ReconciledType ==
  ASSUME TypeOK, NEW r \in Rows, row[r].state = "DEAD_LETTER"
  PROVE  /\ Reconciled(r) \in Row
         /\ Reconciled(r).state \in {"RETRY", "SKIPPED", "DEAD_LETTER"}
<1>1. row[r] \in Row /\ "RETRY" \in RowStates /\ "SKIPPED" \in RowStates
  BY DEF TypeOK, RowStates
<1>2. \A state \in RowStates : /\ Released(row[r], state) \in Row
                               /\ Released(row[r], state).state = state
  BY <1>1, ReleasedType
<1>3. CASE r \in UsageRows \/ Decision[r] = "requeue"
  <2>1. Reconciled(r) = [Released(row[r], "RETRY") EXCEPT !.attempts = 0, !.due = TRUE,
                                                          !.error = "none"]
    BY <1>3, RowsAssumption DEF Reconciled
  <2> DEFINE rel == Released(row[r], "RETRY")
  <2>2. rel \in Row /\ rel.state = "RETRY"
    BY <1>1, <1>2
  <2> HIDE DEF rel
  <2>3. /\ [rel EXCEPT !.attempts = 0, !.due = TRUE, !.error = "none"] \in Row
        /\ [rel EXCEPT !.attempts = 0, !.due = TRUE, !.error = "none"].state = "RETRY"
    BY <2>2 DEF Row, Errors
  <2>4. QED
    BY <2>1, <2>3 DEF rel
<1>4. CASE r \in EventRows /\ Decision[r] = "skipped"
  <2>1. Reconciled(r) = [Released(row[r], "SKIPPED") EXCEPT !.error = "failed"]
    BY <1>4, RowsAssumption DEF Reconciled
  <2>2. QED
    BY <1>1, <1>2, <2>1 DEF Row, Errors
<1>5. CASE r \in EventRows /\ Decision[r] = "blocked"
  <2>1. Reconciled(r) = [row[r] EXCEPT !.error = "blocked"]
    BY <1>5, RowsAssumption DEF Reconciled
  <2>2. QED
    BY <1>1, <2>1 DEF Row, Errors
<1>6. QED
  BY <1>3, <1>4, <1>5, ParameterAssumption DEF Rows

\* What a POST changes.
LEMMA EmitEffect ==
  ASSUME NEW w \in Workers, Emit(w)
  PROVE  \E r \in worker[w].batch, result \in Results :
           /\ worker' = [worker EXCEPT ![w].batch = worker[w].batch \ {r},
                                       ![w].sending = r,
                                       ![w].result = result]
           /\ accepted' \in {accepted, accepted \union {r}}
           /\ result = "ok" => r \in accepted'
<1>1. PICK r \in worker[w].batch, result \in Results, arrives \in BOOLEAN :
        /\ result = "ok" => arrives
        /\ worker' = [worker EXCEPT ![w].batch = @ \ {r},
                                    ![w].sending = r,
                                    ![w].result = result]
        /\ accepted' = IF arrives THEN accepted \union {r} ELSE accepted
  BY Zenon DEF Emit
<1>2. accepted' \in {accepted, accepted \union {r}}
  BY <1>1
<1>3. result = "ok" => r \in accepted'
  BY <1>1
<1>4. QED
  BY <1>1, <1>2, <1>3

-------------------------------------------------------------------------------
(* Types. *)

\* Claims, batches and outcomes stay within their types under every step of
\* the dispatcher, of an operator, of reconciliation and of time.
THEOREM TypeCorrect == Spec => []TypeOK
<1>1. Init => TypeOK
  <2>1. IdleWorker \in Worker /\ NoManual \in Manual
    BY DEF IdleWorker, Worker, NoManual, Manual, Queues, Results, RowStates, Errors
  <2>2. QED
    BY <2>1, NewRowType DEF Init, TypeOK
<1>2. TypeOK /\ [Next]_vars => TypeOK'
  <2> SUFFICES ASSUME TypeOK, [Next]_vars PROVE TypeOK'
    OBVIOUS
  <2>1. ASSUME NEW r \in Rows, BecomeDue(r) PROVE TypeOK'
    <3>1. [row[r] EXCEPT !.due = TRUE] \in Row
      BY <2>1 DEF TypeOK, Row
    <3>2. QED
      BY <2>1, <3>1 DEF BecomeDue, TypeOK
  <2>2. ASSUME NEW r \in Rows, LeaseExpires(r) PROVE TypeOK'
    <3>1. [row[r] EXCEPT !.expired = TRUE] \in Row
      BY <2>2 DEF TypeOK, Row
    <3>2. QED
      BY <2>2, <3>1 DEF LeaseExpires, TypeOK
  <2>3. ASSUME NEW w \in Workers, Claim(w) PROVE TypeOK'
    <3> DEFINE queue == worker[w].queue
               waiting == {r \in QueueRows(queue) :
                             row[r].state \in {"PENDING", "RETRY"} /\ row[r].due}
    <3>1. PICK stale \in SUBSET Stale(queue) :
            /\ FreshClaim \in Claims \ ClaimsInUse
            /\ row' = [r \in Rows |->
                         LET seen == IF r \in stale THEN Recovered(r) ELSE row[r]
                         IN  IF r \in Oldest(waiting \union stale, BatchLimit)
                             THEN Claimed(seen, FreshClaim) ELSE seen]
            /\ worker' = [worker EXCEPT
                            ![w].batch = Oldest(waiting \union stale, BatchLimit),
                            ![w].claim = IF Oldest(waiting \union stale, BatchLimit) = {}
                                         THEN NoClaim ELSE FreshClaim,
                            ![w].queue = OtherQueue(queue)]
      BY <2>3, Zenon DEF Claim
    <3>2. \A r \in Rows : (IF r \in stale THEN Recovered(r) ELSE row[r]) \in Row
      BY RecoveredType DEF TypeOK
    <3>3. row' \in [Rows -> Row]
      BY <3>1, <3>2, ClaimedType
    <3>4. Oldest(waiting \union stale, BatchLimit) \subseteq Rows
      BY QueueRowsType, OldestType DEF Stale
    <3>5. OtherQueue(queue) \in Queues
      BY DEF OtherQueue, Queues
    <3>6. worker' \in [Workers -> Worker]
      <4> DEFINE batch == Oldest(waiting \union stale, BatchLimit)
                 claim == IF batch = {} THEN NoClaim ELSE FreshClaim
                 next  == OtherQueue(queue)
      <4>1. batch \subseteq Rows /\ claim \in Claims \union {NoClaim} /\ next \in Queues
        BY <3>1, <3>4, <3>5
      <4>2. worker' = [worker EXCEPT ![w].batch = batch, ![w].claim = claim, ![w].queue = next]
        BY <3>1
      <4> HIDE DEF batch, claim, next
      <4>3. [worker[w] EXCEPT !.batch = batch, !.claim = claim, !.queue = next] \in Worker
        BY <4>1 DEF TypeOK, Worker
      <4>4. worker' = [worker EXCEPT ![w] = [worker[w] EXCEPT !.batch = batch, !.claim = claim,
                                                              !.queue = next]]
        BY <4>2
      <4>5. QED
        BY <4>3, <4>4 DEF TypeOK
    <3>7. QED
      BY <2>3, <3>3, <3>6 DEF Claim, TypeOK
  <2>4. ASSUME NEW w \in Workers, Emit(w) PROVE TypeOK'
    <3>1. PICK r \in worker[w].batch, result \in Results :
            /\ worker' = [worker EXCEPT ![w].batch = worker[w].batch \ {r},
                                        ![w].sending = r,
                                        ![w].result = result]
            /\ accepted' \in {accepted, accepted \union {r}}
      BY <2>4, EmitEffect
    <3>2. worker[w].batch \subseteq Rows
      BY DEF TypeOK, Worker
    <3>3. worker' \in [Workers -> Worker]
      <4>1. [worker[w] EXCEPT !.batch = worker[w].batch \ {r}, !.sending = r,
                              !.result = result] \in Worker
        BY <3>1, <3>2 DEF TypeOK, Worker
      <4>2. worker' = [worker EXCEPT ![w] = [worker[w] EXCEPT !.batch = worker[w].batch \ {r},
                                                              !.sending = r,
                                                              !.result = result]]
        BY <3>1
      <4>3. QED
        BY <4>1, <4>2 DEF TypeOK
    <3>4. QED
      BY <2>4, <3>1, <3>2, <3>3 DEF Emit, TypeOK
  <2>5. ASSUME NEW w \in Workers, Acknowledge(w) PROVE TypeOK'
    <3> DEFINE r == worker[w].sending
    <3>1. r \in Rows /\ worker[w].result \in Results
      BY <2>5 DEF Acknowledge, TypeOK, Worker
    <3>2. row' \in [Rows -> Row]
      <4>1. CASE OwnsClaim(w, r)
        <5>1. row' = [row EXCEPT ![r] = Acknowledged(r, worker[w].result)]
          BY <2>5, <4>1 DEF Acknowledge
        <5>2. QED
          BY <3>1, <5>1, AcknowledgedType DEF TypeOK
      <4>2. CASE ~OwnsClaim(w, r)
        BY <2>5, <4>2 DEF Acknowledge, TypeOK
      <4>3. QED
        BY <4>1, <4>2
    <3>3. worker' \in [Workers -> Worker]
      <4>1. [worker[w] EXCEPT !.sending = NoRow, !.result = "failed"] \in Worker
        BY DEF TypeOK, Worker, Results
      <4>2. worker' = [worker EXCEPT ![w] = [worker[w] EXCEPT !.sending = NoRow,
                                                              !.result = "failed"]]
        BY <2>5 DEF Acknowledge
      <4>3. QED
        BY <4>1, <4>2 DEF TypeOK
    <3>4. QED
      BY <2>5, <3>2, <3>3 DEF Acknowledge, TypeOK
  <2>6. ASSUME NEW w \in Workers, Crash(w) PROVE TypeOK'
    BY <2>6 DEF Crash, TypeOK, IdleWorker, Worker, Queues, Results
  <2>7. ASSUME NEW o \in Operators, ManualWrite(o) PROVE TypeOK'
    <3>1. row' \in [Rows -> Row]
      BY <2>7, ManualWrittenType DEF ManualWrite, TypeOK
    <3>2. NoManual \in Manual
      BY DEF NoManual, Manual, RowStates, Errors
    <3>3. QED
      BY <2>7, <3>1, <3>2 DEF ManualWrite, TypeOK
  <2>8. ASSUME NEW o \in Operators, NEW r \in Rows, ManualRead(o, r) PROVE TypeOK'
    BY <2>8 DEF ManualRead, TypeOK, Manual, Row
  <2>9. ASSUME NEW limit \in PageLimits, Reconcile(limit) PROVE TypeOK'
    <3>1. \A r \in PageEvents(limit) \union PageUsages(limit) :
            r \in Rows => Reconciled(r) \in Row
      BY PageType, ReconciledType DEF DueDead
    <3>2. row' \in [Rows -> Row]
      BY <2>9, <3>1 DEF Reconcile, TypeOK
    <3>3. QED
      BY <2>9, <3>2 DEF Reconcile, TypeOK
  <2>10. CASE UNCHANGED vars
    BY <2>10 DEF vars, TypeOK
  <2>11. QED
    BY <2>1, <2>2, <2>3, <2>4, <2>5, <2>6, <2>7, <2>8, <2>9, <2>10 DEF Next
<1>3. QED
  BY <1>1, <1>2, PTL DEF Spec

-------------------------------------------------------------------------------
(* The fence. *)

\* What makes the fence work: a worker with rows in hand has a claim, and no
\* two workers carry the same one.
ClaimsAreFenced ==
    /\ \A w \in Workers : Held(w) # {} => worker[w].claim # NoClaim
    /\ \A v, w \in Workers :
          v # w /\ worker[v].claim # NoClaim => worker[v].claim # worker[w].claim

\* At most one worker can still record an outcome for a row.
THEOREM FenceCorrect == Spec => []OneLiveClaim
<1>1. Init => ClaimsAreFenced
  BY DEF Init, ClaimsAreFenced, IdleWorker, Held
<1>2. TypeOK /\ ClaimsAreFenced /\ [Next]_vars => ClaimsAreFenced'
  <2> SUFFICES ASSUME TypeOK, ClaimsAreFenced, [Next]_vars PROVE ClaimsAreFenced'
    OBVIOUS
  <2>1. CASE UNCHANGED worker
    BY <2>1 DEF ClaimsAreFenced, Held
  <2>2. ASSUME NEW w \in Workers, Claim(w) PROVE ClaimsAreFenced'
    <3>1. PICK batch, queue :
            /\ FreshClaim \in Claims \ ClaimsInUse
            /\ worker' = [worker EXCEPT
                            ![w].batch = batch,
                            ![w].claim = IF batch = {} THEN NoClaim ELSE FreshClaim,
                            ![w].queue = queue]
      BY <2>2, Zenon DEF Claim
    <3>2. \A v \in Workers : v # w => worker'[v] = worker[v]
      BY <3>1 DEF TypeOK
    <3>3. /\ worker'[w].batch = batch
          /\ worker'[w].sending = NoRow
          /\ worker'[w].claim = IF batch = {} THEN NoClaim ELSE FreshClaim
      <4>1. worker[w].sending = NoRow
        BY <2>2 DEF Claim
      <4> DEFINE claim == IF batch = {} THEN NoClaim ELSE FreshClaim
      <4>2. worker' = [worker EXCEPT ![w].batch = batch, ![w].claim = claim, ![w].queue = queue]
        BY <3>1
      <4> HIDE DEF claim
      <4>3. /\ worker'[w].batch = batch
            /\ worker'[w].sending = NoRow
            /\ worker'[w].claim = claim
        BY <4>1, <4>2 DEF TypeOK, Worker
      <4>4. QED
        BY <4>3 DEF claim
    <3>4. \A v \in Workers : worker[v].claim # FreshClaim
      BY <3>1 DEF ClaimsInUse
    <3>5. FreshClaim # NoClaim
      BY <3>1, ParameterAssumption
    <3>6. QED
      BY <3>2, <3>3, <3>4, <3>5 DEF ClaimsAreFenced, Held
  <2>3. ASSUME NEW w \in Workers, Emit(w) PROVE ClaimsAreFenced'
    <3>1. PICK r \in worker[w].batch, result \in Results :
            worker' = [worker EXCEPT ![w].batch = worker[w].batch \ {r},
                                     ![w].sending = r,
                                     ![w].result = result]
      BY <2>3, EmitEffect
    <3>2. /\ \A v \in Workers : worker'[v].claim = worker[v].claim
          /\ \A v \in Workers : v # w => worker'[v] = worker[v]
      BY <3>1 DEF TypeOK, Worker
    <3>3. Held(w) # {}
      BY <3>1 DEF Held
    <3>4. QED
      BY <3>2, <3>3 DEF ClaimsAreFenced, Held
  <2>4. ASSUME NEW w \in Workers, Acknowledge(w) PROVE ClaimsAreFenced'
    <3>1. /\ worker' = [worker EXCEPT ![w].sending = NoRow, ![w].result = "failed"]
          /\ worker[w].sending # NoRow
      BY <2>4 DEF Acknowledge
    <3>2. /\ \A v \in Workers : worker'[v].claim = worker[v].claim
          /\ \A v \in Workers : v # w => worker'[v] = worker[v]
      BY <3>1 DEF TypeOK, Worker
    <3>3. Held(w) # {}
      BY <3>1 DEF Held
    <3>4. QED
      BY <3>2, <3>3 DEF ClaimsAreFenced, Held
  <2>5. ASSUME NEW w \in Workers, Crash(w) PROVE ClaimsAreFenced'
    BY <2>5 DEF Crash, TypeOK, IdleWorker, ClaimsAreFenced, Held
  <2>6. QED
    BY <2>1, <2>2, <2>3, <2>4, <2>5
    DEF Next, vars, BecomeDue, LeaseExpires, ManualWrite, ManualRead, Reconcile
<1>3. TypeOK /\ ClaimsAreFenced => OneLiveClaim
  BY DEF OneLiveClaim, ClaimsAreFenced, OwnsClaim
<1>4. QED
  BY <1>1, <1>2, <1>3, TypeCorrect, PTL DEF Spec

-------------------------------------------------------------------------------
(* What a step does to the state of a row. *)

Open == {"PENDING", "PROCESSING", "RETRY"}

\* A claiming transaction leaves open rows open and does not touch the others.
LEMMA ClaimStep ==
  ASSUME TypeOK, NEW w \in Workers, Claim(w), NEW r \in Rows
  PROVE  \/ row'[r] = row[r]
         \/ row[r].state \in Open /\ row'[r].state \in Open
<1> DEFINE queue == worker[w].queue
           waiting == {q \in QueueRows(queue) :
                         row[q].state \in {"PENDING", "RETRY"} /\ row[q].due}
<1>1. PICK stale \in SUBSET Stale(queue) :
        /\ FreshClaim \in Claims
        /\ row' = [q \in Rows |->
                     LET seen == IF q \in stale THEN Recovered(q) ELSE row[q]
                     IN  IF q \in Oldest(waiting \union stale, BatchLimit)
                         THEN Claimed(seen, FreshClaim) ELSE seen]
  BY Zenon DEF Claim
<1> DEFINE seen == IF r \in stale THEN Recovered(r) ELSE row[r]
<1>2. seen \in Row /\ (r \in stale => seen.state = "RETRY")
  BY RecoveredType DEF TypeOK
<1>3. r \in stale => row[r].state = "PROCESSING"
  BY DEF Stale
<1>4. CASE r \in Oldest(waiting \union stale, BatchLimit)
  <2>1. r \in stale \/ row[r].state \in {"PENDING", "RETRY"}
    BY <1>4, OldestType
  <2>2. row'[r] = Claimed(seen, FreshClaim)
    BY <1>1, <1>4
  <2>3. row'[r].state = "PROCESSING"
    BY <1>1, <1>2, <2>2, ClaimedType
  <2>4. QED
    BY <1>3, <2>1, <2>3 DEF Open
<1>5. CASE r \notin Oldest(waiting \union stale, BatchLimit)
  <2>1. row'[r] = seen
    BY <1>1, <1>5
  <2>2. QED
    BY <1>2, <1>3, <2>1 DEF Open
<1>6. QED
  BY <1>4, <1>5

\* An acknowledgement changes at most the row that was sent, and only while it
\* is PROCESSING.
LEMMA AcknowledgeStep ==
  ASSUME TypeOK, NEW w \in Workers, Acknowledge(w)
  PROVE  \/ row' = row
         \/ LET r == worker[w].sending
            IN  /\ r \in Rows
                /\ row[r].state = "PROCESSING"
                /\ row' = [row EXCEPT ![r] = Acknowledged(r, worker[w].result)]
                /\ worker[w].result = "ok" => row'[r].state = "DELIVERED"
                /\ worker[w].result # "ok" => row'[r].state \in {"RETRY", "DEAD_LETTER"}
<1> DEFINE r == worker[w].sending
<1>1. r \in Rows /\ worker[w].result \in Results
  BY DEF Acknowledge, TypeOK, Worker
<1>2. CASE OwnsClaim(w, r)
  <2>1. row' = [row EXCEPT ![r] = Acknowledged(r, worker[w].result)]
    BY <1>2 DEF Acknowledge
  <2>2. row'[r] = Acknowledged(r, worker[w].result)
    BY <1>1, <2>1 DEF TypeOK
  <2>3. QED
    BY <1>1, <1>2, <2>1, <2>2, AcknowledgedType DEF OwnsClaim
<1>3. CASE ~OwnsClaim(w, r)
  BY <1>3 DEF Acknowledge
<1>4. QED
  BY <1>2, <1>3

\* A page of reconciliation changes dead letters only.
LEMMA ReconcileStep ==
  ASSUME TypeOK, NEW limit \in PageLimits, Reconcile(limit), NEW r \in Rows
  PROVE  \/ row'[r] = row[r]
         \/ /\ row[r].state = "DEAD_LETTER"
            /\ row'[r].state \in {"RETRY", "SKIPPED", "DEAD_LETTER"}
<1>1. row'[r] = IF r \in PageEvents(limit) \union PageUsages(limit)
                THEN Reconciled(r) ELSE row[r]
  BY DEF Reconcile
<1>2. r \in PageEvents(limit) \union PageUsages(limit) => row[r].state = "DEAD_LETTER"
  BY PageType DEF DueDead
<1>3. QED
  BY <1>1, <1>2, ReconciledType

\* A manual write reopens one row or leaves its state alone.
LEMMA ManualStep ==
  ASSUME TypeOK, NEW o \in Operators, ManualWrite(o)
  PROVE  LET r == manual[o].row
         IN  /\ r \in Rows
             /\ row' = [row EXCEPT ![r] = ManualWritten(o)]
             /\ \/ row'[r].state = row[r].state
                \/ row'[r].state = "RETRY" /\ manual[o].state = "DEAD_LETTER"
<1>1. /\ manual[o].row # NoRow
      /\ row' = [row EXCEPT ![manual[o].row] = ManualWritten(o)]
  BY DEF ManualWrite
<1>2. manual[o].row \in Rows
  BY <1>1, ManualWrittenType
<1>3. row'[manual[o].row] = ManualWritten(o)
  BY <1>1, <1>2 DEF TypeOK
<1>4. QED
  BY <1>1, <1>2, <1>3, ManualWrittenType

\* Time changes no state.
LEMMA TimeStep ==
  ASSUME TypeOK, NEW r \in Rows, BecomeDue(r) \/ LeaseExpires(r), NEW q \in Rows
  PROVE  row'[q].state = row[q].state
  BY DEF BecomeDue, LeaseExpires, TypeOK, Row

-------------------------------------------------------------------------------
(* DELIVERED is never wrong. *)

\* What a worker reports as a success has been accepted.
ReportsAreTrue ==
    \A w \in Workers :
        worker[w].sending # NoRow /\ worker[w].result = "ok" => worker[w].sending \in accepted

\* A worker never reports a success the middleware did not have, and a row is
\* DELIVERED only when the middleware has accepted it.
LEMMA ReportsCorrect == Spec => [](ReportsAreTrue /\ DeliveredWasAccepted)
<1> DEFINE Inv == ReportsAreTrue /\ DeliveredWasAccepted
<1>1. Init => Inv
  BY DEF Init, ReportsAreTrue, DeliveredWasAccepted, IdleWorker, NewRow
<1>2. TypeOK /\ Inv /\ [Next]_vars => Inv'
  <2> SUFFICES ASSUME TypeOK, Inv, [Next]_vars PROVE Inv'
    OBVIOUS
  <2>1. ASSUME NEW r \in Rows, BecomeDue(r) \/ LeaseExpires(r) PROVE Inv'
    <3>1. UNCHANGED <<worker, accepted>>
      BY <2>1 DEF BecomeDue, LeaseExpires
    <3>2. QED
      BY <2>1, <3>1, TimeStep DEF ReportsAreTrue, DeliveredWasAccepted
  <2>2. ASSUME NEW w \in Workers, Claim(w) PROVE Inv'
    <3>1. accepted' = accepted
      BY <2>2 DEF Claim
    <3>2. \A v \in Workers : /\ worker'[v].sending = worker[v].sending
                             /\ worker'[v].result = worker[v].result
      <4>1. PICK batch, queue :
              worker' = [worker EXCEPT
                           ![w].batch = batch,
                           ![w].claim = IF batch = {} THEN NoClaim ELSE FreshClaim,
                           ![w].queue = queue]
        BY <2>2, Zenon DEF Claim
      <4>2. \A v \in Workers : v # w => worker'[v] = worker[v]
        BY <4>1 DEF TypeOK
      <4> DEFINE claim == IF batch = {} THEN NoClaim ELSE FreshClaim
      <4>3. worker' = [worker EXCEPT ![w].batch = batch, ![w].claim = claim, ![w].queue = queue]
        BY <4>1
      <4> HIDE DEF claim
      <4>4. worker'[w].sending = worker[w].sending /\ worker'[w].result = worker[w].result
        BY <4>3 DEF TypeOK, Worker
      <4>5. QED
        BY <4>2, <4>4
    <3>3. QED
      BY <2>2, <3>1, <3>2, ClaimStep DEF ReportsAreTrue, DeliveredWasAccepted, Open
  <2>3. ASSUME NEW w \in Workers, Emit(w) PROVE Inv'
    <3>1. PICK r \in worker[w].batch, result \in Results :
            /\ worker' = [worker EXCEPT ![w].batch = worker[w].batch \ {r},
                                        ![w].sending = r,
                                        ![w].result = result]
            /\ accepted' \in {accepted, accepted \union {r}}
            /\ result = "ok" => r \in accepted'
      BY <2>3, EmitEffect
    <3>2. row' = row
      BY <2>3 DEF Emit
    <3>3. accepted \subseteq accepted'
      BY <3>1
    <3>4. ReportsAreTrue'
      BY <3>1, <3>3 DEF ReportsAreTrue, TypeOK, Worker
    <3>5. QED
      BY <3>2, <3>3, <3>4 DEF DeliveredWasAccepted
  <2>4. ASSUME NEW w \in Workers, Acknowledge(w) PROVE Inv'
    <3>1. accepted' = accepted
      BY <2>4 DEF Acknowledge
    <3>2. worker' = [worker EXCEPT ![w].sending = NoRow, ![w].result = "failed"]
      BY <2>4 DEF Acknowledge
    <3>3. ReportsAreTrue'
      BY <3>1, <3>2 DEF ReportsAreTrue, TypeOK, Worker
    <3>4. worker[w].sending # NoRow
      BY <2>4 DEF Acknowledge
    <3>5. DeliveredWasAccepted'
      BY <2>4, <3>1, <3>4, AcknowledgeStep DEF DeliveredWasAccepted, ReportsAreTrue, TypeOK
    <3>6. QED
      BY <3>3, <3>5
  <2>5. ASSUME NEW w \in Workers, Crash(w) PROVE Inv'
    BY <2>5 DEF Crash, ReportsAreTrue, DeliveredWasAccepted, IdleWorker, TypeOK
  <2>6. ASSUME NEW o \in Operators, ManualWrite(o) PROVE Inv'
    <3>1. UNCHANGED <<worker, accepted>>
      BY <2>6 DEF ManualWrite
    <3>2. QED
      BY <2>6, <3>1, ManualStep DEF ReportsAreTrue, DeliveredWasAccepted, TypeOK
  <2>7. ASSUME NEW o \in Operators, NEW r \in Rows, ManualRead(o, r) PROVE Inv'
    BY <2>7 DEF ManualRead, ReportsAreTrue, DeliveredWasAccepted
  <2>8. ASSUME NEW limit \in PageLimits, Reconcile(limit) PROVE Inv'
    <3>1. UNCHANGED <<worker, accepted>>
      BY <2>8 DEF Reconcile
    <3>2. QED
      BY <2>8, <3>1, ReconcileStep DEF ReportsAreTrue, DeliveredWasAccepted
  <2>9. CASE UNCHANGED vars
    BY <2>9 DEF vars, ReportsAreTrue, DeliveredWasAccepted
  <2>10. QED
    BY <2>1, <2>2, <2>3, <2>4, <2>5, <2>6, <2>7, <2>8, <2>9 DEF Next
<1>3. QED
  BY <1>1, <1>2, TypeCorrect, PTL DEF Spec

\* A row is DELIVERED only when the middleware has accepted it.
THEOREM DeliveredCorrect == Spec => []DeliveredWasAccepted
  BY ReportsCorrect, PTL

-------------------------------------------------------------------------------
(* Settled rows stay settled. *)

\* No late worker, expired lease or reconciliation page revives a settled row;
\* only a manual retry that read a dead letter does.
THEOREM SettledCorrect == Spec => SettledStays
<1> DEFINE Stays ==
      \A r \in Rows :
          row[r].state \in {"DELIVERED", "SKIPPED"} =>
            \/ row'[r].state = row[r].state
            \/ \E o \in Operators : manual[o].row = r /\ manual[o].state = "DEAD_LETTER"
<1>1. TypeOK /\ [Next]_vars => [Stays]_vars
  <2> SUFFICES ASSUME TypeOK, [Next]_vars,
                      NEW r \in Rows, row[r].state \in {"DELIVERED", "SKIPPED"},
                      row'[r].state # row[r].state
               PROVE  \E o \in Operators :
                        manual[o].row = r /\ manual[o].state = "DEAD_LETTER"
    OBVIOUS
  <2>1. CASE \E q \in Rows : BecomeDue(q) \/ LeaseExpires(q)
    BY <2>1, TimeStep
  <2>2. CASE \E w \in Workers : Claim(w)
    BY <2>2, ClaimStep DEF Open
  <2>3. CASE \E w \in Workers : Acknowledge(w)
    BY <2>3, AcknowledgeStep DEF TypeOK
  <2>4. ASSUME NEW o \in Operators, ManualWrite(o)
        PROVE  \E p \in Operators : manual[p].row = r /\ manual[p].state = "DEAD_LETTER"
    BY <2>4, ManualStep DEF TypeOK
  <2>5. CASE \E limit \in PageLimits : Reconcile(limit)
    BY <2>5, ReconcileStep
  <2>6. CASE UNCHANGED row
    BY <2>6
  <2>7. QED
    BY <2>1, <2>2, <2>3, <2>4, <2>5, <2>6
    DEF Next, vars, Emit, Crash, ManualRead
<1>2. QED
  BY <1>1, TypeCorrect, PTL DEF Spec, SettledStays

-------------------------------------------------------------------------------
(* The refinement of the abstract outbox. *)

\* The state a row has in the abstract outbox follows from its state alone.
LEMMA StatusOfState ==
  ASSUME NEW r \in Rows
  PROVE  /\ row[r].state \in Open => RowStatus(r) = "open"
         /\ row[r].state = "DELIVERED" => RowStatus(r) = "delivered"
         /\ row[r].state = "DEAD_LETTER" => RowStatus(r) = "dead"
         /\ row[r].state = "SKIPPED" => RowStatus(r) = "skipped"
  BY DEF Open, RowStatus

\* The same of the row after a step.
LEMMA StatusAfterStep ==
  ASSUME NEW r \in Rows
  PROVE  /\ row'[r].state = row[r].state => RowStatus(r)' = RowStatus(r)
         /\ row'[r].state \in Open => RowStatus(r)' = "open"
         /\ row'[r].state = "DELIVERED" => RowStatus(r)' = "delivered"
         /\ row'[r].state = "DEAD_LETTER" => RowStatus(r)' = "dead"
         /\ row'[r].state = "SKIPPED" => RowStatus(r)' = "skipped"
  BY DEF Open, RowStatus

\* A step that changes the status of no row and delivers nothing stutters.
LEMMA StutterStep ==
  ASSUME accepted' = accepted, \A r \in Rows : RowStatus(r)' = RowStatus(r)
  PROVE  UNCHANGED Promise!abstractVars
  BY DEF Promise!abstractVars

\* The provider outbox implements the at-least-once outbox: every transaction
\* of a worker, an operator or reconciliation is a step of the abstract outbox
\* on the row it settles, or changes nothing there.
THEOREM PromiseKept == Spec => KeepsPromise
<1> DEFINE status == [r \in Rows |-> RowStatus(r)]
<1>1. Init => Promise!Init
  BY StatusOfState DEF Init, NewRow, Open, Promise!Init
<1>2. TypeOK /\ ReportsAreTrue /\ [Next]_vars => [Promise!Next]_Promise!abstractVars
  <2> SUFFICES ASSUME TypeOK, ReportsAreTrue, [Next]_vars
               PROVE  Promise!Next \/ UNCHANGED Promise!abstractVars
    OBVIOUS
  <2>1. ASSUME NEW q \in Rows, BecomeDue(q) \/ LeaseExpires(q)
        PROVE  UNCHANGED Promise!abstractVars
    <3>1. accepted' = accepted
      BY <2>1 DEF BecomeDue, LeaseExpires
    <3>2. QED
      BY <2>1, <3>1, TimeStep, StatusAfterStep, StutterStep
  <2>2. ASSUME NEW w \in Workers, Claim(w) PROVE UNCHANGED Promise!abstractVars
    <3>1. accepted' = accepted
      BY <2>2 DEF Claim
    <3>2. \A r \in Rows : RowStatus(r)' = RowStatus(r)
      BY <2>2, ClaimStep, StatusAfterStep, StatusOfState
    <3>3. QED
      BY <3>1, <3>2, StutterStep
  <2>3. ASSUME NEW w \in Workers, Emit(w)
        PROVE  Promise!Next \/ UNCHANGED Promise!abstractVars
    <3>1. PICK r \in worker[w].batch : accepted' \in {accepted, accepted \union {r}}
      BY <2>3, EmitEffect
    <3>2. r \in Rows
      BY <3>1 DEF TypeOK, Worker
    <3>3. row' = row
      BY <2>3 DEF Emit
    <3>4. \A q \in Rows : RowStatus(q)' = RowStatus(q)
      BY <3>3, StatusAfterStep
    <3>5. CASE accepted' = accepted
      BY <3>4, <3>5, StutterStep
    <3>6. CASE accepted' = accepted \union {r}
      <4>1. Promise!Receive(r)
        BY <3>4, <3>6 DEF Promise!Receive
      <4>2. QED
        BY <3>2, <4>1 DEF Promise!Next
    <3>7. QED
      BY <3>1, <3>5, <3>6
  <2>4. ASSUME NEW w \in Workers, Acknowledge(w)
        PROVE  Promise!Next \/ UNCHANGED Promise!abstractVars
    <3>0. PICK r : r = worker[w].sending
      OBVIOUS
    <3>1. accepted' = accepted /\ r # NoRow
      BY <2>4, <3>0 DEF Acknowledge
    <3>2. CASE row' = row
      BY <3>1, <3>2, StatusAfterStep, StutterStep
    <3>3. CASE row' # row
      <4>1. /\ r \in Rows
            /\ row[r].state = "PROCESSING"
            /\ row' = [row EXCEPT ![r] = Acknowledged(r, worker[w].result)]
            /\ worker[w].result = "ok" => row'[r].state = "DELIVERED"
            /\ worker[w].result # "ok" => row'[r].state \in {"RETRY", "DEAD_LETTER"}
        BY <2>4, <3>0, <3>3, AcknowledgeStep
      <4>2. \A q \in Rows : q # r => RowStatus(q)' = RowStatus(q)
        BY <4>1, StatusAfterStep DEF TypeOK
      <4>3. RowStatus(r) = "open"
        BY <4>1, StatusOfState DEF Open
      <4>4. CASE row'[r].state = "DELIVERED"
        <5>1. r \in accepted
          BY <3>0, <3>1, <4>1, <4>4 DEF ReportsAreTrue
        <5>2. RowStatus(r)' = "delivered"
          BY <4>1, <4>4, StatusAfterStep
        <5>3. Promise!Deliver(r)
          BY <3>1, <4>1, <4>2, <4>3, <5>1, <5>2 DEF Promise!Deliver
        <5>4. QED
          BY <4>1, <5>3 DEF Promise!Next
      <4>5. CASE row'[r].state = "RETRY"
        <5>1. RowStatus(r)' = "open"
          BY <4>1, <4>5, StatusAfterStep DEF Open
        <5>2. QED
          BY <3>1, <4>2, <4>3, <5>1, StutterStep
      <4>6. CASE row'[r].state = "DEAD_LETTER"
        <5>1. RowStatus(r)' = "dead"
          BY <4>1, <4>6, StatusAfterStep
        <5>2. \A q \in Rows : RowStatus(q)' = IF q \in {r} THEN "dead" ELSE RowStatus(q)
          BY <4>2, <5>1
        <5>3. Promise!GiveUp({r})
          BY <3>1, <4>1, <4>3, <5>2 DEF Promise!GiveUp
        <5>4. QED
          BY <4>1, <5>3 DEF Promise!Next
      <4>7. QED
        BY <4>1, <4>4, <4>5, <4>6
    <3>4. QED
      BY <3>2, <3>3
  <2>5. ASSUME NEW o \in Operators, ManualWrite(o)
        PROVE  Promise!Next \/ UNCHANGED Promise!abstractVars
    <3>0. PICK r : r = manual[o].row
      OBVIOUS
    <3>1. accepted' = accepted
      BY <2>5 DEF ManualWrite
    <3>2. /\ r \in Rows
          /\ row' = [row EXCEPT ![r] = ManualWritten(o)]
          /\ row'[r].state = row[r].state \/ row'[r].state = "RETRY"
      BY <2>5, <3>0, ManualStep
    <3>3. \A q \in Rows : q # r => RowStatus(q)' = RowStatus(q)
      BY <3>2, StatusAfterStep DEF TypeOK
    <3>4. CASE row'[r].state = row[r].state
      BY <3>1, <3>2, <3>3, <3>4, StatusAfterStep, StutterStep
    <3>5. CASE row'[r].state = "RETRY"
      <4>1. RowStatus(r)' = "open"
        BY <3>2, <3>5, StatusAfterStep DEF Open
      <4>2. Promise!Reopen(r)
        BY <3>1, <3>2, <3>3, <4>1 DEF Promise!Reopen
      <4>3. QED
        BY <3>2, <4>2 DEF Promise!Next
    <3>6. QED
      BY <3>2, <3>4, <3>5
  <2>6. ASSUME NEW limit \in PageLimits, Reconcile(limit) PROVE Promise!Next
    <3> DEFINE dead     == {r \in Rows : row[r].state = "DEAD_LETTER"}
               reopened == {r \in dead : row'[r].state = "RETRY"}
               skipped  == {r \in dead : row'[r].state = "SKIPPED"}
    <3>1. accepted' = accepted
      BY <2>6 DEF Reconcile
    <3>2. \A r \in reopened \union skipped : status[r] = "dead"
      BY StatusOfState
    <3>3. \A r \in Rows : RowStatus(r)' = IF r \in skipped THEN "skipped"
                                         ELSE IF r \in reopened THEN "open"
                                         ELSE RowStatus(r)
      BY <2>6, ReconcileStep, StatusAfterStep, StatusOfState DEF Open
    <3>4. Promise!Review(reopened, skipped)
      BY <3>1, <3>2, <3>3 DEF Promise!Review
    <3>5. reopened \in SUBSET Rows /\ skipped \in SUBSET Rows
      OBVIOUS
    <3> HIDE DEF reopened, skipped
    <3>6. QED
      BY <3>4, <3>5 DEF Promise!Next
  <2>7. CASE UNCHANGED <<row, accepted>>
    BY <2>7, StatusAfterStep, StutterStep
  <2>8. QED
    BY <2>1, <2>2, <2>3, <2>4, <2>5, <2>6, <2>7 DEF Next, vars, Crash, ManualRead
<1>3. QED
  BY <1>1, <1>2, TypeCorrect, ReportsCorrect, PTL DEF Spec, KeepsPromise, Promise!Spec

-------------------------------------------------------------------------------
(***************************************************************************)
(* Pages. The k oldest of a finite set of rows number k, or all of it: the *)
(* ranks of its rows are different, and the oldest row left out has rank   *)
(* k.                                                                      *)
(***************************************************************************)

LEMMA LeastNatural ==
  ASSUME NEW S \in SUBSET Nat, S # {}
  PROVE  \E n \in S : \A m \in S : n <= m
<1> DEFINE R == OpToRel(<, Nat)
<1>1. IsWellFoundedOn(R, Nat)
  BY NatLessThanWellFounded
<1>2. \A m, n \in Nat : <<m, n>> \in R <=> m < n
  BY DEF OpToRel
<1> HIDE DEF R
<1>3. S \subseteq Nat
  OBVIOUS
<1>5. \E n \in S : \A m \in S : ~ (<<m, n>> \in R)
  BY ONLY <1>1, <1>3, S # {}, WFMin
<1>6. PICK n \in S : \A m \in S : ~ (<<m, n>> \in R)
  BY <1>5
<1>4. QED
  <2>1. ASSUME NEW m \in S PROVE n <= m
    <3>1. m \in Nat /\ n \in Nat /\ ~ (<<m, n>> \in R)
      BY <1>3, <1>6
    <3>2. ~ (m < n)
      BY <1>2, <3>1
    <3>3. QED
      BY <3>1, <3>2
  <2>2. QED
    BY <2>1

\* The k oldest of a finite set are k, or all of them when they are fewer.
LEMMA OldestCount ==
  ASSUME NEW S \in SUBSET Nat, IsFiniteSet(S), NEW k \in Nat
  PROVE  /\ IsFiniteSet(Oldest(S, k))
         /\ Cardinality(Oldest(S, k)) = Smaller(k, Cardinality(S))
<1> DEFINE Below(r) == {q \in S : q < r}
           Rank(r) == Cardinality(Below(r))
           O == Oldest(S, k)
<1>1. O = {r \in S : Rank(r) < k}
  BY DEF Oldest
<1>2. ASSUME NEW r \in S PROVE IsFiniteSet(Below(r)) /\ Rank(r) \in Nat
  <2>1. Below(r) \in SUBSET S
    OBVIOUS
  <2>2. QED
    BY <2>1, FS_Subset, FS_CardinalityType
<1>3. IsFiniteSet(O) /\ Cardinality(O) \in Nat /\ Cardinality(S) \in Nat
      /\ Cardinality(O) <= Cardinality(S)
      /\ (Cardinality(O) = Cardinality(S) => O = S)
  <2>1. O \in SUBSET S
    BY <1>1
  <2>2. QED
    BY <2>1, FS_Subset, FS_CardinalityType
\* Two rows have different ranks: what is below one, and it, is below the other.
<1>4. ASSUME NEW q \in S, NEW r \in S, q < r PROVE Rank(q) < Rank(r)
  <2>1. Below(q) \subseteq Below(r) /\ q \in Below(r) /\ q \notin Below(q)
    <3>1. q \in Nat /\ r \in Nat /\ \A p \in S : p \in Nat
      OBVIOUS
    <3>2. ASSUME NEW p \in Below(q) PROVE p \in Below(r)
      <4>1. p \in S /\ p \in Nat /\ p < q
        BY <3>1
      <4>2. p < r
        BY <1>4, <3>1, <4>1
      <4>3. QED
        BY <4>1, <4>2
    <3>3. q \in Below(r) /\ q \notin Below(q)
      BY <1>4, <3>1
    <3>4. QED
      BY <3>2, <3>3
  <2>2. Below(q) \in SUBSET Below(r) /\ Below(q) # Below(r)
    BY <2>1
  <2>3. IsFiniteSet(Below(r)) /\ Rank(q) \in Nat /\ Rank(r) \in Nat
    BY <1>2
  <2> HIDE DEF Below
  <2>4. Rank(q) <= Rank(r) /\ (Rank(q) = Rank(r) => Below(q) = Below(r))
    BY <2>2, <2>3, FS_Subset
  <2>5. QED
    BY <2>2, <2>3, <2>4
<1>5. Cardinality(O) <= k
  <2> DEFINE f == [r \in O |-> Rank(r)]
  <2>1. f \in [O -> 0 .. (k - 1)]
    <3>1. \A r \in O : Rank(r) \in Nat /\ Rank(r) < k
      BY <1>1, <1>2
    <3> HIDE DEF O, Rank
    <3>2. \A r \in O : Rank(r) \in 0 .. (k - 1)
      BY <3>1
    <3>3. QED
      BY <3>2
  <2>2. ASSUME NEW q \in O, NEW r \in O, f[q] = f[r] PROVE q = r
    <3>1. q \in S /\ r \in S /\ q \in Nat /\ r \in Nat /\ Rank(q) = Rank(r)
      BY <1>1, <2>2
    <3>2. Rank(q) \in Nat /\ Rank(r) \in Nat
      BY <1>2, <3>1
    <3> HIDE DEF Rank, O, f
    <3>3. ~(q < r) /\ ~(r < q)
      BY <1>4, <3>1, <3>2
    <3>4. QED
      BY <3>1, <3>3
  <2>3. IsFiniteSet(0 .. (k - 1)) /\ Cardinality(0 .. (k - 1)) = k
    BY FS_Interval
  <2> HIDE DEF f, O
  <2>4. f \in Injection(O, 0 .. (k - 1))
    BY <2>1, <2>2 DEF Injection, IsInjective
  <2>5. QED
    BY <2>3, <2>4, FS_Injection
\* The oldest row that is not among them would be: fewer than k are below it.
<1>6. O # S => Cardinality(O) >= k
  <2> SUFFICES ASSUME O # S, Cardinality(O) < k PROVE FALSE
    BY <1>3
  <2> DEFINE Rest == S \ O
  <2>1. Rest \in SUBSET Nat /\ Rest # {}
    BY <1>1
  <2>2. PICK r \in Rest : \A m \in Rest : r <= m
    <3> HIDE DEF Rest
    <3>1. QED
      BY <2>1, LeastNatural
  <2>3. r \in S /\ r \notin O
    BY <2>2
  <2>4. Below(r) \subseteq O
    <3> SUFFICES ASSUME NEW q \in S, q < r PROVE q \in O
      OBVIOUS
    <3>1. q \in Nat /\ r \in Nat
      BY <2>3
    <3>2. QED
      BY <2>2, <3>1
  <2>5. Rank(r) <= Cardinality(O)
    <3>1. Below(r) \in SUBSET O
      BY <2>4
    <3> HIDE DEF O, Below
    <3>2. QED
      BY <1>3, <3>1, FS_Subset
  <2>6. Rank(r) \in Nat
    BY <1>2, <2>3
  <2>7. Rank(r) < k
    BY <1>3, <2>5, <2>6
  <2>8. QED
    BY <1>1, <2>3, <2>7
<1> HIDE DEF O
<1>7. Cardinality(O) = Smaller(k, Cardinality(S))
  <2>1. CASE O = S
    BY <2>1, <1>3, <1>5 DEF Smaller
  <2>2. CASE O # S
    <3>1. Cardinality(O) = k /\ Cardinality(O) < Cardinality(S)
      BY <2>2, <1>3, <1>5, <1>6
    <3>2. QED
      BY <3>1, <1>3 DEF Smaller
  <2>3. QED
    BY <2>1, <2>2
<1>8. QED
  BY <1>3, <1>7 DEF O

LEMMA OldestNone ==
  ASSUME NEW S \in SUBSET Nat, IsFiniteSet(S)
  PROVE  Oldest(S, 0) = {}
<1>1. IsFiniteSet(Oldest(S, 0)) /\ Cardinality(Oldest(S, 0)) = 0
  <2>1. Cardinality(S) \in Nat
    BY FS_CardinalityType
  <2>2. QED
    BY <2>1, OldestCount DEF Smaller
<1>2. QED
  BY <1>1, FS_EmptySet

LEMMA OldestAll ==
  ASSUME NEW S \in SUBSET Nat, IsFiniteSet(S), NEW k \in Nat, Cardinality(S) <= k
  PROVE  Oldest(S, k) = S
<1>1. Cardinality(S) \in Nat
  BY FS_CardinalityType
<1>2. Cardinality(Oldest(S, k)) = Cardinality(S)
  BY <1>1, OldestCount DEF Smaller
<1>3. Oldest(S, k) \in SUBSET S
  BY DEF Oldest
<1>4. QED
  BY <1>2, <1>3, FS_Subset

\* The first k events: as many, unreviewed ones before any that is blocked.
LEMMA FirstEventsCount ==
  ASSUME NEW S \in SUBSET Nat, IsFiniteSet(S), NEW k \in Nat
  PROVE  /\ FirstEvents(S, k) \subseteq S /\ IsFiniteSet(FirstEvents(S, k))
         /\ Cardinality(FirstEvents(S, k)) = Smaller(k, Cardinality(S))
         /\ FirstEvents(S, k) \subseteq Unreviewed(S) \/ Unreviewed(S) \subseteq FirstEvents(S, k)
<1> DEFINE U == Unreviewed(S)
           B == S \ U
           fresh == Oldest(U, k)
           left == k - Cardinality(fresh)
           old == Oldest(B, left)
<1>1. U \in SUBSET S /\ B \in SUBSET S /\ U \in SUBSET Nat /\ B \in SUBSET Nat
      /\ U \cap B = {} /\ U \cup B = S
  BY DEF Unreviewed
<1>2. FirstEvents(S, k) = fresh \cup old
  BY DEF FirstEvents
<1> HIDE DEF U, B
<1>3. IsFiniteSet(U) /\ IsFiniteSet(B) /\ Cardinality(U) \in Nat /\ Cardinality(B) \in Nat
  BY <1>1, FS_Subset, FS_CardinalityType
<1>4. Cardinality(S) = Cardinality(U) + Cardinality(B)
  <2>1. Cardinality(U \cup B) = Cardinality(U) + Cardinality(B) - Cardinality(U \cap B)
    BY <1>3, FS_Union
  <2>2. Cardinality(U \cap B) = 0 /\ U \cup B = S
    BY <1>1, FS_EmptySet
  <2>3. Cardinality(U \cup B) = Cardinality(S)
    BY <2>2
  <2>4. Cardinality(U \cap B) = 0
    BY <2>2
  <2>5. QED
    BY ONLY <1>3, <2>1, <2>3, <2>4
<1>5. IsFiniteSet(fresh) /\ Cardinality(fresh) = Smaller(k, Cardinality(U)) /\ fresh \subseteq U
  BY <1>1, <1>3, OldestCount DEF Oldest
<1>6. left \in Nat /\ Cardinality(fresh) \in Nat
  BY <1>3, <1>5 DEF Smaller
<1>7. IsFiniteSet(old) /\ Cardinality(old) = Smaller(left, Cardinality(B)) /\ old \subseteq B
  <2> HIDE DEF left
  <2>1. QED
    BY <1>1, <1>3, <1>6, OldestCount DEF Oldest
<1>8. Cardinality(U) <= k => fresh = U
  BY <1>1, <1>3, OldestAll
<1>9. Cardinality(U) > k => old = {}
  <2>1. Cardinality(U) > k => left = 0
    BY <1>3, <1>5 DEF Smaller
  <2>2. Oldest(B, 0) = {}
    BY <1>1, <1>3, OldestNone
  <2>3. QED
    BY <2>1, <2>2
<1> HIDE DEF fresh, old
<1>10. fresh \cap old = {} /\ fresh \cup old \subseteq S
  BY <1>1, <1>5, <1>7
<1>11. IsFiniteSet(fresh \cup old)
       /\ Cardinality(fresh \cup old) = Cardinality(fresh) + Cardinality(old)
  <2>1. IsFiniteSet(fresh \cup old) /\ Cardinality(fresh \cup old)
          = Cardinality(fresh) + Cardinality(old) - Cardinality(fresh \cap old)
    BY <1>5, <1>7, FS_Union
  <2>2. Cardinality(fresh \cap old) = 0 /\ Cardinality(old) \in Nat
    BY <1>7, <1>10, FS_EmptySet, FS_CardinalityType
  <2>3. QED
    BY <2>1, <2>2, <1>6
<1>12. Cardinality(fresh \cup old) = Smaller(k, Cardinality(S))
  BY <1>3, <1>4, <1>5, <1>6, <1>7, <1>11 DEF Smaller
<1>13. fresh \cup old \subseteq U \/ U \subseteq fresh \cup old
  BY <1>3, <1>5, <1>8, <1>9
<1>14. QED
  BY <1>2, <1>10, <1>11, <1>12, <1>13 DEF U

LEMMA DueDeadAreFinite ==
  /\ DueDead(EventRows) \in SUBSET Nat /\ IsFiniteSet(DueDead(EventRows))
  /\ DueDead(UsageRows) \in SUBSET Nat /\ IsFiniteSet(DueDead(UsageRows))
  /\ DueDead(EventRows) \cap DueDead(UsageRows) = {}
<1>1. DueDead(EventRows) \subseteq EventRows /\ DueDead(UsageRows) \subseteq UsageRows
  BY DEF DueDead
<1>2. DueDead(EventRows) \in SUBSET Rows /\ DueDead(UsageRows) \in SUBSET Rows
  BY <1>1 DEF Rows
<1>3. IsFiniteSet(DueDead(EventRows)) /\ IsFiniteSet(DueDead(UsageRows))
  BY <1>2, RowsAssumption, FS_Subset
<1>4. QED
  BY <1>1, <1>3, RowsAssumption

\* A page of any size, in any state: how many of each queue it takes.
LEMMA PageCounts ==
  ASSUME NEW limit \in Nat \ {0}
  PROVE  LET events == DueDead(EventRows)
             usages == DueDead(UsageRows)
             page   == PageEvents(limit) \union PageUsages(limit)
         IN  /\ Cardinality(page) = Smaller(limit, Cardinality(events \union usages))
             /\ limit > 1 /\ events # {} /\ usages # {} =>
                  page \intersect events # {} /\ page \intersect usages # {}
             /\ page \intersect events \subseteq Unreviewed(events)
                  \/ Unreviewed(events) \subseteq page
<1> DEFINE E == DueDead(EventRows)
           U == DueDead(UsageRows)
           e == Cardinality(E)
           u == Cardinality(U)
           b == EventBudget(limit)
           taken == Smaller(limit - b, u)
           first == FirstEvents(E, b)
           more == limit - Cardinality(first) - taken
           rest == FirstEvents(E \ first, more)
           PE == PageEvents(limit)
           PU == PageUsages(limit)
<1>1. /\ E \in SUBSET Nat /\ IsFiniteSet(E) /\ e \in Nat
      /\ U \in SUBSET Nat /\ IsFiniteSet(U) /\ u \in Nat
      /\ E \cap U = {} /\ (e = 0 <=> E = {}) /\ (u = 0 <=> U = {})
  BY DueDeadAreFinite, FS_CardinalityType, FS_EmptySet
<1>2. /\ b \in Nat /\ b <= limit
      /\ (limit > 1 /\ E # {} /\ U # {}) => b >= 1 /\ b < limit
  <2>1. limit \div 2 \in Nat /\ limit \div 2 <= limit
        /\ (limit > 1 => limit \div 2 >= 1 /\ limit \div 2 < limit)
    OBVIOUS
  <2>2. b = IF E = {} THEN 0 ELSE IF U = {} THEN limit
            ELSE IF limit = 1 THEN IF Unreviewed(E) # {} THEN 1 ELSE 0 ELSE limit \div 2
    BY DEF EventBudget
  <2> HIDE DEF b, E, U
  <2>3. QED
    BY <2>1, <2>2
<1>3. PE = first \cup rest /\ PU = Oldest(U, limit - Cardinality(PE))
  BY DEF PageEvents, PageUsages
<1> HIDE DEF E, U, b, PE, PU
<1>4. /\ first \subseteq E /\ IsFiniteSet(first) /\ Cardinality(first) = Smaller(b, e)
      /\ first \subseteq Unreviewed(E) \/ Unreviewed(E) \subseteq first
  BY <1>1, <1>2, FirstEventsCount
<1>5. taken \in Nat /\ taken <= limit - b /\ taken <= u
      /\ (taken = limit - b \/ taken = u)
  BY <1>1, <1>2 DEF Smaller
<1>6. Cardinality(first) \in Nat /\ Cardinality(first) <= b /\ Cardinality(first) <= e
  BY <1>1, <1>2, <1>4 DEF Smaller
<1>7. more \in Nat
  BY <1>2, <1>5, <1>6
<1> HIDE DEF first, taken
<1>8. /\ E \ first \in SUBSET Nat /\ IsFiniteSet(E \ first)
      /\ Cardinality(E \ first) = e - Cardinality(first)
  <2>1. IsFiniteSet(E \ first) /\ Cardinality(E \ first) = e - Cardinality(E \cap first)
    BY <1>1, FS_Difference
  <2>2. E \cap first = first
    BY <1>4
  <2>3. QED
    BY <1>1, <2>1, <2>2
<1>9. /\ rest \subseteq E \ first /\ IsFiniteSet(rest)
      /\ Cardinality(rest) = Smaller(more, e - Cardinality(first))
      /\ rest \subseteq Unreviewed(E \ first) \/ Unreviewed(E \ first) \subseteq rest
  <2> HIDE DEF more
  <2>1. QED
    BY <1>7, <1>8, FirstEventsCount
<1> HIDE DEF rest
<1>10. /\ PE \subseteq E /\ IsFiniteSet(PE)
       /\ Cardinality(PE) = Cardinality(first) + Cardinality(rest)
  <2>1. first \cap rest = {} /\ PE \subseteq E
    BY <1>3, <1>4, <1>9
  <2>2. IsFiniteSet(PE) /\ Cardinality(PE)
          = Cardinality(first) + Cardinality(rest) - Cardinality(first \cap rest)
    BY <1>3, <1>4, <1>9, FS_Union
  <2>3. Cardinality(first \cap rest) = 0 /\ Cardinality(rest) \in Nat
    BY <1>9, <2>1, FS_EmptySet, FS_CardinalityType
  <2>4. QED
    BY <1>6, <2>1, <2>2, <2>3
<1>11. Cardinality(PE) = Smaller(e, limit - taken) /\ Cardinality(PE) \in Nat
  BY <1>1, <1>2, <1>5, <1>6, <1>9, <1>10 DEF Smaller
<1>12. limit - Cardinality(PE) \in Nat /\ limit - Cardinality(PE) >= taken
  BY <1>1, <1>2, <1>5, <1>11 DEF Smaller
<1>13. /\ PU \subseteq U /\ IsFiniteSet(PU)
       /\ Cardinality(PU) = Smaller(limit - Cardinality(PE), u)
  BY <1>1, <1>3, <1>12, OldestCount DEF Oldest
<1>14. Cardinality(PU) \in Nat
  BY <1>13, FS_CardinalityType
<1>15. /\ Cardinality(PE \cup PU) = Cardinality(PE) + Cardinality(PU)
       /\ Cardinality(E \cup U) = e + u
  <2>1. PE \cap PU = {}
    BY <1>1, <1>10, <1>13
  <2>2. Cardinality(PE \cup PU) = Cardinality(PE) + Cardinality(PU) - Cardinality(PE \cap PU)
    BY <1>10, <1>13, FS_Union
  <2>3. Cardinality(E \cup U) = e + u - Cardinality(E \cap U)
    BY <1>1, FS_Union
  <2>4. Cardinality(PE \cap PU) = 0 /\ Cardinality(E \cap U) = 0
    BY <1>1, <2>1, FS_EmptySet
  <2>5. QED
    BY <1>1, <1>11, <1>14, <2>2, <2>3, <2>4
<1>16. Cardinality(PE \cup PU) = Smaller(limit, Cardinality(E \cup U))
  BY <1>1, <1>2, <1>5, <1>11, <1>12, <1>13, <1>15 DEF Smaller
<1>17. ASSUME limit > 1, E # {}, U # {}
       PROVE  (PE \cup PU) \cap E # {} /\ (PE \cup PU) \cap U # {}
  <2>1. e >= 1 /\ u >= 1 /\ b >= 1 /\ b < limit
    <3>1. b >= 1 /\ b < limit
      BY <1>2, <1>17
    <3>2. e # 0 /\ e \in Nat /\ u # 0 /\ u \in Nat
      BY <1>1, <1>17
    <3> HIDE DEF e, u
    <3>3. QED
      BY <3>1, <3>2
  <2> HIDE DEF e, u
  <2>2. taken >= 1 /\ limit - taken >= 1
    BY <1>2, <1>5, <2>1
  <2>3. Cardinality(PE) >= 1
    BY <1>11, <2>1, <2>2 DEF Smaller
  <2>4. Cardinality(PU) >= 1
    <3>1. Cardinality(PU) = u \/ Cardinality(PU) = limit - Cardinality(PE)
      BY <1>13 DEF Smaller
    <3>2. limit - Cardinality(PE) >= 1
      BY <1>2, <1>5, <1>11, <1>12, <2>2
    <3>3. QED
      BY <2>1, <3>1, <3>2
  <2>5. PE # {} /\ PU # {}
    BY <2>3, <2>4, FS_EmptySet
  <2>6. QED
    BY <2>5, <1>10, <1>13
<1>18. (PE \cup PU) \cap E \subseteq Unreviewed(E) \/ Unreviewed(E) \subseteq PE \cup PU
  <2>1. (PE \cup PU) \cap E = PE
    BY <1>1, <1>10, <1>13
  <2>2. Unreviewed(E \ first) = Unreviewed(E) \ first
    BY DEF Unreviewed
  <2>3. QED
    BY <1>3, <1>4, <1>9, <2>1, <2>2
<1>19. QED
  BY <1>16, <1>17, <1>18 DEF E, U, PE, PU

\* Every page of reconciliation is as full as its limit allows and fair between
\* the queues, for any limit and any number of dead letters.
THEOREM PagesCorrect == Spec => []PagesAreFullAndFair
<1>1. PagesAreFullAndFair
  BY PageCounts, ParameterAssumption DEF PagesAreFullAndFair
<1>2. QED
  BY <1>1, PTL
===============================================================================
