--------------------------- MODULE MauticOutboxProofs ---------------------------
(***************************************************************************)
(* Proofs about MauticOutbox, for any operations, workers, limits and      *)
(* bounds: types, that an effect is never hidden, that late successes are  *)
(* put aside, and that the queue keeps the promise of AtMostOnceOutbox.    *)
(***************************************************************************)
EXTENDS MauticOutbox, TLAPS

-------------------------------------------------------------------------------
(* Types. *)

LEMMA IdleWorkerType == IdleWorker \in Worker
  BY BoundsAssumption DEF IdleWorker, NewCircuit, Worker, Answers, Circuit

\* A busy worker has an operation in hand, any other worker has none.
Busy(w) == worker[w].step \in {"claimed", "calling", "answered", "recording"}

HandsAreFull ==
  \A w \in Workers : IF Busy(w) THEN worker[w].operation \in Operations
                     ELSE worker[w].operation = NoOperation

LEMMA CircuitAfterType ==
  ASSUME TypeOK, NEW w \in Workers
  PROVE  CircuitAfter(w) \in Circuit
<1> DEFINE seen == worker[w].seen
           streak == IF seen.streak = Threshold THEN Threshold ELSE seen.streak + 1
<1>1. circuit \in Circuit /\ seen \in Circuit /\ worker[w].answer \in Answers
  BY DEF TypeOK, Worker
<1>2. streak \in 0 .. Threshold
  BY <1>1, BoundsAssumption DEF Circuit
<1> HIDE DEF seen, streak
<1>3. CircuitAfter(w) =
        CASE worker[w].answer = "ok" ->
               [streak |-> IF seen.streak # 0 THEN 0 ELSE circuit.streak,
                until  |-> IF seen.until # "unset" THEN "unset" ELSE circuit.until]
          [] worker[w].answer = "rejected" -> circuit
          [] OTHER -> [streak |-> streak,
                       until  |-> IF streak = Threshold THEN "future" ELSE circuit.until]
  BY DEF CircuitAfter, seen, streak
<1>4. CASE worker[w].answer = "ok"
  BY <1>1, <1>3, <1>4, BoundsAssumption DEF Circuit
<1>5. CASE worker[w].answer = "rejected"
  BY <1>1, <1>3, <1>5
<1>6. CASE worker[w].answer \notin {"ok", "rejected"}
  BY <1>1, <1>2, <1>3, <1>6 DEF Circuit
<1>7. QED
  BY <1>4, <1>5, <1>6

LEMMA StateAfterType ==
  ASSUME NEW w \in Workers
  PROVE  /\ StateAfter(w) \in {"COMPLETED", "RETRY", "DEAD_LETTER"}
         /\ StateAfter(w) = "COMPLETED" <=> worker[w].answer = "ok"
         /\ StateAfter(w) = "RETRY" => worker[w].answer = "busy"
  BY DEF StateAfter, Retryable

LEMMA StepType ==
  ASSUME TypeOK, HandsAreFull, [Next]_vars
  PROVE  TypeOK'
<1> USE DEF TypeOK
<1>1. ASSUME NEW m \in Operations, BecomeDue(m) \/ Expire(m) PROVE TypeOK'
  <2>1. /\ [row[m] EXCEPT !.due = TRUE] \in Row
        /\ [row[m] EXCEPT !.expired = TRUE] \in Row
    BY DEF Row
  <2>2. \/ row' = [row EXCEPT ![m] = [row[m] EXCEPT !.due = TRUE]]
        \/ row' = [row EXCEPT ![m] = [row[m] EXCEPT !.expired = TRUE]]
    BY <1>1 DEF BecomeDue, Expire
  <2>3. row' \in [Operations -> Row]
    BY <2>1, <2>2
  <2>4. QED
    BY <1>1, <2>3 DEF BecomeDue, Expire
<1>2. ASSUME NEW m \in Operations, Enqueue(m) \/ Cancel(m) \/ Recover(m) PROVE TypeOK'
  BY <1>2 DEF Enqueue, Cancel, Recover, Row
<1>3. ASSUME NEW m \in Operations, Fail(m) PROVE TypeOK'
  <2> DEFINE state == IF row[m].attempts + 1 >= FailLimit THEN "DEAD_LETTER" ELSE "RETRY"
  <2>1. state \in {"DEAD_LETTER", "RETRY"}
    OBVIOUS
  <2>2. row' = [row EXCEPT ![m].state = state, ![m].attempts = @ + 1, ![m].due = FALSE]
    BY <1>3 DEF Fail
  <2> HIDE DEF state
  <2>3. QED
    BY <1>3, <2>1, <2>2 DEF Fail, Row, Count
<1>4. CASE CircuitCloses
  BY <1>4 DEF CircuitCloses, Circuit
<1>5. ASSUME NEW w \in Workers, RecoverExpired(w) PROVE TypeOK'
  <2> DEFINE aside == {m \in Operations :
                         row[m].state = "PROCESSING" /\ row[m].expired /\ ~Locked(m)}
  <2>1. row' = [m \in Operations |->
                  IF m \in aside
                  THEN [row[m] EXCEPT !.state = "DEAD_LETTER", !.expired = FALSE]
                  ELSE row[m]]
    BY <1>5 DEF RecoverExpired, AfterExpiry
  <2> HIDE DEF aside
  <2>2. \A m \in Operations :
          [row[m] EXCEPT !.state = "DEAD_LETTER", !.expired = FALSE] \in Row
    BY DEF Row
  <2>3. row' \in [Operations -> Row]
    BY <2>1, <2>2
  <2>4. worker' \in [Workers -> Worker]
    BY <1>5 DEF RecoverExpired, Worker
  <2>5. QED
    BY <1>5, <2>3, <2>4 DEF RecoverExpired
<1>6. ASSUME NEW w \in Workers, FindNothing(w) PROVE TypeOK'
  BY <1>6, IdleWorkerType DEF FindNothing
<1>7. ASSUME NEW w \in Workers, NEW m \in Operations, Claim(w, m) PROVE TypeOK'
  <2>1. row' \in [Operations -> Row]
    BY <1>7 DEF Claim, Row
  <2>2. [IdleWorker EXCEPT !.step = "claimed", !.operation = m,
                           !.attempt = row[m].attempts + 1] \in Worker
    <3>1. row[m].attempts + 1 \in Nat
      BY DEF Row
    <3>2. QED
      BY <3>1, IdleWorkerType DEF Worker
  <2>3. QED
    BY <1>7, <2>1, <2>2 DEF Claim
<1>8. ASSUME NEW w \in Workers, Recheck(w) PROVE TypeOK'
  BY <1>8, IdleWorkerType DEF Recheck, Worker
<1>9. ASSUME NEW w \in Workers, Call(w) PROVE TypeOK'
  <2>1. worker[w].operation \in Operations
    BY <1>9 DEF Call, HandsAreFull, Busy
  <2>2. performed' \in [Operations -> Nat]
    BY <1>9, <2>1 DEF Call
  <2>3. worker' \in [Workers -> Worker]
    <3> DEFINE fresh == ~row[worker[w].operation].expired
    <3>1. PICK answer \in Answers :
            worker' = [worker EXCEPT ![w].step = "answered", ![w].answer = answer,
                                     ![w].fresh = fresh]
      BY <1>9 DEF Call
    <3>2. fresh \in BOOLEAN
      OBVIOUS
    <3> HIDE DEF fresh
    <3>3. [worker[w] EXCEPT !.step = "answered", !.answer = answer, !.fresh = fresh] \in Worker
      <4>1. worker[w] \in Worker
        OBVIOUS
      <4>2. QED
        BY <3>2, <4>1 DEF Worker
    <3>4. worker' = [worker EXCEPT ![w] = [worker[w] EXCEPT !.step = "answered",
                                                            !.answer = answer,
                                                            !.fresh = fresh]]
      BY <3>1
    <3>5. QED
      BY <3>3, <3>4
  <2>4. QED
    BY <1>9, <2>2, <2>3 DEF Call
<1>10. ASSUME NEW w \in Workers, RecordLate(w) PROVE TypeOK'
  <2>1. worker' \in [Workers -> Worker]
    BY <1>10, IdleWorkerType DEF RecordLate
  <2>2. \/ row' = row
        \/ row' = [row EXCEPT ![worker[w].operation].late = TRUE]
    BY <1>10 DEF RecordLate
  <2>3. \A m \in Operations : [row[m] EXCEPT !.late = TRUE] \in Row
    BY DEF Row
  <2>4. ASSUME NEW m \in Operations, row' = [row EXCEPT ![m].late = TRUE]
        PROVE  row' \in [Operations -> Row]
    <3>1. row' = [row EXCEPT ![m] = [row[m] EXCEPT !.late = TRUE]]
      BY <2>4
    <3>2. QED
      BY <2>3, <3>1
  <2>5. worker[w].operation \in Operations
    BY <1>10 DEF RecordLate, HandsAreFull, Busy
  <2>6. row' \in [Operations -> Row]
    <3>1. CASE row' = row
      BY <3>1
    <3>2. CASE row' = [row EXCEPT ![worker[w].operation].late = TRUE]
      BY <2>4, <2>5, <3>2
    <3>3. QED
      BY <2>2, <3>1, <3>2
  <2>7. circuit' = circuit /\ performed' = performed /\ count' = count
    BY <1>10 DEF RecordLate
  <2>8. QED
    BY <2>1, <2>6, <2>7
<1>11. ASSUME NEW w \in Workers, Lock(w) PROVE TypeOK'
  <2> DEFINE seen == IF worker[w].answer = "rejected" THEN worker[w].seen ELSE circuit
  <2>1. worker[w] \in Worker
    OBVIOUS
  <2>2. seen \in Circuit
    BY <2>1 DEF Worker
  <2>3. worker' = [worker EXCEPT ![w].step = "recording", ![w].seen = seen]
    BY <1>11 DEF Lock
  <2> HIDE DEF seen
  <2>4. [worker[w] EXCEPT !.step = "recording", !.seen = seen] \in Worker
    BY <2>1, <2>2 DEF Worker
  <2>5. worker' = [worker EXCEPT ![w] = [worker[w] EXCEPT !.step = "recording", !.seen = seen]]
    BY <2>3
  <2>6. worker' \in [Workers -> Worker]
    BY <2>4, <2>5
  <2>7. row' = row /\ circuit' = circuit /\ performed' = performed /\ count' = count
    BY <1>11 DEF Lock
  <2>8. QED
    BY <2>6, <2>7
<1>12. ASSUME NEW w \in Workers, Record(w) PROVE TypeOK'
  <2> DEFINE m == worker[w].operation
             state == StateAfter(w)
             due == (state = "COMPLETED")
  <2>1. state \in {"COMPLETED", "RETRY", "DEAD_LETTER"} /\ due \in BOOLEAN
    BY StateAfterType
  <2>2. row' = [row EXCEPT ![m].state = state, ![m].expired = FALSE, ![m].due = due]
    BY <1>12 DEF Record
  <2>3. m \in Operations
    BY <1>12 DEF Record, HandsAreFull, Busy
  <2> HIDE DEF m, state, due
  <2>4. [row[m] EXCEPT !.state = state, !.expired = FALSE, !.due = due] \in Row
    BY <2>1, <2>3 DEF Row
  <2>5. row' = [row EXCEPT ![m] = [row[m] EXCEPT !.state = state, !.expired = FALSE,
                                                 !.due = due]]
    BY <2>2
  <2>6. row' \in [Operations -> Row]
    BY <2>4, <2>5
  <2>7. QED
    BY <1>12, <2>6, CircuitAfterType, IdleWorkerType DEF Record
<1>13. ASSUME NEW w \in Workers, Crash(w) PROVE TypeOK'
  BY <1>13, IdleWorkerType DEF Crash, Count
<1>14. CASE UNCHANGED vars
  BY <1>14 DEF vars
<1>15. QED
  BY <1>1, <1>2, <1>3, <1>4, <1>5, <1>6, <1>7, <1>8, <1>9, <1>10, <1>11, <1>12, <1>13, <1>14
     DEF Next, Time, Request, Pass

-------------------------------------------------------------------------------
(* The inductive invariant. A row in a worker's hand is in progress or put  *)
(* aside, so that nobody else takes it; it was not performed before that    *)
(* worker calls, and the answer tells whether it was then. Only a row that  *)
(* is in progress, completed or put aside has been performed.               *)

Holds(w, m) == Busy(w) /\ worker[w].operation = m

Answered(w) == worker[w].step \in {"answered", "recording"}

RowSound(m) ==
  /\ performed[m] <= 1
  /\ row[m].state \in {"none", "PENDING", "RETRY", "CANCELLED"} => performed[m] = 0
  /\ row[m].state = "COMPLETED" => performed[m] = 1
  /\ row[m].late =>
       /\ performed[m] > 0
       /\ row[m].state = "DEAD_LETTER" \/ (row[m].state = "PROCESSING" /\ row[m].expired)

HoldSound(w, m) ==
  /\ row[m].state \in {"PROCESSING", "DEAD_LETTER"} /\ ~row[m].late
  /\ row[m].attempts = worker[w].attempt
  /\ ~Answered(w) => performed[m] = 0
  /\ Answered(w) /\ worker[w].answer = "busy" => performed[m] = 0
  /\ Answered(w) /\ worker[w].answer = "ok" => performed[m] = 1
  /\ Answered(w) /\ ~worker[w].fresh /\ row[m].state = "PROCESSING" => row[m].expired
  /\ worker[w].step = "recording" => row[m].state = "PROCESSING"

OneHolder ==
  \A v, w \in Workers : \A m \in Operations : Holds(v, m) /\ Holds(w, m) => v = w

RowsAreSound == \A m \in Operations : RowSound(m)

HoldsAreSound == \A w \in Workers : \A m \in Operations : Holds(w, m) => HoldSound(w, m)

Inv == TypeOK /\ HandsAreFull /\ OneHolder /\ RowsAreSound /\ HoldsAreSound

LEMMA InvInit == Init => Inv
<1> SUFFICES ASSUME Init PROVE Inv
  OBVIOUS
<1>1. TypeOK
  BY IdleWorkerType, BoundsAssumption DEF Init, TypeOK, Row, Circuit, NewCircuit, Count
<1>2. \A w \in Workers : ~Busy(w) /\ worker[w].operation = NoOperation
  BY DEF Init, Busy, IdleWorker
<1>3. \A m \in Operations : row[m].state = "none" /\ ~row[m].late /\ performed[m] = 0
  BY DEF Init
<1>4. QED
  BY <1>1, <1>2, <1>3
     DEF Inv, HandsAreFull, OneHolder, RowsAreSound, RowSound, HoldsAreSound, Holds

-------------------------------------------------------------------------------
(* Steps of others than the holders. *)

\* How a row may change while it is in a worker's hand or not.
RowMoves(m) ==
  \/ /\ row'[m].state = row[m].state /\ row'[m].attempts = row[m].attempts
     /\ row'[m].late = row[m].late /\ (row[m].expired => row'[m].expired)
  \/ /\ row[m].state \in {"none", "PENDING", "RETRY"}
     /\ row'[m].state \in {"PENDING", "RETRY", "CANCELLED", "DEAD_LETTER"}
     /\ row'[m].late = row[m].late
  \/ /\ row[m].state = "PROCESSING" /\ row'[m].state = "DEAD_LETTER" /\ ~Locked(m)
     /\ row'[m].attempts = row[m].attempts /\ row'[m].late = row[m].late

RowsMove ==
  /\ \A m \in Operations : RowMoves(m)
  /\ performed' = performed
  /\ \A w \in Workers :
       \/ worker'[w] = worker[w]
       \/ ~Busy(w) /\ ~Busy(w)' /\ worker'[w].operation = NoOperation

LEMMA RowsMoveKeeps ==
  ASSUME Inv, TypeOK', RowsMove
  PROVE  Inv'
<1>1. \A w \in Workers : Busy(w)' <=> Busy(w)
  BY DEF RowsMove, Busy
<1>2. \A w \in Workers : \A m \in Operations :
        Holds(w, m)' => Holds(w, m) /\ worker'[w] = worker[w]
  BY <1>1 DEF RowsMove, Holds
<1>3. HandsAreFull'
  BY <1>1 DEF Inv, HandsAreFull, RowsMove
<1>4. OneHolder'
  BY <1>2 DEF Inv, OneHolder
<1>5. RowsAreSound'
  <2> SUFFICES ASSUME NEW m \in Operations PROVE RowSound(m)'
    BY DEF RowsAreSound
  <2>1. RowSound(m) /\ RowMoves(m) /\ performed'[m] = performed[m]
    BY DEF Inv, RowsAreSound, RowsMove
  <2>2. QED
    BY <2>1 DEF RowSound, RowMoves
<1>6. HoldsAreSound'
  <2> SUFFICES ASSUME NEW w \in Workers, NEW m \in Operations, Holds(w, m)'
               PROVE  HoldSound(w, m)'
    BY DEF HoldsAreSound
  <2>1. /\ HoldSound(w, m) /\ worker'[w] = worker[w]
        /\ RowMoves(m) /\ performed'[m] = performed[m]
        /\ worker[w].operation = m
    BY <1>2 DEF Inv, HoldsAreSound, RowsMove, Holds
  <2>2. worker[w].step = "recording" => row'[m].state = row[m].state
    BY <2>1 DEF HoldSound, RowMoves, Locked
  <2>3. QED
    BY <2>1, <2>2 DEF HoldSound, RowMoves, Answered
<1>7. QED
  BY <1>3, <1>4, <1>5, <1>6 DEF Inv

-------------------------------------------------------------------------------
(* Steps of a worker and of the operation in its hand. *)

OthersKeep(w, m) ==
  /\ \A v \in Workers \ {w} : worker'[v] = worker[v]
  /\ \A n \in Operations \ {m} : row'[n] = row[n] /\ performed'[n] = performed[n]

\* The operation is in the worker's hand or in nobody's, and the step leaves
\* the two sound.
LEMMA LocalKeeps ==
  ASSUME Inv, TypeOK', NEW w \in Workers, NEW m \in Operations, OthersKeep(w, m),
         \A v \in Workers \ {w} : ~Holds(v, m),
         IF Busy(w)' THEN worker'[w].operation = m /\ HoldSound(w, m)'
         ELSE worker'[w].operation = NoOperation,
         RowSound(m)'
  PROVE  Inv'
<1>1. \A v \in Workers \ {w} : Busy(v)' <=> Busy(v)
  BY DEF OthersKeep, Busy
<1>2. \A v \in Workers \ {w} : \A n \in Operations : Holds(v, n)' => Holds(v, n) /\ n # m
  BY <1>1 DEF OthersKeep, Holds
<1>3. \A n \in Operations : Holds(w, n)' => n = m /\ Busy(w)'
  BY DEF Holds
<1>4. HandsAreFull'
  BY <1>1 DEF Inv, HandsAreFull, OthersKeep
<1>5. OneHolder'
  BY <1>2, <1>3 DEF Inv, OneHolder
<1>6. RowsAreSound'
  <2> SUFFICES ASSUME NEW n \in Operations \ {m} PROVE RowSound(n)'
    BY DEF RowsAreSound
  <2>1. RowSound(n) /\ row'[n] = row[n] /\ performed'[n] = performed[n]
    BY DEF Inv, RowsAreSound, OthersKeep
  <2>2. QED
    BY <2>1 DEF RowSound
<1>7. HoldsAreSound'
  <2> SUFFICES ASSUME NEW v \in Workers \ {w}, NEW n \in Operations, Holds(v, n)'
               PROVE  HoldSound(v, n)'
    BY <1>3 DEF HoldsAreSound
  <2>1. /\ HoldSound(v, n) /\ worker'[v] = worker[v]
        /\ row'[n] = row[n] /\ performed'[n] = performed[n]
    BY <1>2 DEF Inv, HoldsAreSound, OthersKeep
  <2>2. QED
    BY <2>1 DEF HoldSound, Answered
<1>8. QED
  BY <1>4, <1>5, <1>6, <1>7 DEF Inv

\* What the invariant says of a busy worker.
LEMMA InHand ==
  ASSUME Inv, NEW w \in Workers, Busy(w)
  PROVE  worker[w].operation \in Operations
  BY DEF Inv, HandsAreFull

\* What it says of the operation in a busy worker's hand.
LEMMA HeldIsSound ==
  ASSUME Inv, NEW w \in Workers, NEW m \in Operations, Busy(w), worker[w].operation = m
  PROVE  /\ HoldSound(w, m) /\ RowSound(m) /\ row[m] \in Row /\ performed[m] \in Nat
         /\ \A v \in Workers \ {w} : ~Holds(v, m)
<1>1. Holds(w, m)
  BY DEF Holds
<1>2. QED
  BY <1>1 DEF Inv, TypeOK, OneHolder, RowsAreSound, HoldsAreSound

LEMMA ClaimKeeps ==
  ASSUME Inv, TypeOK', NEW w \in Workers, NEW m \in Operations, Claim(w, m)
  PROVE  Inv'
<1>1. /\ ~Busy(w) /\ row[m].state \in {"PENDING", "RETRY"} /\ ~row[m].late
      /\ row[m].attempts \in Nat
  BY DEF Claim, Claimable, Busy, Inv, TypeOK, Row
<1>2. /\ row'[m].state = "PROCESSING" /\ row'[m].attempts = row[m].attempts + 1
      /\ ~row'[m].late
      /\ \A n \in Operations \ {m} : row'[n] = row[n]
  BY <1>1 DEF Claim, Inv, TypeOK, Row
<1>3. /\ worker'[w].step = "claimed" /\ worker'[w].operation = m
      /\ worker'[w].attempt = row[m].attempts + 1
      /\ \A v \in Workers \ {w} : worker'[v] = worker[v]
  BY DEF Claim, IdleWorker, Inv, TypeOK
<1>4. performed' = performed /\ performed[m] = 0
  BY <1>1 DEF Claim, Inv, RowsAreSound, RowSound
<1>5. OthersKeep(w, m)
  BY <1>2, <1>3, <1>4 DEF OthersKeep
<1>6. \A v \in Workers \ {w} : ~Holds(v, m)
  BY <1>1 DEF Inv, HoldsAreSound, HoldSound
<1>7. HoldSound(w, m)' /\ RowSound(m)' /\ Busy(w)'
  BY <1>2, <1>3, <1>4 DEF HoldSound, RowSound, Answered, Busy
<1>8. QED
  BY <1>3, <1>5, <1>6, <1>7, LocalKeeps

LEMMA RecheckKeeps ==
  ASSUME Inv, TypeOK', NEW w \in Workers, Recheck(w)
  PROVE  Inv'
<1>1. Busy(w) /\ ~Answered(w)
  BY DEF Recheck, Busy, Answered
<1>2. PICK m \in Operations : worker[w].operation = m
  BY <1>1, InHand
<1>3. /\ HoldSound(w, m) /\ RowSound(m)
      /\ \A v \in Workers \ {w} : ~Holds(v, m)
  BY <1>1, <1>2, HeldIsSound
<1>4. /\ \/ worker' = [worker EXCEPT ![w].step = "calling"]
         \/ worker' = [worker EXCEPT ![w] = IdleWorker]
      /\ row' = row /\ performed' = performed
  BY DEF Recheck
<1>5. /\ \/ /\ worker'[w].step = "calling" /\ worker'[w].operation = m
            /\ worker'[w].attempt = worker[w].attempt
         \/ worker'[w] = IdleWorker
      /\ \A v \in Workers \ {w} : worker'[v] = worker[v]
  BY <1>2, <1>4 DEF Inv, TypeOK, Worker
<1>6. OthersKeep(w, m) /\ RowSound(m)'
  BY <1>3, <1>4, <1>5 DEF OthersKeep, RowSound
<1>7. IF Busy(w)' THEN worker'[w].operation = m /\ HoldSound(w, m)'
      ELSE worker'[w].operation = NoOperation
  BY <1>1, <1>3, <1>4, <1>5 DEF Busy, IdleWorker, HoldSound, Answered
<1>8. QED
  BY <1>3, <1>6, <1>7, LocalKeeps

\* What Call does to the operation in the worker's hand.
LEMMA CallWrites ==
  ASSUME Inv, NEW w \in Workers, NEW m \in Operations, worker[w].operation = m, Call(w)
  PROVE  /\ row' = row /\ performed[m] = 0
         /\ worker'[w].step = "answered" /\ worker'[w].operation = m
         /\ worker'[w].attempt = worker[w].attempt
         /\ worker'[w].fresh = ~row[m].expired
         /\ \A v \in Workers \ {w} : worker'[v] = worker[v]
         /\ \/ /\ worker'[w].answer \in {"ok", "doubt"}
               /\ performed' = [performed EXCEPT ![m] = 1]
            \/ worker'[w].answer # "ok" /\ performed' = performed
<1> DEFINE fresh == ~row[m].expired
<1>1. performed[m] = 0
  <2>1. Busy(w) /\ ~Answered(w)
    BY DEF Call, Busy, Answered
  <2>2. QED
    BY <2>1, HeldIsSound DEF HoldSound
<1>2. PICK answer \in Answers :
        /\ worker' = [worker EXCEPT ![w].step = "answered", ![w].answer = answer,
                                    ![w].fresh = fresh]
        /\ \/ answer \in {"ok", "doubt"} /\ performed' = [performed EXCEPT ![m] = @ + 1]
           \/ answer # "ok" /\ performed' = performed
  BY DEF Call
<1> HIDE DEF fresh
<1>3. /\ worker'[w].step = "answered" /\ worker'[w].answer = answer
      /\ worker'[w].fresh = fresh
      /\ worker'[w].operation = m
      /\ worker'[w].attempt = worker[w].attempt
      /\ \A v \in Workers \ {w} : worker'[v] = worker[v]
  BY <1>2 DEF Inv, TypeOK, Worker
<1>4. [performed EXCEPT ![m] = @ + 1] = [performed EXCEPT ![m] = 1]
  BY <1>1
<1>5. QED
  BY <1>1, <1>2, <1>3, <1>4 DEF Call, fresh

LEMMA CallKeeps ==
  ASSUME Inv, TypeOK', NEW w \in Workers, Call(w)
  PROVE  Inv'
<1>1. Busy(w) /\ ~Answered(w)
  BY DEF Call, Busy, Answered
<1>2. PICK m \in Operations : worker[w].operation = m
  BY <1>1, InHand
<1>3. /\ HoldSound(w, m) /\ RowSound(m) /\ performed[m] = 0
      /\ \A v \in Workers \ {w} : ~Holds(v, m)
  BY <1>1, <1>2, HeldIsSound DEF HoldSound
<1>4. /\ row' = row
      /\ worker'[w].step = "answered" /\ worker'[w].operation = m
      /\ worker'[w].attempt = worker[w].attempt
      /\ worker'[w].fresh = ~row[m].expired
      /\ \A v \in Workers \ {w} : worker'[v] = worker[v]
  BY <1>2, CallWrites
<1>5. /\ \/ worker'[w].answer \in {"ok", "doubt"} /\ performed'[m] = 1
         \/ worker'[w].answer # "ok" /\ performed'[m] = 0
      /\ \A n \in Operations \ {m} : performed'[n] = performed[n]
  BY <1>2, <1>3, CallWrites DEF Inv, TypeOK
<1>6. OthersKeep(w, m)
  BY <1>4, <1>5 DEF OthersKeep
<1>7. RowSound(m)'
  BY <1>3, <1>4, <1>5 DEF RowSound, HoldSound
<1>8. HoldSound(w, m)' /\ Busy(w)'
  BY <1>3, <1>4, <1>5 DEF HoldSound, Answered, Busy
<1>9. QED
  BY <1>3, <1>4, <1>6, <1>7, <1>8, LocalKeeps

LEMMA RecordLateKeeps ==
  ASSUME Inv, TypeOK', NEW w \in Workers, RecordLate(w)
  PROVE  Inv'
<1>1. Busy(w) /\ Answered(w)
  BY DEF RecordLate, Busy, Answered
<1>2. PICK m \in Operations : worker[w].operation = m
  BY <1>1, InHand
<1>3. /\ HoldSound(w, m) /\ RowSound(m) /\ row[m] \in Row
      /\ \A v \in Workers \ {w} : ~Holds(v, m)
  BY <1>1, <1>2, HeldIsSound
<1>4. row[m].state = "PROCESSING" => row[m].expired
  BY <1>1, <1>2, <1>3 DEF RecordLate, CurrentClaim, HoldSound
<1>5. /\ \/ row' = row
         \/ worker[w].answer = "ok" /\ row' = [row EXCEPT ![m].late = TRUE]
      /\ worker' = [worker EXCEPT ![w] = IdleWorker] /\ performed' = performed
  BY <1>2 DEF RecordLate
<1>6. /\ worker'[w] = IdleWorker
      /\ \A v \in Workers \ {w} : worker'[v] = worker[v]
  BY <1>5 DEF Inv, TypeOK
<1>7. /\ \/ row'[m] = row[m]
         \/ worker[w].answer = "ok" /\ row'[m] = [row[m] EXCEPT !.late = TRUE]
      /\ \A n \in Operations \ {m} : row'[n] = row[n]
  BY <1>5 DEF Inv, TypeOK
<1>8. OthersKeep(w, m) /\ worker'[w].operation = NoOperation /\ ~Busy(w)'
  BY <1>5, <1>6, <1>7 DEF OthersKeep, IdleWorker, Busy
<1>9. RowSound(m)'
  BY <1>1, <1>3, <1>4, <1>5, <1>7 DEF RowSound, HoldSound, Row
<1>10. QED
  BY <1>3, <1>8, <1>9, LocalKeeps

LEMMA LockKeeps ==
  ASSUME Inv, TypeOK', NEW w \in Workers, Lock(w)
  PROVE  Inv'
<1>1. Busy(w) /\ Answered(w)
  BY DEF Lock, Busy, Answered
<1>2. PICK m \in Operations : worker[w].operation = m
  BY <1>1, InHand
<1>3. /\ HoldSound(w, m) /\ RowSound(m)
      /\ \A v \in Workers \ {w} : ~Holds(v, m)
  BY <1>1, <1>2, HeldIsSound
<1>4. row' = row /\ performed' = performed /\ row[m].state = "PROCESSING"
  BY <1>2 DEF Lock, CurrentClaim
<1>5. /\ worker'[w].step = "recording" /\ worker'[w].operation = m
      /\ worker'[w].attempt = worker[w].attempt
      /\ worker'[w].answer = worker[w].answer /\ worker'[w].fresh = worker[w].fresh
      /\ \A v \in Workers \ {w} : worker'[v] = worker[v]
  BY <1>2 DEF Lock, Inv, TypeOK, Worker
<1>6. OthersKeep(w, m) /\ RowSound(m)'
  BY <1>3, <1>4, <1>5 DEF OthersKeep, RowSound
<1>7. HoldSound(w, m)' /\ Busy(w)'
  BY <1>1, <1>3, <1>4, <1>5 DEF HoldSound, Answered, Busy
<1>8. QED
  BY <1>3, <1>5, <1>6, <1>7, LocalKeeps

\* What Record does to the operation in the worker's hand.
LEMMA RecordWrites ==
  ASSUME Inv, NEW w \in Workers, NEW m \in Operations, worker[w].operation = m, Record(w)
  PROVE  /\ row'[m].state = StateAfter(w) /\ row'[m].late = row[m].late
         /\ \A n \in Operations \ {m} : row'[n] = row[n]
         /\ row[m].state = "PROCESSING"
         /\ performed' = performed
<1> DEFINE state == StateAfter(w)
           due == (state = "COMPLETED")
<1>1. row' = [row EXCEPT ![m].state = state, ![m].expired = FALSE, ![m].due = due]
  BY DEF Record
<1> HIDE DEF state, due
<1>2. /\ row'[m].state = state /\ row'[m].late = row[m].late
      /\ \A n \in Operations \ {m} : row'[n] = row[n]
  BY <1>1 DEF Inv, TypeOK, Row
<1>3. row[m].state = "PROCESSING"
  BY HeldIsSound DEF Record, Busy, HoldSound
<1>4. QED
  BY <1>2, <1>3 DEF state, Record

LEMMA RecordKeeps ==
  ASSUME Inv, TypeOK', NEW w \in Workers, Record(w)
  PROVE  Inv'
<1>1. Busy(w) /\ Answered(w)
  BY DEF Record, Busy, Answered
<1>2. PICK m \in Operations : worker[w].operation = m
  BY <1>1, InHand
<1>3. /\ HoldSound(w, m) /\ RowSound(m)
      /\ \A v \in Workers \ {w} : ~Holds(v, m)
  BY <1>1, <1>2, HeldIsSound
<1>4. /\ worker'[w] = IdleWorker
      /\ \A v \in Workers \ {w} : worker'[v] = worker[v]
  BY DEF Record, Inv, TypeOK
<1>5. /\ row'[m].state = StateAfter(w) /\ row'[m].late = row[m].late
      /\ \A n \in Operations \ {m} : row'[n] = row[n]
      /\ performed' = performed
  BY <1>2, RecordWrites
<1>6. OthersKeep(w, m) /\ worker'[w].operation = NoOperation /\ ~Busy(w)'
  BY <1>4, <1>5 DEF OthersKeep, IdleWorker, Busy
<1>7. RowSound(m)'
  BY <1>1, <1>3, <1>5, StateAfterType DEF RowSound, HoldSound
<1>8. QED
  BY <1>3, <1>6, <1>7, LocalKeeps

\* A worker that stops, with an operation in its hand or without.
LEMMA IdleKeeps ==
  ASSUME Inv, TypeOK', NEW w \in Workers, worker' = [worker EXCEPT ![w] = IdleWorker],
         row' = row, performed' = performed
  PROVE  Inv'
<1>1. /\ worker'[w] = IdleWorker
      /\ \A v \in Workers \ {w} : worker'[v] = worker[v]
  BY DEF Inv, TypeOK
<1>2. worker'[w].operation = NoOperation /\ ~Busy(w)'
  BY <1>1 DEF IdleWorker, Busy
<1>3. CASE Busy(w)
  <2>1. PICK m \in Operations : worker[w].operation = m
    BY <1>3, InHand
  <2>2. RowSound(m) /\ \A v \in Workers \ {w} : ~Holds(v, m)
    BY <1>3, <2>1, HeldIsSound
  <2>3. OthersKeep(w, m) /\ RowSound(m)'
    BY <1>1, <2>2 DEF OthersKeep, RowSound
  <2>4. QED
    BY <1>2, <2>2, <2>3, LocalKeeps
<1>4. CASE ~Busy(w)
  <2>1. RowsMove
    BY <1>1, <1>2, <1>4 DEF RowsMove, RowMoves
  <2>2. QED
    BY <2>1, RowsMoveKeeps
<1>5. QED
  BY <1>3, <1>4

-------------------------------------------------------------------------------
(* Steps of users, of operators, of time and of _recover_expired. *)

LEMMA TimeMoves ==
  ASSUME Inv, NEW m \in Operations, BecomeDue(m) \/ Expire(m)
  PROVE  RowsMove
<1>1. \A n \in Operations : /\ row'[n].state = row[n].state /\ row'[n].late = row[n].late
                            /\ row'[n].attempts = row[n].attempts
                            /\ row[n].expired => row'[n].expired
  BY DEF BecomeDue, Expire, Inv, TypeOK, Row
<1>2. QED
  BY <1>1 DEF BecomeDue, Expire, RowsMove, RowMoves

LEMMA RequestMoves ==
  ASSUME Inv, NEW m \in Operations, Request(m)
  PROVE  RowsMove
<1>1. /\ performed' = performed /\ worker' = worker
      /\ \A n \in Operations \ {m} : row'[n] = row[n]
  BY DEF Request, Enqueue, Cancel, Fail, Recover, Inv, TypeOK
<1>2. CASE Enqueue(m) \/ Cancel(m)
  <2>1. /\ row[m].state \in {"none", "PENDING", "RETRY"}
        /\ row'[m].state \in {"PENDING", "CANCELLED"} /\ row'[m].late = row[m].late
    BY <1>2 DEF Enqueue, Cancel, Cancellable, Inv, TypeOK, Row
  <2>2. QED
    BY <1>1, <2>1 DEF RowsMove, RowMoves
<1>3. CASE Fail(m)
  <2> DEFINE state == IF row[m].attempts + 1 >= FailLimit THEN "DEAD_LETTER" ELSE "RETRY"
  <2>1. state \in {"DEAD_LETTER", "RETRY"}
    OBVIOUS
  <2>2. row' = [row EXCEPT ![m].state = state, ![m].attempts = @ + 1, ![m].due = FALSE]
    BY <1>3 DEF Fail
  <2> HIDE DEF state
  <2>3. row'[m].state = state /\ row'[m].late = row[m].late
    BY <2>2 DEF Inv, TypeOK, Row
  <2>4. row[m].state \in {"PENDING", "RETRY"}
    BY <1>3 DEF Fail
  <2>5. QED
    BY <1>1, <2>1, <2>3, <2>4 DEF RowsMove, RowMoves
<1>4. CASE Recover(m)
  <2>1. /\ row[m].state = "RETRY" /\ row'[m].state = "PENDING" /\ row'[m].late = row[m].late
    BY <1>4 DEF Recover, SafeToRecover, Inv, TypeOK, Row
  <2>2. QED
    BY <1>1, <2>1 DEF RowsMove, RowMoves
<1>5. QED
  BY <1>2, <1>3, <1>4 DEF Request

LEMMA RecoverExpiredMoves ==
  ASSUME Inv, NEW w \in Workers, RecoverExpired(w)
  PROVE  RowsMove
<1>1. \A m \in Operations :
        \/ row'[m] = row[m]
        \/ /\ row[m].state = "PROCESSING" /\ ~Locked(m)
           /\ row'[m] = [row[m] EXCEPT !.state = "DEAD_LETTER", !.expired = FALSE]
  BY DEF RecoverExpired, AfterExpiry
<1>2. \A m \in Operations : RowMoves(m)
  <2> SUFFICES ASSUME NEW m \in Operations PROVE RowMoves(m)
    OBVIOUS
  <2>1. row[m] \in Row
    BY DEF Inv, TypeOK
  <2>2. CASE row'[m] = row[m]
    BY <2>2 DEF RowMoves
  <2>3. CASE row'[m] = [row[m] EXCEPT !.state = "DEAD_LETTER", !.expired = FALSE]
    <3>1. /\ row'[m].state = "DEAD_LETTER" /\ row'[m].attempts = row[m].attempts
          /\ row'[m].late = row[m].late
      BY <2>1, <2>3 DEF Row
    <3>2. QED
      BY <1>1, <2>2, <3>1 DEF RowMoves
  <2>4. QED
    BY <1>1, <2>2, <2>3
<1>3. /\ \A v \in Workers \ {w} : worker'[v] = worker[v]
      /\ worker[w].step = "idle" /\ worker'[w].step = "looking"
      /\ worker'[w].operation = worker[w].operation
  BY DEF RecoverExpired, Inv, TypeOK, Worker
<1>4. ~Busy(w) /\ ~Busy(w)' /\ worker'[w].operation = NoOperation
  BY <1>3 DEF Busy, Inv, HandsAreFull
<1>5. QED
  BY <1>2, <1>3, <1>4 DEF RowsMove, RecoverExpired

LEMMA InvStep == Inv /\ [Next]_vars => Inv'
<1> SUFFICES ASSUME Inv, [Next]_vars PROVE Inv'
  OBVIOUS
<1>1. TypeOK'
  BY StepType DEF Inv
<1>2. ASSUME NEW m \in Operations, Time(m) PROVE Inv'
  BY <1>1, <1>2, TimeMoves, RowsMoveKeeps DEF Time
<1>3. ASSUME NEW m \in Operations, Request(m) PROVE Inv'
  BY <1>1, <1>3, RequestMoves, RowsMoveKeeps
<1>4. CASE CircuitCloses \/ UNCHANGED vars
  <2>1. RowsMove
    BY <1>4 DEF CircuitCloses, vars, RowsMove, RowMoves
  <2>2. QED
    BY <1>1, <2>1, RowsMoveKeeps
<1>5. ASSUME NEW w \in Workers, RecoverExpired(w) PROVE Inv'
  BY <1>1, <1>5, RecoverExpiredMoves, RowsMoveKeeps
<1>6. ASSUME NEW w \in Workers, FindNothing(w) \/ Crash(w) PROVE Inv'
  BY <1>1, <1>6, IdleKeeps DEF FindNothing, Crash
<1>7. ASSUME NEW w \in Workers, NEW m \in Operations, Claim(w, m) PROVE Inv'
  BY <1>1, <1>7, ClaimKeeps
<1>8. ASSUME NEW w \in Workers, Recheck(w) \/ Call(w) \/ RecordLate(w) PROVE Inv'
  BY <1>1, <1>8, RecheckKeeps, CallKeeps, RecordLateKeeps
<1>9. ASSUME NEW w \in Workers, Lock(w) \/ Record(w) PROVE Inv'
  BY <1>1, <1>9, LockKeeps, RecordKeeps
<1>10. QED
  BY <1>2, <1>3, <1>4, <1>5, <1>6, <1>7, <1>8, <1>9 DEF Next, Pass

LEMMA InvCorrect == Spec => []Inv
  BY InvInit, InvStep, PTL DEF Spec

-------------------------------------------------------------------------------
(* The theorems. *)

\* Every variable stays within its declared type.
THEOREM TypeCorrect == Spec => []TypeOK
<1>1. Inv => TypeOK
  BY DEF Inv
<1>2. QED
  BY <1>1, InvCorrect, PTL

\* An operation that took effect is never found waiting or cancelled.
THEOREM VisibleCorrect == Spec => []EffectIsVisible
<1>1. Inv => EffectIsVisible
  BY DEF Inv, TypeOK, Row, RowsAreSound, RowSound, EffectIsVisible
<1>2. QED
  BY <1>1, InvCorrect, PTL

\* An observation of a late success belongs to an operation that has been put
\* aside or is about to be, and that no worker holds.
THEOREM LateCorrect == Spec => []LateIsPutAside
<1>1. Inv => LateIsPutAside
  <2> SUFFICES ASSUME Inv, NEW m \in Operations, row[m].late
               PROVE  /\ performed[m] > 0
                      /\ \/ row[m].state = "DEAD_LETTER"
                         \/ row[m].state = "PROCESSING" /\ row[m].expired
                      /\ \A w \in Workers : worker[w].operation # m
    BY DEF LateIsPutAside
  <2>1. \A w \in Workers : ~Holds(w, m)
    BY DEF Inv, HoldsAreSound, HoldSound
  <2>2. \A w \in Workers : worker[w].operation # m
    BY <2>1, OperationsAssumption DEF Inv, HandsAreFull, Holds
  <2>3. QED
    BY <2>2 DEF Inv, RowsAreSound, RowSound
<1>2. QED
  BY <1>1, InvCorrect, PTL
-------------------------------------------------------------------------------
(* The refinement of the promise. *)

\* What the users are told of an operation whose row has the given state.
Word(state) ==
  CASE state \in {"PENDING", "PROCESSING", "RETRY"} -> "open"
    [] state = "COMPLETED" -> "completed"
    [] state = "DEAD_LETTER" -> "uncertain"
    [] state = "CANCELLED" -> "cancelled"
    [] OTHER -> "none"

LEMMA ToldIsWord ==
  /\ Told = [m \in Operations |-> Word(row[m].state)]
  /\ Told' = [m \in Operations |-> Word(row'[m].state)]
  BY DEF Told, Word

LEMMA Words ==
  /\ Word("none") = "none" /\ Word("PENDING") = "open" /\ Word("PROCESSING") = "open"
  /\ Word("RETRY") = "open" /\ Word("COMPLETED") = "completed"
  /\ Word("DEAD_LETTER") = "uncertain" /\ Word("CANCELLED") = "cancelled"
  BY DEF Word

\* Nothing changes for the users, nor in Mautic.
LEMMA NothingTold ==
  ASSUME performed' = performed, \A m \in Operations : Word(row'[m].state) = Word(row[m].state)
  PROVE  UNCHANGED Promise!promiseVars
  BY ToldIsWord DEF Promise!promiseVars

\* The users are told something new of one operation.
LEMMA OneTold ==
  ASSUME NEW m \in Operations, \A n \in Operations \ {m} : row'[n] = row[n]
  PROVE  Told' = [Told EXCEPT ![m] = Word(row'[m].state)]
  BY ToldIsWord

\* One operation is put aside.
LEMMA PutOneAside ==
  ASSUME NEW m \in Operations, \A n \in Operations \ {m} : row'[n] = row[n],
         Word(row[m].state) = "open", Word(row'[m].state) = "uncertain",
         performed' = performed
  PROVE  Promise!PutAside({m})
  BY ToldIsWord DEF Promise!PutAside

LEMMA RequestPromise ==
  ASSUME Inv, NEW m \in Operations, Request(m)
  PROVE  Promise!PromiseNext \/ UNCHANGED Promise!promiseVars
<1>1. /\ performed' = performed
      /\ \A n \in Operations \ {m} : row'[n] = row[n]
  BY DEF Request, Enqueue, Cancel, Fail, Recover, Inv, TypeOK
<1>2. CASE Enqueue(m)
  <2>1. row[m].state = "none" /\ row'[m].state = "PENDING"
    BY <1>2 DEF Enqueue, Inv, TypeOK, Row
  <2>2. Promise!Accept(m)
    BY <1>1, <2>1, ToldIsWord, OneTold, Words DEF Promise!Accept
  <2>3. QED
    BY <2>2 DEF Promise!PromiseNext
<1>3. CASE Cancel(m)
  <2>1. row[m].state \in {"PENDING", "RETRY"} /\ row'[m].state = "CANCELLED"
    BY <1>3 DEF Cancel, Cancellable, Inv, TypeOK, Row
  <2>2. performed[m] = 0
    BY <2>1 DEF Inv, RowsAreSound, RowSound
  <2>3. Promise!Drop(m)
    BY <1>1, <2>1, <2>2, ToldIsWord, OneTold, Words DEF Promise!Drop
  <2>4. QED
    BY <2>3 DEF Promise!PromiseNext
<1>4. CASE Fail(m)
  <2> DEFINE state == IF row[m].attempts + 1 >= FailLimit THEN "DEAD_LETTER" ELSE "RETRY"
  <2>1. state \in {"DEAD_LETTER", "RETRY"}
    OBVIOUS
  <2>2. row' = [row EXCEPT ![m].state = state, ![m].attempts = @ + 1, ![m].due = FALSE]
    BY <1>4 DEF Fail
  <2> HIDE DEF state
  <2>3. row'[m].state = state
    BY <2>2 DEF Inv, TypeOK, Row
  <2>4. Word(row[m].state) = "open"
    BY <1>4, Words DEF Fail
  <2>5. CASE state = "DEAD_LETTER"
    <3>1. Promise!PutAside({m})
      BY <1>1, <2>3, <2>4, <2>5, Words, PutOneAside
    <3>2. QED
      BY <3>1 DEF Promise!PromiseNext
  <2>6. CASE state = "RETRY"
    <3>1. \A n \in Operations : Word(row'[n].state) = Word(row[n].state)
      BY <1>1, <2>3, <2>4, <2>6, Words
    <3>2. QED
      BY <1>1, <3>1, NothingTold
  <2>7. QED
    BY <2>1, <2>5, <2>6
<1>5. CASE Recover(m)
  <2>1. row[m].state = "RETRY" /\ row'[m].state = "PENDING"
    BY <1>5 DEF Recover, SafeToRecover, Inv, TypeOK, Row
  <2>2. \A n \in Operations : Word(row'[n].state) = Word(row[n].state)
    BY <1>1, <2>1, Words
  <2>3. QED
    BY <1>1, <2>2, NothingTold
<1>6. QED
  BY <1>2, <1>3, <1>4, <1>5 DEF Request

LEMMA RecoverExpiredPromise ==
  ASSUME Inv, NEW w \in Workers, RecoverExpired(w)
  PROVE  Promise!PromiseNext
<1> DEFINE aside == {m \in Operations : row[m].state = "PROCESSING" /\ row[m].expired /\ ~Locked(m)}
<1>1. \A m \in Operations : IF m \in aside THEN /\ row[m].state = "PROCESSING"
                                                 /\ row'[m].state = "DEAD_LETTER"
                            ELSE row'[m] = row[m]
  BY DEF RecoverExpired, AfterExpiry, Inv, TypeOK, Row
<1>2. performed' = performed /\ aside \in SUBSET Operations
  BY DEF RecoverExpired
<1> HIDE DEF aside
<1>3. /\ \A m \in aside : Told[m] = "open"
      /\ Told' = [m \in Operations |-> IF m \in aside THEN "uncertain" ELSE Told[m]]
  BY <1>1, <1>2, ToldIsWord, Words
<1>4. Promise!PutAside(aside)
  BY <1>2, <1>3 DEF Promise!PutAside
<1>5. QED
  BY <1>2, <1>4 DEF Promise!PromiseNext

LEMMA CallPromise ==
  ASSUME Inv, NEW w \in Workers, Call(w)
  PROVE  Promise!PromiseNext \/ UNCHANGED Promise!promiseVars
<1>1. Busy(w)
  BY DEF Call, Busy
<1>2. PICK m \in Operations : worker[w].operation = m
  BY <1>1, InHand
<1>3. /\ row' = row /\ performed[m] = 0
      /\ performed' = performed \/ performed' = [performed EXCEPT ![m] = 1]
  BY <1>2, CallWrites
<1>4. Told' = Told
  BY <1>3, ToldIsWord
<1>5. Told[m] \in {"open", "uncertain"}
  BY <1>1, <1>2, HeldIsSound, ToldIsWord, Words DEF HoldSound
<1>6. CASE performed' = performed
  BY <1>4, <1>6 DEF Promise!promiseVars
<1>7. CASE performed' = [performed EXCEPT ![m] = 1]
  <2>1. Promise!Perform(m)
    BY <1>3, <1>4, <1>5, <1>7 DEF Promise!Perform
  <2>2. QED
    BY <2>1 DEF Promise!PromiseNext
<1>8. QED
  BY <1>3, <1>6, <1>7

LEMMA RecordPromise ==
  ASSUME Inv, NEW w \in Workers, Record(w)
  PROVE  Promise!PromiseNext \/ UNCHANGED Promise!promiseVars
<1>1. Busy(w) /\ Answered(w)
  BY DEF Record, Busy, Answered
<1>2. PICK m \in Operations : worker[w].operation = m
  BY <1>1, InHand
<1>3. /\ row'[m].state = StateAfter(w) /\ row[m].state = "PROCESSING"
      /\ \A n \in Operations \ {m} : row'[n] = row[n]
      /\ performed' = performed
  BY <1>2, RecordWrites
<1>4. Word(row[m].state) = "open"
  BY <1>3, Words
<1>5. CASE StateAfter(w) = "COMPLETED"
  <2>1. performed[m] = 1
    BY <1>1, <1>2, <1>5, HeldIsSound, StateAfterType DEF HoldSound
  <2>2. Promise!Complete(m)
    BY <1>3, <1>4, <1>5, <2>1, ToldIsWord, OneTold, Words DEF Promise!Complete
  <2>3. QED
    BY <2>2 DEF Promise!PromiseNext
<1>6. CASE StateAfter(w) = "RETRY"
  <2>1. \A n \in Operations : Word(row'[n].state) = Word(row[n].state)
    BY <1>3, <1>4, <1>6, Words
  <2>2. QED
    BY <1>3, <2>1, NothingTold
<1>7. CASE StateAfter(w) = "DEAD_LETTER"
  <2>1. Promise!PutAside({m})
    BY <1>3, <1>4, <1>7, Words, PutOneAside
  <2>2. QED
    BY <2>1 DEF Promise!PromiseNext
<1>8. QED
  BY <1>5, <1>6, <1>7, StateAfterType

\* Steps that users do not notice.
LEMMA QuietPromise ==
  ASSUME Inv, performed' = performed, \A m \in Operations : row'[m].state = row[m].state
  PROVE  UNCHANGED Promise!promiseVars
  BY NothingTold

\* The queue keeps its promise: every step of a worker, user or operator is a
\* step of AtMostOnceOutbox, or changes nothing there. In particular a call
\* finds its operation not yet performed, and one that may have taken effect
\* is never again open.
THEOREM PromiseKept == Spec => KeepsPromise
<1>1. Init => Promise!PromiseInit
  BY ToldIsWord, Words DEF Init, Promise!PromiseInit
<1>2. Inv /\ [Next]_vars => [Promise!PromiseNext]_Promise!promiseVars
  <2> SUFFICES ASSUME Inv, [Next]_vars
               PROVE  Promise!PromiseNext \/ UNCHANGED Promise!promiseVars
    OBVIOUS
  <2>1. ASSUME NEW m \in Operations, Time(m) PROVE UNCHANGED Promise!promiseVars
    <3>1. performed' = performed /\ \A n \in Operations : row'[n].state = row[n].state
      BY <2>1 DEF Time, BecomeDue, Expire, Inv, TypeOK, Row
    <3>2. QED
      BY <3>1, QuietPromise
  <2>2. ASSUME NEW w \in Workers, NEW m \in Operations, Claim(w, m)
        PROVE  UNCHANGED Promise!promiseVars
    <3>1. /\ performed' = performed
          /\ row[m].state \in {"PENDING", "RETRY"} /\ row'[m].state = "PROCESSING"
          /\ \A n \in Operations \ {m} : row'[n] = row[n]
      BY <2>2 DEF Claim, Claimable, Inv, TypeOK, Row
    <3>2. \A n \in Operations : Word(row'[n].state) = Word(row[n].state)
      BY <3>1, Words
    <3>3. QED
      BY <3>1, <3>2, NothingTold
  <2>3. ASSUME NEW w \in Workers, RecordLate(w) PROVE UNCHANGED Promise!promiseVars
    <3>1. performed' = performed /\ \A n \in Operations : row'[n].state = row[n].state
      BY <2>3 DEF RecordLate, Inv, TypeOK, Row
    <3>2. QED
      BY <3>1, QuietPromise
  <2>4. ASSUME NEW w \in Workers, FindNothing(w) \/ Recheck(w) \/ Lock(w) \/ Crash(w)
        PROVE  UNCHANGED Promise!promiseVars
    BY <2>4, QuietPromise DEF FindNothing, Recheck, Lock, Crash
  <2>5. CASE CircuitCloses \/ UNCHANGED vars
    BY <2>5, QuietPromise DEF CircuitCloses, vars
  <2>6. QED
    BY <2>1, <2>2, <2>3, <2>4, <2>5, RequestPromise, RecoverExpiredPromise, CallPromise,
       RecordPromise
       DEF Next, Pass
<1>3. QED
  BY <1>1, <1>2, InvCorrect, PTL DEF Spec, KeepsPromise, Promise!PromiseSpec
===============================================================================
