------------------------ MODULE CampaignDispatchProofs ------------------------
(***************************************************************************)
(* Proofs about CampaignDispatch, for any audience, workers, batches and   *)
(* bounds: types, one message per recipient, one active dispatcher, and    *)
(* that an end is an end, with its items, status and summary.              *)
(***************************************************************************)
EXTENDS CampaignDispatch, TLAPS

-------------------------------------------------------------------------------
(* Types. *)

LEMMA IdleWorkerType == IdleWorker \in Worker
  BY DEF IdleWorker, Worker

LEMMA NoSweepType == NoSweep \in Sweep
  BY DEF NoSweep, Sweep

\* Claiming a run under a new fence.
LEMMA ClaimWrites ==
  ASSUME TypeOK, NEW w \in Workers, NEW f \in Fences
  PROVE  /\ RunUnder(f) \in Run /\ RunUnder(f).state = "RUNNING" /\ RunUnder(f).fence = f
         /\ Claimed(w, f) \in [Workers -> Worker]
         /\ Claimed(w, f)[w].step = "claimed" /\ Claimed(w, f)[w].fence = f
         /\ \A v \in Workers \ {w} : Claimed(w, f)[v] = worker[v]
<1>1. RunUnder(f) \in Run /\ RunUnder(f).state = "RUNNING" /\ RunUnder(f).fence = f
  BY DEF TypeOK, RunUnder, Run, RunStates
<1>2. [IdleWorker EXCEPT !.step = "claimed", !.fence = f] \in Worker
  BY DEF IdleWorker, Worker
<1>3. QED
  BY <1>1, <1>2 DEF TypeOK, Claimed, IdleWorker

LEMMA SweptWrites ==
  ASSUME TypeOK, NEW state \in ItemStates
  PROVE  /\ Swept(state) \in [Recipients -> Item]
         /\ \A r \in Recipients : r \in sweep.items => Swept(state)[r].state = state
         /\ \A r \in Recipients : r \notin sweep.items => Swept(state)[r].state = item[r].state
<1>1. ASSUME NEW r \in Recipients
      PROVE  [state |-> state, due |-> item[r].due \/ state = "RETRYING", fence |-> NoFence]
               \in Item
  <2>1. (item[r].due \/ state = "RETRYING") \in BOOLEAN
    OBVIOUS
  <2>2. QED
    BY <2>1 DEF Item
<1>2. QED
  BY <1>1 DEF TypeOK, Swept

\* Recording a result writes one item at most, and only one that was leased.
LEMMA MarkedWrites ==
  ASSUME TypeOK, NEW w \in Workers, NEW r \in Recipients, NEW state \in ItemStates
  PROVE  /\ Marked(w, r, state) \in [Recipients -> Item]
         /\ \A q \in Recipients : \/ Marked(w, r, state)[q] = item[q]
                                  \/ item[q].state = "LEASED"
<1> DEFINE written == [state |-> state, due |-> item[r].due /\ state # "RETRYING",
                       fence |-> NoFence]
<1>1. written \in Item
  <2>1. (item[r].due /\ state # "RETRYING") \in BOOLEAN
    OBVIOUS
  <2>2. QED
    BY <2>1 DEF Item
<1>2. Marked(w, r, state)
        = IF item[r].state = "LEASED" /\ item[r].fence = worker[w].fence
          THEN [item EXCEPT ![r] = written] ELSE item
  BY DEF Marked, TypeOK
<1> HIDE DEF written
<1>3. QED
  BY <1>1, <1>2 DEF TypeOK

LEMMA ItemFieldTypes ==
  ASSUME TypeOK, NEW r \in Recipients
  PROVE  /\ [item[r] EXCEPT !.due = TRUE] \in Item
         /\ [item[r] EXCEPT !.due = TRUE].state = item[r].state
  BY DEF TypeOK, Item

-------------------------------------------------------------------------------
(* What the worker's actions write to items and to the worker itself.        *)

LEMMA LeaseWrites ==
  ASSUME TypeOK, NEW w \in Workers, LeaseItems(w)
  PROVE  /\ item' \in [Recipients -> Item]
         /\ worker' \in [Workers -> Worker]
         /\ worker'[w].step = "sending" /\ worker'[w].fence = worker[w].fence
         /\ \A v \in Workers \ {w} : worker'[v] = worker[v]
         /\ \A r \in Recipients : \/ item'[r] = item[r]
                                  \/ item[r].state \in {"PENDING", "RETRYING"}
                                       /\ item'[r].state = "LEASED"
<1>1. PICK batch \in SUBSET {r \in ItemsIn({"PENDING", "RETRYING"}) : item[r].due} :
        /\ item' = [r \in Recipients |->
                      IF r \in batch
                      THEN [item[r] EXCEPT !.state = "LEASED", !.fence = worker[w].fence]
                      ELSE item[r]]
        /\ worker' = [worker EXCEPT ![w].step = "sending", ![w].batch = batch]
  BY DEF LeaseItems
<1>2. worker[w] \in Worker /\ batch \subseteq Recipients
  BY <1>1 DEF TypeOK, ItemsIn
<1>3. ASSUME NEW r \in Recipients
      PROVE  [item[r] EXCEPT !.state = "LEASED", !.fence = worker[w].fence] \in Item
  <2>1. worker[w].fence \in Fences \union {NoFence}
    BY <1>2 DEF Worker
  <2>2. item[r] \in Item
    BY DEF TypeOK
  <2>3. QED
    BY <2>1, <2>2 DEF Item, ItemStates
<1>4. item' \in [Recipients -> Item]
  BY <1>1, <1>3 DEF TypeOK
<1>5. [worker[w] EXCEPT !.step = "sending", !.batch = batch] \in Worker
  BY <1>2 DEF Worker
<1>6. worker' = [worker EXCEPT ![w] = [worker[w] EXCEPT !.step = "sending", !.batch = batch]]
  BY <1>1
<1>7. /\ worker' \in [Workers -> Worker]
      /\ worker'[w].step = "sending" /\ worker'[w].fence = worker[w].fence
      /\ \A v \in Workers \ {w} : worker'[v] = worker[v]
  BY <1>2, <1>5, <1>6 DEF TypeOK, Worker
<1>8. ASSUME NEW r \in Recipients
      PROVE  \/ item'[r] = item[r]
             \/ item[r].state \in {"PENDING", "RETRYING"} /\ item'[r].state = "LEASED"
  <2>1. CASE r \in batch
    <3>1. item[r].state \in {"PENDING", "RETRYING"}
      BY <1>1, <2>1 DEF ItemsIn
    <3>2. item'[r] = [item[r] EXCEPT !.state = "LEASED", !.fence = worker[w].fence]
      BY <1>1, <2>1
    <3>3. item[r] \in Item
      BY DEF TypeOK
    <3>4. item'[r].state = "LEASED"
      BY <3>2, <3>3 DEF Item
    <3>5. QED
      BY <3>1, <3>4
  <2>2. CASE r \notin batch
    BY <1>1, <2>2
  <2>3. QED
    BY <2>1, <2>2
<1>9. QED
  BY <1>4, <1>7, <1>8

\* The worker goes on with its batch, under the fence it has.
GoesOn(w) ==
    /\ worker' \in [Workers -> Worker]
    /\ worker'[w].step = worker[w].step /\ worker'[w].fence = worker[w].fence
    /\ \A v \in Workers \ {w} : worker'[v] = worker[v]

\* What a worker writes down of an item of its batch.
LEMMA BatchWrites ==
  ASSUME TypeOK, NEW w \in Workers, NEW batch \in SUBSET Recipients,
         NEW sent \in Recipients \union {NoRecipient},
         worker' = [worker EXCEPT ![w].batch = batch, ![w].sent = sent]
  PROVE  GoesOn(w)
<1>1. worker[w] \in Worker
  BY DEF TypeOK
<1>2. [worker[w] EXCEPT !.batch = batch, !.sent = sent] \in Worker
  BY <1>1 DEF Worker
<1>3. worker' = [worker EXCEPT ![w] = [worker[w] EXCEPT !.batch = batch, !.sent = sent]]
  OBVIOUS
<1>4. QED
  BY <1>1, <1>2, <1>3 DEF GoesOn, TypeOK, Worker

LEMMA SendGoesOn ==
  ASSUME TypeOK, NEW w \in Workers, NEW r \in Recipients, Send(w, r)
  PROVE  GoesOn(w)
<1>1. worker[w] \in Worker
  BY DEF TypeOK
<1>2. worker[w].batch \ {r} \in SUBSET Recipients /\ worker[w].sent \in Recipients \union {NoRecipient}
  BY <1>1 DEF Worker
<1>3. CASE worker' = [worker EXCEPT ![w].batch = @ \ {r}]
  <2>1. [worker[w] EXCEPT !.batch = worker[w].batch \ {r}] \in Worker
    BY <1>1, <1>2 DEF Worker
  <2>2. worker' = [worker EXCEPT ![w] = [worker[w] EXCEPT !.batch = worker[w].batch \ {r}]]
    BY <1>3
  <2>3. QED
    BY <1>1, <2>1, <2>2 DEF GoesOn, TypeOK, Worker
<1>4. CASE worker' = [worker EXCEPT ![w].batch = @ \ {r}, ![w].sent = r]
  <2>1. worker' = [worker EXCEPT ![w].batch = worker[w].batch \ {r}, ![w].sent = r]
    BY <1>4 DEF TypeOK
  <2> DEFINE rest == worker[w].batch \ {r}
  <2>2. rest \in SUBSET Recipients /\ r \in Recipients \union {NoRecipient}
    BY <1>2
  <2>3. worker' = [worker EXCEPT ![w].batch = rest, ![w].sent = r]
    BY <2>1
  <2> HIDE DEF rest
  <2>4. QED
    BY <2>2, <2>3, BatchWrites
<1>5. QED
  BY <1>3, <1>4 DEF Send, PassBy, Refuse, Replay, Admit

LEMMA RecordGoesOn ==
  ASSUME TypeOK, NEW w \in Workers, Record(w)
  PROVE  GoesOn(w)
<1>1. worker[w] \in Worker
  BY DEF TypeOK
<1>2. [worker[w] EXCEPT !.sent = NoRecipient] \in Worker
  BY <1>1 DEF Worker
<1>3. worker' = [worker EXCEPT ![w] = [worker[w] EXCEPT !.sent = NoRecipient]]
  BY DEF Record
<1>4. QED
  BY <1>1, <1>2, <1>3 DEF GoesOn, TypeOK, Worker

LEMMA StepType ==
  ASSUME TypeOK, [Next]_vars
  PROVE  TypeOK'
<1> USE DEF TypeOK
<1>1. CASE Begin
  <2>1. run' \in Run
    BY <1>1 DEF Begin, Run
  <2>2. item' \in [Recipients -> Item]
    BY <1>1, ItemFieldTypes DEF Begin
  <2>3. QED
    BY <1>1, <2>1, <2>2 DEF Begin
<1>2. CASE RunBecomesDue
  BY <1>2 DEF RunBecomesDue, Run
<1>3. ASSUME NEW r \in Recipients, ItemBecomesDue(r) PROVE TypeOK'
  BY <1>3 DEF ItemBecomesDue, Item
<1>4. CASE LeaseExpires
  BY <1>4 DEF LeaseExpires, Run
<1>5. CASE Schedule
  BY <1>5 DEF Schedule, Run, RunStates, CampaignStates
<1>6. ASSUME NEW kind \in Requests, BeginRequest(kind) PROVE TypeOK'
  <2>1. kind \in {"pause", "cancel"}
    BY CampaignAssumption
  <2>2. SweptItems(kind) \in SUBSET Recipients
    BY DEF SweptItems, ItemsIn
  <2>3. sweep' \in Sweep
    BY <1>6, <2>1, <2>2 DEF BeginRequest, Sweep
  <2>4. count' \in Count
    BY <1>6 DEF BeginRequest, Count
  <2>5. QED
    BY <1>6, <2>3, <2>4 DEF BeginRequest
<1>7. CASE Pause
  <2>1. "RETRYING" \in ItemStates
    BY DEF ItemStates
  <2>2. run' \in Run
    BY <1>7 DEF Pause, Run, RunStates
  <2>3. QED
    BY <1>7, <2>1, <2>2, SweptWrites, NoSweepType DEF Pause, CampaignStates
<1>8. CASE Cancel
  <2>1. "CANCELLED" \in ItemStates
    BY DEF ItemStates
  <2>2. run' \in Run
    BY <1>8 DEF Cancel, Run, RunStates
  <2>3. QED
    BY <1>8, <2>1, <2>2, SweptWrites, NoSweepType DEF Cancel, CampaignStates, RunEnded
<1>9. CASE CancelDraft
  BY <1>9 DEF CancelDraft, CampaignStates
<1>10. CASE Resume
  BY <1>10 DEF Resume, Run, RunStates, CampaignStates
<1>11. ASSUME NEW w \in Workers, Claim(w) PROVE TypeOK'
  BY <1>11, ClaimWrites DEF Claim
<1>12. ASSUME NEW w \in Workers, BeginExpiry(w) PROVE TypeOK'
  <2>1. SweptItems("expiry") \in SUBSET Recipients
    BY DEF SweptItems, ItemsIn
  <2>2. sweep' \in Sweep
    BY <1>12, <2>1 DEF BeginExpiry, Sweep
  <2>3. worker' \in [Workers -> Worker]
    BY <1>12 DEF BeginExpiry, Worker
  <2>4. QED
    BY <1>12, <2>2, <2>3 DEF BeginExpiry
<1>13. ASSUME NEW w \in Workers, EndExpiry(w) PROVE TypeOK'
  <2>1. item' \in [Recipients -> Item] /\ sweep' \in Sweep
    BY <1>13, SweptWrites, NoSweepType DEF EndExpiry, ItemStates
  <2>2. CASE /\ FreshFence \in Fences \ FencesInUse
             /\ run' = [RunUnder(FreshFence) EXCEPT !.due = TRUE]
             /\ worker' = Claimed(w, FreshFence)
    <3>1. RunUnder(FreshFence) \in Run /\ worker' \in [Workers -> Worker]
      BY <2>2, ClaimWrites
    <3>2. run' \in Run
      BY <2>2, <3>1 DEF Run
    <3>3. QED
      BY <1>13, <2>1, <3>1, <3>2 DEF EndExpiry
  <2>3. CASE /\ run' = [run EXCEPT !.state = "RETRYING", !.due = TRUE, !.expired = FALSE]
             /\ worker' = [worker EXCEPT ![w] = IdleWorker]
    <3>1. run' \in Run
      BY <2>3 DEF Run, RunStates
    <3>2. QED
      BY <1>13, <2>1, <2>3, <3>1, IdleWorkerType DEF EndExpiry
  <2>4. QED
    BY <1>13, <2>2, <2>3 DEF EndExpiry
<1>14. ASSUME NEW w \in Workers, LeaseItems(w) PROVE TypeOK'
  <2>1. UNCHANGED <<campaign, run, sweep, admitted, summaries, count>>
    BY <1>14 DEF LeaseItems
  <2>2. QED
    BY <1>14, <2>1, LeaseWrites
<1>15. ASSUME NEW w \in Workers, NEW r \in Recipients, Send(w, r) PROVE TypeOK'
  <2>1. worker' \in [Workers -> Worker]
    BY <1>15, SendGoesOn DEF GoesOn
  <2>2. CASE PassBy(w, r)
    BY <2>1, <2>2 DEF PassBy
  <2>3. CASE Refuse(w, r)
    <3>1. PICK state \in {"SUPPRESSED", "RETRYING", "FAILED"} : item' = Marked(w, r, state)
      BY <2>3 DEF Refuse
    <3>2. item' \in [Recipients -> Item]
      BY <3>1, MarkedWrites DEF ItemStates
    <3>3. count' \in Count
      BY <2>3 DEF Refuse, Count
    <3>4. QED
      BY <2>1, <2>3, <3>2, <3>3 DEF Refuse
  <2>4. CASE Replay(w, r)
    BY <2>1, <2>4, MarkedWrites DEF Replay, ItemStates
  <2>5. CASE Admit(w, r)
    BY <2>1, <2>5 DEF Admit
  <2>6. QED
    BY <1>15, <2>2, <2>3, <2>4, <2>5 DEF Send
<1>16. ASSUME NEW w \in Workers, Record(w) PROVE TypeOK'
  <2>1. worker' \in [Workers -> Worker]
    BY <1>16, RecordGoesOn DEF GoesOn
  <2>2. worker[w].sent \in Recipients
    BY <1>16 DEF Record, Worker
  <2>3. item' \in [Recipients -> Item]
    BY <1>16, <2>2, MarkedWrites DEF Record, ItemStates
  <2>4. QED
    BY <1>16, <2>1, <2>3 DEF Record
<1>17. ASSUME NEW w \in Workers, Finish(w) PROVE TypeOK'
  <2>1. run' \in Run
    BY <1>17 DEF Finish, Run, RunStates
  <2>2. campaign' \in CampaignStates /\ summaries' \subseteq RunEnded
    BY <1>17 DEF Finish, CampaignStates, RunEnded
  <2>3. QED
    BY <1>17, <2>1, <2>2, IdleWorkerType DEF Finish
<1>18. ASSUME NEW w \in Workers, Crash(w) PROVE TypeOK'
  <2>1. sweep' \in Sweep
    BY <1>18, NoSweepType DEF Crash
  <2>2. count' \in Count
    BY <1>18 DEF Crash, Count
  <2>3. QED
    BY <1>18, <2>1, <2>2, IdleWorkerType DEF Crash
<1>19. CASE UNCHANGED vars
  BY <1>19 DEF vars
<1>20. QED
  BY <1>1, <1>2, <1>3, <1>4, <1>5, <1>6, <1>7, <1>8, <1>9, <1>10, <1>11, <1>12, <1>13, <1>14,
     <1>15, <1>16, <1>17, <1>18, <1>19 DEF Next, Time, User, Serve, Tick

LEMMA InitType == Init => TypeOK
  BY DEF Init, TypeOK, CampaignStates, Run, RunStates, Item, ItemStates, IdleWorker, Worker,
         NoSweep, Sweep, RunEnded, Count

\* Every variable keeps its type, for any audience, workers and bounds.
THEOREM TypeCorrect == Spec => []TypeOK
<1>1. TypeOK /\ [Next]_vars => TypeOK'
  BY StepType
<1>2. QED
  BY InitType, <1>1, PTL DEF Spec

-------------------------------------------------------------------------------
(* One message per recipient: only Admit queues one, and it looks first.     *)

LEMMA MessagesStep ==
  ASSUME TypeOK, OneMessagePerRecipient, [Next]_vars
  PROVE  OneMessagePerRecipient'
<1>1. ASSUME NEW w \in Workers, NEW r \in Recipients, Send(w, r)
      PROVE  OneMessagePerRecipient'
  <2>1. CASE Admit(w, r)
    <3>1. admitted[r] = 0
      BY <2>1 DEF Admit, Known, TypeOK
    <3>2. admitted' = [admitted EXCEPT ![r] = admitted[r] + 1]
      BY <2>1 DEF Admit
    <3>3. QED
      BY <3>1, <3>2 DEF OneMessagePerRecipient, TypeOK
  <2>2. CASE admitted' = admitted
    BY <2>2 DEF OneMessagePerRecipient
  <2>3. QED
    BY <1>1, <2>1, <2>2 DEF Send, PassBy, Refuse, Replay
<1>2. CASE admitted' = admitted
  BY <1>2 DEF OneMessagePerRecipient
<1>3. QED
  BY <1>1, <1>2 DEF Next, Time, User, Serve, Tick, Begin, RunBecomesDue, ItemBecomesDue,
     LeaseExpires, Schedule, BeginRequest, Pause, Cancel, CancelDraft, Resume, Claim,
     BeginExpiry, EndExpiry, LeaseItems, Record, Finish, Crash, vars

\* No retry, takeover or crash queues a second message to a recipient, whatever
\* the leases do: the idempotency key outlives them.
THEOREM MessagesCorrect == Spec => []OneMessagePerRecipient
<1>1. Init => OneMessagePerRecipient
  BY DEF Init, OneMessagePerRecipient
<1>2. TypeOK /\ OneMessagePerRecipient /\ [Next]_vars => OneMessagePerRecipient'
  BY MessagesStep
<1>3. QED
  BY TypeCorrect, <1>1, <1>2, PTL DEF Spec

-------------------------------------------------------------------------------
(* The invariant. Busy workers carry different fences, which no expiry, pause *)
(* or crash changes. A sweep has one holder, belongs to a run that has not    *)
(* ended, and a cancellation has read whatever is undispatched: nothing       *)
(* becomes undispatched while the run is locked.                              *)

Busy(w) == worker[w].step \in {"claimed", "sending"}

FencesDiffer ==
    \A v, w \in Workers : Busy(v) /\ Busy(w) /\ worker[v].fence = worker[w].fence => v = w

Sweeping(w) == worker[w].step = "sweeping"

SweepIsHeld ==
    /\ \A w \in Workers : Sweeping(w) => sweep.kind = "expiry"
    /\ \A v, w \in Workers : Sweeping(v) /\ Sweeping(w) => v = w
    /\ sweep.kind = "expiry" => run.state = "RUNNING"
    /\ sweep.kind \in {"pause", "cancel"} => run.state \notin RunEnded \union {"NONE"}

CancelSweepsAll == sweep.kind = "cancel" => ItemsIn(Undispatched) \subseteq sweep.items

IInv == /\ TypeOK /\ FencesDiffer /\ SweepIsHeld
        /\ StoriesAgree /\ CancelSweepsAll /\ EndedRunIsSettled

\* What can happen to the workers in a step.
WorkersRest == \A w \in Workers : worker'[w].step = worker[w].step
                                    /\ worker'[w].fence = worker[w].fence
OthersKeep(w) == \A v \in Workers \ {w} : worker'[v] = worker[v]
TakesFence(w) == /\ OthersKeep(w)
                 /\ worker'[w].step = "claimed"
                 /\ \A v \in Workers : worker[v].fence # worker'[w].fence
GoesIdle(w) == OthersKeep(w) /\ worker'[w].step \in {"idle", "sweeping"}
StaysBusy(w) == OthersKeep(w) /\ Busy(w) /\ Busy(w)' /\ worker'[w].fence = worker[w].fence

LEMMA WorkersMove ==
  ASSUME TypeOK, [Next]_vars
  PROVE  \/ WorkersRest
         \/ \E w \in Workers : TakesFence(w) \/ GoesIdle(w) \/ StaysBusy(w)
<1>1. ASSUME NEW w \in Workers, Claim(w) PROVE TakesFence(w)
  <2>1. FreshFence \in Fences /\ \A v \in Workers : worker[v].fence # FreshFence
    BY <1>1 DEF Claim, FencesInUse
  <2>2. QED
    BY <1>1, <2>1, ClaimWrites DEF Claim, TakesFence, OthersKeep
<1>2. ASSUME NEW w \in Workers, EndExpiry(w) PROVE TakesFence(w) \/ GoesIdle(w)
  <2>1. CASE FreshFence \in Fences \ FencesInUse /\ worker' = Claimed(w, FreshFence)
    <3>1. FreshFence \in Fences /\ \A v \in Workers : worker[v].fence # FreshFence
      BY <2>1 DEF FencesInUse
    <3>2. QED
      BY <2>1, <3>1, ClaimWrites DEF TakesFence, OthersKeep
  <2>2. CASE worker' = [worker EXCEPT ![w] = IdleWorker]
    BY <2>2 DEF GoesIdle, OthersKeep, IdleWorker, TypeOK
  <2>3. QED
    BY <1>2, <2>1, <2>2 DEF EndExpiry
<1>3. ASSUME NEW w \in Workers, BeginExpiry(w) PROVE GoesIdle(w)
  BY <1>3 DEF BeginExpiry, GoesIdle, OthersKeep, TypeOK, Worker
<1>4. ASSUME NEW w \in Workers, LeaseItems(w) PROVE StaysBusy(w)
  <2>1. worker[w].step = "claimed"
    BY <1>4 DEF LeaseItems
  <2>2. QED
    BY <1>4, <2>1, LeaseWrites DEF StaysBusy, OthersKeep, Busy
<1>5. ASSUME NEW w \in Workers, GoesOn(w) PROVE WorkersRest
  BY <1>5 DEF GoesOn, WorkersRest
<1>6. ASSUME NEW w \in Workers, Finish(w) \/ Crash(w) PROVE GoesIdle(w)
  BY <1>6 DEF Finish, Crash, GoesIdle, OthersKeep, IdleWorker, TypeOK
<1>7. ASSUME worker' = worker PROVE WorkersRest
  BY <1>7 DEF WorkersRest
<1>8. CASE \E w \in Workers : Tick(w) \/ Crash(w)
  BY <1>1, <1>2, <1>3, <1>4, <1>5, <1>6, <1>8, SendGoesOn, RecordGoesOn DEF Tick
<1>9. CASE Time \/ User \/ Serve \/ UNCHANGED vars
  BY <1>7, <1>9 DEF Time, User, Serve, Begin, RunBecomesDue, ItemBecomesDue, LeaseExpires,
     Schedule, BeginRequest, Pause, Cancel, CancelDraft, Resume, vars
<1>10. QED
  BY <1>8, <1>9 DEF Next

LEMMA FencesStep ==
  ASSUME TypeOK, FencesDiffer, [Next]_vars
  PROVE  FencesDiffer'
<1>1. CASE WorkersRest
  BY <1>1 DEF WorkersRest, FencesDiffer, Busy
<1>2. ASSUME NEW w \in Workers, TakesFence(w) PROVE FencesDiffer'
  BY <1>2 DEF TakesFence, OthersKeep, FencesDiffer, Busy
<1>3. ASSUME NEW w \in Workers, GoesIdle(w) PROVE FencesDiffer'
  BY <1>3 DEF GoesIdle, OthersKeep, FencesDiffer, Busy
<1>4. ASSUME NEW w \in Workers, StaysBusy(w) PROVE FencesDiffer'
  BY <1>4 DEF StaysBusy, OthersKeep, FencesDiffer, Busy
<1>5. QED
  BY <1>1, <1>2, <1>3, <1>4, WorkersMove

\* However leases expire and runs are paused, resumed and taken over, two workers
\* never both pass the check before an item.
THEOREM ActiveCorrect == Spec => []OneActiveDispatcher
<1>1. Init => FencesDiffer
  BY DEF Init, FencesDiffer, Busy, IdleWorker
<1>2. TypeOK /\ FencesDiffer /\ [Next]_vars => FencesDiffer'
  BY FencesStep
<1>3. FencesDiffer => OneActiveDispatcher
  BY DEF FencesDiffer, OneActiveDispatcher, Busy, Active
<1>4. QED
  BY TypeCorrect, <1>1, <1>2, <1>3, PTL DEF Spec

-------------------------------------------------------------------------------
(* The run, the campaign's status and the summaries. *)

\* A step that leaves the story as it is.
StoryRests ==
    /\ run'.state = run.state
    /\ UNCHANGED <<campaign, summaries>>

LEMMA RestingStory == ASSUME StoriesAgree, StoryRests PROVE StoriesAgree'
  BY DEF StoriesAgree, StoryRests

\* A run that has not ended goes on without ending.
LEMMA OpenStory ==
  ASSUME StoriesAgree, UNCHANGED summaries,
         run.state \notin RunEnded, run'.state \notin RunEnded,
         campaign' # "completed", campaign' = "paused" <=> run'.state = "PAUSED",
         campaign' = "cancelled" => run'.state = "NONE"
  PROVE  StoriesAgree'
  BY DEF StoriesAgree, RunEnded

LEMMA StoriesStep ==
  ASSUME TypeOK, SweepIsHeld, StoriesAgree, [Next]_vars
  PROVE  StoriesAgree'
<1>1. ASSUME NEW w \in Workers, Finish(w) PROVE StoriesAgree'
  <2>1. CASE UNCHANGED <<run, campaign, summaries>>
    BY <2>1, RestingStory DEF StoryRests
  <2>2. CASE /\ Active(w) /\ UNCHANGED <<campaign, summaries>>
             /\ run' = [run EXCEPT !.state = "RETRYING", !.due = FALSE, !.expired = FALSE]
    <3>1. run.state = "RUNNING" /\ run'.state = "RETRYING"
      BY <2>2 DEF Active, TypeOK, Run
    <3>2. QED
      BY <2>2, <3>1, OpenStory DEF StoriesAgree, RunEnded
  <2>3. CASE /\ Active(w) /\ campaign' = "completed"
             /\ summaries' = summaries \union {"COMPLETED"}
             /\ run' = [run EXCEPT !.state = "COMPLETED", !.expired = FALSE]
    <3>1. run.state = "RUNNING" /\ run'.state = "COMPLETED"
      BY <2>3 DEF Active, TypeOK, Run
    <3>2. QED
      BY <2>3, <3>1 DEF StoriesAgree, RunEnded
  <2>4. QED
    BY <1>1, <2>1, <2>2, <2>3 DEF Finish
<1>2. ASSUME NEW w \in Workers, Claim(w) PROVE StoriesAgree'
  <2>1. run.state \in {"SCHEDULED", "RETRYING"} /\ run'.state = "RUNNING"
          /\ UNCHANGED <<campaign, summaries>>
    BY <1>2, ClaimWrites DEF Claim
  <2>2. QED
    BY <2>1, OpenStory DEF StoriesAgree, RunEnded
<1>3. ASSUME NEW w \in Workers, EndExpiry(w) PROVE StoriesAgree'
  <2>1. run.state = "RUNNING" /\ UNCHANGED <<campaign, summaries>>
    BY <1>3 DEF EndExpiry, SweepIsHeld, Sweeping
  <2>2. run'.state \in {"RUNNING", "RETRYING"}
    <3>1. CASE FreshFence \in Fences /\ run' = [RunUnder(FreshFence) EXCEPT !.due = TRUE]
      <4>1. RunUnder(FreshFence) \in Run /\ RunUnder(FreshFence).state = "RUNNING"
        BY <1>3, <3>1, ClaimWrites
      <4>2. QED
        BY <3>1, <4>1 DEF Run
    <3>2. CASE run' = [run EXCEPT !.state = "RETRYING", !.due = TRUE, !.expired = FALSE]
      BY <3>2 DEF TypeOK, Run
    <3>3. QED
      BY <1>3, <3>1, <3>2 DEF EndExpiry
  <2>3. QED
    BY <2>1, <2>2, OpenStory DEF StoriesAgree, RunEnded
<1>4. CASE Pause
  <2>1. run.state \notin RunEnded /\ run'.state = "PAUSED" /\ campaign' = "paused"
          /\ UNCHANGED summaries
    BY <1>4 DEF Pause, SweepIsHeld, TypeOK, Run
  <2>2. QED
    BY <2>1, OpenStory DEF RunEnded
<1>5. CASE Cancel
  <2>1. run.state \notin RunEnded /\ run'.state = "CANCELLED" /\ campaign' = "cancelled"
          /\ summaries' = summaries \union {"CANCELLED"}
    BY <1>5 DEF Cancel, SweepIsHeld, TypeOK, Run
  <2>2. QED
    BY <2>1 DEF StoriesAgree, RunEnded
<1>6. CASE Schedule
  <2>1. campaign = "draft" /\ run'.state = "SCHEDULED" /\ campaign' = "scheduled"
          /\ UNCHANGED summaries
    BY <1>6 DEF Schedule, TypeOK, Run
  <2>2. QED
    BY <2>1, OpenStory DEF StoriesAgree, RunEnded
<1>7. CASE Resume
  <2>1. run.state = "PAUSED" /\ run'.state = "RETRYING" /\ campaign' = "scheduled"
          /\ UNCHANGED summaries
    BY <1>7 DEF Resume, TypeOK, Run
  <2>2. QED
    BY <2>1, OpenStory DEF StoriesAgree, RunEnded
<1>8. CASE CancelDraft
  <2>1. run.state = "NONE" /\ run'.state = "NONE" /\ campaign' = "cancelled"
          /\ UNCHANGED summaries
    BY <1>8 DEF CancelDraft
  <2>2. QED
    BY <2>1, OpenStory DEF RunEnded
<1>9. CASE Begin \/ RunBecomesDue \/ LeaseExpires
  <2>1. run'.state = run.state /\ UNCHANGED <<campaign, summaries>>
    BY <1>9 DEF Begin, RunBecomesDue, LeaseExpires, TypeOK, Run
  <2>2. QED
    BY <2>1, RestingStory DEF StoryRests
<1>10. CASE UNCHANGED <<run, campaign, summaries>>
  BY <1>10, RestingStory DEF StoryRests
<1>11. CASE \E w \in Workers : Tick(w) \/ Crash(w)
  BY <1>1, <1>2, <1>3, <1>10, <1>11 DEF Tick, BeginExpiry, LeaseItems, Record, Crash,
     Send, PassBy, Refuse, Replay, Admit
<1>12. CASE Time \/ User \/ Serve \/ UNCHANGED vars
  BY <1>4, <1>5, <1>6, <1>7, <1>8, <1>9, <1>10, <1>12 DEF Time, User, Serve, ItemBecomesDue,
     BeginRequest, vars
<1>13. QED
  BY <1>11, <1>12 DEF Next

\* While the run is locked, whoever sweeps alone decides about its state.
LockKeeps ==
    /\ UNCHANGED sweep /\ \A w \in Workers : Sweeping(w)' <=> Sweeping(w)
    /\ run'.state # run.state => Unlocked

LEMMA SweepStep ==
  ASSUME TypeOK, SweepIsHeld, StoriesAgree, [Next]_vars
  PROVE  SweepIsHeld'
<1>1. CASE LockKeeps
  BY <1>1 DEF LockKeeps, SweepIsHeld, Unlocked
<1>2. ASSUME NEW kind \in Requests, BeginRequest(kind) PROVE SweepIsHeld'
  <2>1. sweep'.kind \in {"pause", "cancel"} /\ UNCHANGED <<run, worker>>
    BY <1>2, CampaignAssumption DEF BeginRequest
  <2>2. \A w \in Workers : ~Sweeping(w)
    BY <1>2 DEF BeginRequest, Unlocked, SweepIsHeld
  <2>3. run.state \notin RunEnded \union {"NONE"}
    BY <1>2 DEF BeginRequest, StoriesAgree, RunEnded
  <2>4. QED
    BY <2>1, <2>2, <2>3 DEF SweepIsHeld, Sweeping
<1>3. CASE Pause \/ Cancel
  <2>1. sweep'.kind = "none" /\ UNCHANGED worker /\ sweep.kind # "expiry"
    BY <1>3 DEF Pause, Cancel, NoSweep
  <2>2. QED
    BY <2>1 DEF SweepIsHeld, Sweeping
<1>4. ASSUME NEW w \in Workers, BeginExpiry(w) PROVE SweepIsHeld'
  <2>1. sweep'.kind = "expiry" /\ run.state = "RUNNING" /\ UNCHANGED run
    BY <1>4 DEF BeginExpiry
  <2>2. \A v \in Workers : ~Sweeping(v)
    BY <1>4 DEF BeginExpiry, Unlocked, SweepIsHeld
  <2>3. \A v \in Workers \ {w} : worker'[v] = worker[v]
    BY <1>4 DEF BeginExpiry, TypeOK
  <2>4. QED
    BY <2>1, <2>2, <2>3 DEF SweepIsHeld, Sweeping, RunEnded
<1>5. ASSUME NEW w \in Workers, Sweeping(w), sweep' = NoSweep, worker'[w].step # "sweeping",
             \A v \in Workers \ {w} : worker'[v] = worker[v]
      PROVE  SweepIsHeld'
  BY <1>5 DEF SweepIsHeld, Sweeping, NoSweep
<1>6. ASSUME NEW w \in Workers, EndExpiry(w) PROVE SweepIsHeld'
  <2>1. worker'[w].step # "sweeping" /\ \A v \in Workers \ {w} : worker'[v] = worker[v]
    BY <1>6, ClaimWrites DEF EndExpiry, IdleWorker, TypeOK
  <2>2. QED
    BY <1>5, <1>6, <2>1 DEF EndExpiry, Sweeping
<1>7. ASSUME NEW w \in Workers, Crash(w) PROVE SweepIsHeld'
  <2>1. worker'[w].step # "sweeping" /\ \A v \in Workers \ {w} : worker'[v] = worker[v]
    BY <1>7 DEF Crash, IdleWorker, TypeOK
  <2>2. CASE worker[w].step = "sweeping"
    BY <1>5, <1>7, <2>1, <2>2 DEF Crash, Sweeping
  <2>3. CASE worker[w].step # "sweeping"
    BY <1>1, <1>7, <2>1, <2>3 DEF Crash, Sweeping, LockKeeps
  <2>4. QED
    BY <2>2, <2>3
<1>8. ASSUME NEW w \in Workers, Claim(w) PROVE LockKeeps
  <2>1. worker'[w].step = "claimed" /\ \A v \in Workers \ {w} : worker'[v] = worker[v]
    BY <1>8, ClaimWrites DEF Claim
  <2>2. QED
    BY <1>8, <2>1 DEF Claim, LockKeeps, Sweeping
<1>9. ASSUME NEW w \in Workers, LeaseItems(w) PROVE LockKeeps
  BY <1>9, LeaseWrites DEF LeaseItems, LockKeeps, Sweeping
<1>10. ASSUME NEW w \in Workers, NEW r \in Recipients, Send(w, r) PROVE LockKeeps
  <2>1. UNCHANGED <<run, sweep>>
    BY <1>10 DEF Send, PassBy, Refuse, Replay, Admit
  <2>2. QED
    BY <1>10, <2>1, SendGoesOn DEF GoesOn, LockKeeps, Sweeping
<1>11. ASSUME NEW w \in Workers, Record(w) PROVE LockKeeps
  BY <1>11, RecordGoesOn DEF Record, GoesOn, LockKeeps, Sweeping
<1>12. ASSUME NEW w \in Workers, Finish(w) PROVE LockKeeps
  BY <1>12 DEF Finish, LockKeeps, Sweeping, IdleWorker, TypeOK
<1>13. ASSUME worker' = worker, sweep' = sweep, Unlocked \/ run'.state = run.state
       PROVE  LockKeeps
  <2>1. \A w \in Workers : Sweeping(w)' <=> Sweeping(w)
    BY <1>13 DEF Sweeping
  <2>2. QED
    BY <1>13, <2>1 DEF LockKeeps
<1>14. CASE Begin \/ RunBecomesDue \/ LeaseExpires
  <2>1. worker' = worker /\ sweep' = sweep
    BY <1>14 DEF Begin, RunBecomesDue, LeaseExpires
  <2>2. run'.state = run.state
    BY <1>14 DEF Begin, RunBecomesDue, LeaseExpires, TypeOK, Run
  <2>3. QED
    BY <1>1, <1>13, <2>1, <2>2
<1>15. CASE \E w \in Workers : Tick(w) \/ Crash(w)
  BY <1>1, <1>4, <1>6, <1>7, <1>8, <1>9, <1>10, <1>11, <1>12, <1>15 DEF Tick
<1>16. CASE Time \/ User \/ Serve \/ UNCHANGED vars
  BY <1>1, <1>2, <1>3, <1>13, <1>14, <1>16 DEF Time, User, Serve, ItemBecomesDue, Schedule,
     CancelDraft, Resume, vars
<1>17. QED
  BY <1>15, <1>16 DEF Next

-------------------------------------------------------------------------------
(* The items. *)

\* A sweep writes blindly what it has read; every other step leaves the items
\* alone that are no longer to be dispatched.
SettledItemsKeep ==
    \A r \in Recipients : item[r].state \notin Undispatched => item'[r].state = item[r].state

LEMMA MarkedKeeps ==
  ASSUME TypeOK, NEW w \in Workers, NEW r \in Recipients, NEW state \in ItemStates,
         item' = Marked(w, r, state)
  PROVE  SettledItemsKeep
  BY MarkedWrites DEF SettledItemsKeep, Undispatched

LEMMA ItemsMove ==
  ASSUME TypeOK, [Next]_vars
  PROVE  SettledItemsKeep \/ Pause \/ Cancel \/ \E w \in Workers : EndExpiry(w)
<1>1. CASE Begin
  <2>1. \A r \in Recipients : item'[r].state = item[r].state
    BY <1>1, ItemFieldTypes DEF Begin
  <2>2. QED
    BY <2>1 DEF SettledItemsKeep
<1>2. ASSUME NEW r \in Recipients, ItemBecomesDue(r) PROVE SettledItemsKeep
  BY <1>2 DEF ItemBecomesDue, SettledItemsKeep, TypeOK, Item
<1>3. ASSUME NEW w \in Workers, LeaseItems(w) PROVE SettledItemsKeep
  BY <1>3, LeaseWrites DEF SettledItemsKeep, Undispatched
<1>4. ASSUME NEW w \in Workers, NEW r \in Recipients, Send(w, r) PROVE SettledItemsKeep
  <2>1. CASE item' = item
    BY <2>1 DEF SettledItemsKeep
  <2>2. CASE \E state \in {"SUPPRESSED", "RETRYING", "FAILED", "DELIVERED"} :
               item' = Marked(w, r, state)
    <3>1. PICK state \in ItemStates : item' = Marked(w, r, state)
      BY <2>2 DEF ItemStates
    <3>2. QED
      BY <3>1, MarkedKeeps
  <2>3. QED
    BY <1>4, <2>1, <2>2 DEF Send, PassBy, Refuse, Replay, Admit
<1>5. ASSUME NEW w \in Workers, Record(w) PROVE SettledItemsKeep
  <2>1. worker[w].sent \in Recipients /\ "DELIVERED" \in ItemStates
    BY <1>5 DEF Record, TypeOK, Worker, ItemStates
  <2>2. QED
    BY <1>5, <2>1, MarkedKeeps DEF Record
<1>6. CASE item' = item
  BY <1>6 DEF SettledItemsKeep
<1>7. CASE \E w \in Workers : Tick(w) \/ Crash(w)
  BY <1>3, <1>4, <1>5, <1>6, <1>7 DEF Tick, Claim, BeginExpiry, Finish, Crash
<1>8. CASE Time \/ User \/ Serve \/ UNCHANGED vars
  BY <1>1, <1>2, <1>6, <1>8 DEF Time, User, Serve, RunBecomesDue, LeaseExpires,
     Schedule, BeginRequest, CancelDraft, Resume, vars
<1>9. QED
  BY <1>7, <1>8 DEF Next

\* What a step makes of the sweep.
LEMMA SweepMoves ==
  ASSUME [Next]_vars
  PROVE  \/ sweep' = sweep
         \/ sweep' = NoSweep
         \/ sweep'.kind = "expiry"
         \/ UNCHANGED item /\ \E kind \in Requests :
              sweep' = [kind |-> kind, items |-> SweptItems(kind)]
<1>1. ASSUME NEW w \in Workers, BeginExpiry(w) PROVE sweep'.kind = "expiry"
  BY <1>1 DEF BeginExpiry
<1>2. ASSUME NEW w \in Workers, Crash(w) PROVE sweep' = sweep \/ sweep' = NoSweep
  BY <1>2 DEF Crash
<1>3. ASSUME NEW w \in Workers, NEW r \in Recipients, Send(w, r) PROVE sweep' = sweep
  BY <1>3 DEF Send, PassBy, Refuse, Replay, Admit
<1>4. ASSUME NEW w \in Workers, Tick(w)
      PROVE  sweep' = sweep \/ sweep' = NoSweep \/ sweep'.kind = "expiry"
  <2>1. CASE Claim(w) \/ LeaseItems(w) \/ Record(w) \/ Finish(w)
    BY <2>1 DEF Claim, LeaseItems, Record, Finish
  <2>2. CASE EndExpiry(w)
    BY <2>2 DEF EndExpiry
  <2>3. QED
    BY <1>1, <1>3, <1>4, <2>1, <2>2 DEF Tick
<1>5. CASE Time \/ Schedule \/ CancelDraft \/ Resume \/ Serve \/ UNCHANGED vars
  BY <1>5 DEF Time, Serve, Begin, RunBecomesDue, ItemBecomesDue, LeaseExpires,
     Schedule, Pause, Cancel, CancelDraft, Resume, vars
<1>6. CASE \E kind \in Requests : BeginRequest(kind)
  BY <1>6 DEF BeginRequest
<1>7. QED
  BY <1>2, <1>4, <1>5, <1>6 DEF Next, User

LEMMA CancelStep ==
  ASSUME TypeOK, CancelSweepsAll, [Next]_vars
  PROVE  CancelSweepsAll'
<1>1. CASE sweep' = NoSweep \/ sweep'.kind = "expiry"
  BY <1>1 DEF CancelSweepsAll, NoSweep
<1>2. CASE sweep' = sweep /\ SettledItemsKeep
  BY <1>2 DEF CancelSweepsAll, SettledItemsKeep, ItemsIn
<1>3. CASE UNCHANGED item /\ \E kind \in Requests :
             sweep' = [kind |-> kind, items |-> SweptItems(kind)]
  <2>1. PICK kind \in Requests : sweep' = [kind |-> kind, items |-> SweptItems(kind)]
    BY <1>3
  <2>2. kind = "cancel" => sweep'.items = ItemsIn(Undispatched)
    BY <2>1 DEF SweptItems
  <2>3. ItemsIn(Undispatched)' = ItemsIn(Undispatched)
    BY <1>3 DEF ItemsIn
  <2>4. QED
    BY <2>1, <2>2, <2>3 DEF CancelSweepsAll
<1>4. CASE Pause \/ Cancel \/ \E w \in Workers : EndExpiry(w)
  BY <1>1, <1>4 DEF Pause, Cancel, EndExpiry
<1>5. QED
  BY <1>1, <1>2, <1>3, <1>4, ItemsMove, SweepMoves

\* A run ends by a cancellation or by its worker.
LEMMA RunEnds ==
  ASSUME TypeOK, SweepIsHeld, [Next]_vars, run'.state \in RunEnded
  PROVE  \/ run.state \in RunEnded
         \/ Cancel
         \/ UNCHANGED item /\ Remaining = {}
<1>1. ASSUME NEW w \in Workers, EndExpiry(w) PROVE run'.state \notin RunEnded
  <2>1. CASE FreshFence \in Fences /\ run' = [RunUnder(FreshFence) EXCEPT !.due = TRUE]
    <3>1. RunUnder(FreshFence) \in Run /\ RunUnder(FreshFence).state = "RUNNING"
      BY <2>1, ClaimWrites
    <3>2. QED
      BY <2>1, <3>1 DEF Run, RunEnded
  <2>2. CASE run' = [run EXCEPT !.state = "RETRYING", !.due = TRUE, !.expired = FALSE]
    BY <2>2 DEF TypeOK, Run, RunEnded
  <2>3. QED
    BY <1>1, <2>1, <2>2 DEF EndExpiry
<1>2. ASSUME NEW w \in Workers, Claim(w) PROVE run'.state \notin RunEnded
  BY <1>2, ClaimWrites DEF Claim, RunEnded
<1>3. CASE Schedule \/ Pause \/ Resume
  BY <1>3 DEF Schedule, Pause, Resume, TypeOK, Run, RunEnded
<1>4. CASE Begin \/ RunBecomesDue \/ LeaseExpires
  BY <1>4 DEF Begin, RunBecomesDue, LeaseExpires, TypeOK, Run
<1>5. ASSUME NEW w \in Workers, Finish(w)
      PROVE  run.state \in RunEnded \/ (UNCHANGED item /\ Remaining = {})
  BY <1>5 DEF Finish, TypeOK, Run, RunEnded
<1>6. CASE UNCHANGED run
  BY <1>6
<1>7. CASE \E w \in Workers : Tick(w) \/ Crash(w)
  BY <1>1, <1>2, <1>5, <1>6, <1>7 DEF Tick, BeginExpiry, LeaseItems, Record, Crash, Send,
     PassBy, Refuse, Replay, Admit
<1>8. CASE Time \/ User \/ Serve \/ UNCHANGED vars
  BY <1>3, <1>4, <1>6, <1>8 DEF Time, User, Serve, ItemBecomesDue, BeginRequest,
     CancelDraft, vars
<1>9. QED
  BY <1>7, <1>8 DEF Next

LEMMA EndedStep ==
  ASSUME TypeOK, SweepIsHeld, CancelSweepsAll, EndedRunIsSettled, [Next]_vars
  PROVE  EndedRunIsSettled'
<1> SUFFICES ASSUME run'.state \in RunEnded PROVE ItemsIn(Undispatched)' = {}
  BY DEF EndedRunIsSettled
<1>1. CASE Cancel
  <2>1. sweep.kind = "cancel" /\ item' = Swept("CANCELLED") /\ "CANCELLED" \in ItemStates
    BY <1>1 DEF Cancel, ItemStates
  <2>2. ASSUME NEW r \in Recipients PROVE item'[r].state \notin Undispatched
    <3>1. CASE r \in sweep.items
      BY <2>1, <3>1, SweptWrites DEF Undispatched
    <3>2. CASE r \notin sweep.items
      BY <2>1, <3>2, SweptWrites DEF CancelSweepsAll, ItemsIn
    <3>3. QED
      BY <3>1, <3>2
  <2>3. QED
    BY <2>2 DEF ItemsIn
<1>2. CASE UNCHANGED item /\ Remaining = {}
  BY <1>2 DEF Remaining, ItemsIn
<1>3. CASE run.state \in RunEnded
  <2>1. ItemsIn(Undispatched) = {} /\ sweep.kind = "none"
    BY <1>3 DEF EndedRunIsSettled, SweepIsHeld, RunEnded, TypeOK, Sweep
  <2>2. ~Pause /\ ~Cancel /\ \A w \in Workers : ~EndExpiry(w)
    BY <2>1 DEF Pause, Cancel, EndExpiry, SweepIsHeld, Sweeping
  <2>3. SettledItemsKeep
    BY <2>2, ItemsMove
  <2>4. QED
    BY <2>1, <2>3 DEF SettledItemsKeep, ItemsIn
<1>4. QED
  BY <1>1, <1>2, <1>3, RunEnds

-------------------------------------------------------------------------------
(* The invariant is inductive. *)

LEMMA InvInit == Init => IInv
<1> SUFFICES ASSUME Init PROVE IInv
  OBVIOUS
<1>1. TypeOK
  BY InitType
<1>2. FencesDiffer
  BY DEF Init, FencesDiffer, Busy, IdleWorker
<1>3. SweepIsHeld /\ CancelSweepsAll
  BY DEF Init, SweepIsHeld, Sweeping, CancelSweepsAll, NoSweep, IdleWorker
<1>4. StoriesAgree /\ EndedRunIsSettled
  BY DEF Init, StoriesAgree, EndedRunIsSettled, RunEnded
<1>5. QED
  BY <1>1, <1>2, <1>3, <1>4 DEF IInv

LEMMA InvStep == IInv /\ [Next]_vars => IInv'
  BY StepType, FencesStep, SweepStep, StoriesStep, CancelStep, EndedStep DEF IInv

LEMMA Invariant == Spec => []IInv
<1>1. QED
  BY InvInit, InvStep, PTL DEF Spec

\* The campaign's status, the state of its run and its summaries agree after
\* every transaction of every worker and request.
THEOREM StoriesCorrect == Spec => []StoriesAgree
<1>1. IInv => StoriesAgree
  BY DEF IInv
<1>2. QED
  BY Invariant, <1>1, PTL

\* A run that has ended, completed or cancelled, has no item left to dispatch.
THEOREM SettledCorrect == Spec => []EndedRunIsSettled
<1>1. IInv => EndedRunIsSettled
  BY DEF IInv
<1>2. QED
  BY Invariant, <1>1, PTL

-------------------------------------------------------------------------------
(* The end is final. *)

Same ==
    /\ run'.state = run.state
    /\ UNCHANGED <<campaign, admitted, summaries>>

LEMMA SameAfterEnd ==
  ASSUME IInv, [Next]_vars, run.state \in RunEnded
  PROVE  Same
<1> USE DEF Same
<1>1. campaign \in {"completed", "cancelled"} /\ sweep.kind = "none"
        /\ run.state \notin {"NONE", "SCHEDULED", "RUNNING", "RETRYING", "PAUSED"}
  BY DEF IInv, StoriesAgree, SweepIsHeld, RunEnded, TypeOK, Sweep
<1>2. ~Serve
  BY <1>1 DEF Serve, Pause, Cancel
<1>3. ASSUME NEW kind \in Requests PROVE BeginRequest(kind) => Same
  BY DEF BeginRequest
<1>4. CASE Time
  BY <1>4 DEF Time, Begin, RunBecomesDue, LeaseExpires, ItemBecomesDue, IInv, TypeOK, Run
<1>5. CASE User
  BY <1>1, <1>3, <1>5 DEF User, Schedule, CancelDraft, Resume
<1>6. ASSUME NEW w \in Workers, NEW r \in Recipients, Send(w, r) PROVE Same
  BY <1>1, <1>6 DEF Send, PassBy, Refuse, Replay, Admit, Active
<1>7. ASSUME NEW w \in Workers, Finish(w) PROVE Same
  BY <1>1, <1>7 DEF Finish, Active
<1>8. ASSUME NEW w \in Workers PROVE ~Claim(w) /\ ~BeginExpiry(w) /\ ~EndExpiry(w)
  BY <1>1 DEF Claim, BeginExpiry, EndExpiry, IInv, SweepIsHeld, Sweeping
<1>9. ASSUME NEW w \in Workers PROVE LeaseItems(w) \/ Record(w) \/ Crash(w) => Same
  BY DEF LeaseItems, Record, Crash
<1>10. CASE \E w \in Workers : Tick(w) \/ Crash(w)
  BY <1>6, <1>7, <1>8, <1>9, <1>10 DEF Tick
<1>11. CASE UNCHANGED vars
  BY <1>11 DEF vars
<1>12. QED
  BY <1>2, <1>4, <1>5, <1>10, <1>11 DEF Next

LEMMA ItemsAfterEnd ==
  ASSUME IInv, [Next]_vars, run.state \in RunEnded
  PROVE  \A r \in Recipients : item'[r].state = item[r].state
<1>1. sweep.kind = "none" /\ ItemsIn(Undispatched) = {}
  BY DEF IInv, SweepIsHeld, EndedRunIsSettled, RunEnded, TypeOK, Sweep
<1>2. ~Pause /\ ~Cancel /\ \A w \in Workers : ~EndExpiry(w)
  BY <1>1 DEF Pause, Cancel, EndExpiry, IInv, SweepIsHeld, Sweeping
<1>3. SettledItemsKeep
  BY <1>2, ItemsMove DEF IInv
<1>4. QED
  BY <1>1, <1>3 DEF SettledItemsKeep, ItemsIn

\* Nothing a late worker, request, lease or crash does changes a run that has
\* ended, its items, its messages or its summary.
THEOREM FinalCorrect == Spec => EndIsFinal
<1>1. IInv /\ [Next]_vars =>
        [run.state \in RunEnded =>
           /\ run'.state = run.state
           /\ UNCHANGED <<campaign, admitted, summaries>>
           /\ \A r \in Recipients : item'[r].state = item[r].state]_vars
  BY SameAfterEnd, ItemsAfterEnd DEF Same
<1>2. QED
  BY Invariant, <1>1, PTL DEF Spec, EndIsFinal
===============================================================================
