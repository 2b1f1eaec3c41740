---------------------------- MODULE ServicesProofs ----------------------------
(***************************************************************************)
(* Proofs about MCServices, the composition of the services, for any       *)
(* values of their constants: the invariants of all services hold          *)
(* together, whichever service moves, so what each promises alone it keeps *)
(* there. The billing worker and the provisioning of tenants, whose        *)
(* properties are about liveness, have their types and the safe part of    *)
(* provisioning proved here.                                               *)
(***************************************************************************)
EXTENDS MCServices, MessagingProofs, CountingProofs, IdentityProofs

-------------------------------------------------------------------------------
(***************************************************************************)
(* The billing worker: types.                                              *)
(***************************************************************************)

LEMMA NewTickType ==
  /\ NewTick \in BillingTick
  /\ \A step \in {"sweep", "complete"} : [NewTick EXCEPT !.step = step] \in BillingTick
  /\ \A e \in BillingEvents : [NewTick EXCEPT !.step = "complete", !.found = {e}] \in BillingTick
BY DEF NewTick, NoAttempts, BillingTick

\* A step writes rows of the table and what one worker has read, or neither.
LEMMA WorkWrites ==
  ASSUME WorkTypeOK, booked' \in SUBSET BillingEvents, workItem' \in [BillingEvents -> WorkItem],
         \/ tick' = tick
         \/ \E w \in BillingWorkers : \E rec \in BillingTick : tick' = [tick EXCEPT ![w] = rec],
         workFaults' \in 0..WorkMaxFaults
  PROVE  WorkTypeOK'
BY DEF WorkTypeOK

LEMMA DiscoverType ==
  ASSUME WorkTypeOK, NEW w \in BillingWorkers, TickDiscover(w)
  PROVE  WorkTypeOK'
<1>1. PICK S \in SUBSET BillingEvents : S = Undiscovered
  BY DEF WorkTypeOK, Undiscovered
<1>2. [tick[w] EXCEPT !.step = "insert", !.found = S] \in BillingTick
  BY <1>1 DEF WorkTypeOK, BillingTick
<1>3. tick' = [tick EXCEPT ![w] = [tick[w] EXCEPT !.step = "insert", !.found = S]]
  BY <1>1 DEF TickDiscover
<1>4. booked' = booked /\ workItem' = workItem /\ workFaults' = workFaults
  BY DEF TickDiscover
<1>5. QED
  BY <1>2, <1>3, <1>4, WorkWrites DEF WorkTypeOK

LEMMA InsertType ==
  ASSUME WorkTypeOK, NEW w \in BillingWorkers, TickInsert(w)
  PROVE  WorkTypeOK'
<1>1. \A e \in BillingEvents : [workItem[e] EXCEPT !.state = "PENDING"] \in WorkItem
  BY DEF WorkTypeOK, WorkItem, WorkStates
<1>2. workItem' \in [BillingEvents -> WorkItem]
  BY <1>1 DEF WorkTypeOK, TickInsert
<1>3. \E rec \in BillingTick : tick' = [tick EXCEPT ![w] = rec]
  BY NewTickType DEF TickInsert
<1>4. booked' = booked /\ workFaults' = workFaults
  BY DEF TickInsert
<1>5. QED
  BY <1>2, <1>3, <1>4, WorkWrites DEF WorkTypeOK

LEMMA SweepType ==
  ASSUME WorkTypeOK, NEW w \in BillingWorkers, TickSweep(w)
  PROVE  WorkTypeOK'
<1>1. PICK S \in SUBSET BillingEvents : S = WorkExpired
  BY DEF WorkExpired
<1> DEFINE attempts == [e \in BillingEvents |-> IF e \in WorkExpired THEN workItem[e].attempts ELSE 0]
<1>2. attempts \in [BillingEvents -> Nat]
  BY DEF WorkTypeOK, WorkItem
<1>3. tick' = [tick EXCEPT ![w] = [step |-> "return", found |-> S, attempts |-> attempts]]
  BY <1>1 DEF TickSweep
<1> HIDE DEF attempts
<1>4. [step |-> "return", found |-> S, attempts |-> attempts] \in BillingTick
  BY <1>1, <1>2 DEF BillingTick
<1>5. booked' = booked /\ workItem' = workItem /\ workFaults' = workFaults
  BY DEF TickSweep
<1>6. QED
  BY <1>3, <1>4, <1>5, WorkWrites DEF WorkTypeOK

LEMMA ReturnType ==
  ASSUME WorkTypeOK, NEW w \in BillingWorkers, TickReturn(w)
  PROVE  WorkTypeOK'
<1>1. ASSUME NEW rec \in WorkItem, NEW attempts
      PROVE  Returned(rec, attempts) \in WorkItem
  <2>1. PICK state \in WorkStates :
          state = IF attempts >= WorkMaxAttempts THEN "DEAD_LETTER" ELSE "RETRY"
    BY DEF WorkStates
  <2>2. [rec EXCEPT !.state = state, !.due = FALSE, !.expired = FALSE] \in WorkItem
    BY DEF WorkItem
  <2>3. QED
    BY <2>1, <2>2 DEF Returned
<1>2. workItem' \in [BillingEvents -> WorkItem]
  BY <1>1 DEF WorkTypeOK, TickReturn
<1>3. [tick[w] EXCEPT !.step = "claim"] \in BillingTick
  BY DEF WorkTypeOK, BillingTick
<1>4. tick' = [tick EXCEPT ![w] = [tick[w] EXCEPT !.step = "claim"]]
  BY DEF TickReturn
<1>5. booked' = booked /\ workFaults' = workFaults
  BY DEF TickReturn
<1>6. QED
  BY <1>2, <1>3, <1>4, <1>5, WorkWrites DEF WorkTypeOK

LEMMA ClaimType ==
  ASSUME WorkTypeOK, NEW w \in BillingWorkers, TickClaim(w)
  PROVE  WorkTypeOK'
<1>1. CASE Waiting = {}
  <2>1. tick' = [tick EXCEPT ![w] = NewTick] /\ workItem' = workItem
          /\ booked' = booked /\ workFaults' = workFaults
    BY <1>1 DEF TickClaim
  <2>2. QED
    BY <2>1, NewTickType, WorkWrites DEF WorkTypeOK
<1>2. CASE Waiting # {}
  <2>1. PICK e \in Waiting :
          /\ workItem' = [workItem EXCEPT ![e] =
                [state |-> "PROCESSING", due |-> TRUE, expired |-> FALSE,
                 attempts |-> 1 + IF e \in tick[w].found THEN tick[w].attempts[e] ELSE workItem[e].attempts]]
          /\ tick' = [tick EXCEPT ![w] = [NewTick EXCEPT !.step = "complete", !.found = {e}]]
    BY <1>2 DEF TickClaim
  <2>2. e \in BillingEvents
    BY DEF Waiting
  <2>3. PICK n \in Nat : n = IF e \in tick[w].found THEN tick[w].attempts[e] ELSE workItem[e].attempts
    BY <2>2 DEF WorkTypeOK, BillingTick, WorkItem
  <2>4. [state |-> "PROCESSING", due |-> TRUE, expired |-> FALSE, attempts |-> 1 + n] \in WorkItem
    BY DEF WorkItem, WorkStates
  <2>5. workItem' \in [BillingEvents -> WorkItem]
    BY <2>1, <2>2, <2>3, <2>4 DEF WorkTypeOK
  <2>6. booked' = booked /\ workFaults' = workFaults
    BY DEF TickClaim
  <2>7. QED
    BY <2>1, <2>2, <2>5, <2>6, NewTickType, WorkWrites DEF WorkTypeOK
<1>3. QED
  BY <1>1, <1>2

LEMMA WorkStep ==
  ASSUME WorkTypeOK, [WorkNext]_workVars
  PROVE  WorkTypeOK'
<1>1. CASE UNCHANGED workVars
  BY <1>1 DEF workVars, WorkTypeOK
<1>2. ASSUME NEW e \in BillingEvents, Book(e) \/ WorkBecomesDue(e) \/ WorkExpires(e)
      PROVE  WorkTypeOK'
  <2>1. /\ [workItem[e] EXCEPT !.due = TRUE] \in WorkItem
        /\ [workItem[e] EXCEPT !.expired = TRUE] \in WorkItem
    BY DEF WorkTypeOK, WorkItem
  <2>2. /\ booked' \in SUBSET BillingEvents /\ workItem' \in [BillingEvents -> WorkItem]
        /\ tick' = tick /\ workFaults' = workFaults
    BY <1>2, <2>1 DEF Book, WorkBecomesDue, WorkExpires, WorkTypeOK
  <2>3. QED
    BY <2>2, WorkWrites DEF WorkTypeOK
<1>3. ASSUME NEW w \in BillingWorkers, TickComplete(w) PROVE WorkTypeOK'
  <2>1. \A e \in BillingEvents : [workItem[e] EXCEPT !.state = "COMPLETED", !.expired = FALSE] \in WorkItem
    BY DEF WorkTypeOK, WorkItem, WorkStates
  <2>2. workItem' \in [BillingEvents -> WorkItem]
    BY <1>3, <2>1 DEF WorkTypeOK, TickComplete
  <2>3. tick' = [tick EXCEPT ![w] = NewTick] /\ booked' = booked /\ workFaults' = workFaults
    BY <1>3 DEF TickComplete
  <2>4. QED
    BY <2>2, <2>3, NewTickType, WorkWrites DEF WorkTypeOK
<1>4. ASSUME NEW w \in BillingWorkers, TickDies(w) PROVE WorkTypeOK'
  <2>1. /\ tick' = [tick EXCEPT ![w] = NewTick] /\ booked' = booked /\ workItem' = workItem
        /\ workFaults' \in 0..WorkMaxFaults
    BY <1>4, WorkAssumption DEF TickDies, WorkTypeOK
  <2>2. QED
    BY <2>1, NewTickType, WorkWrites DEF WorkTypeOK
<1>5. QED
  BY <1>1, <1>2, <1>3, <1>4, DiscoverType, InsertType, SweepType, ReturnType, ClaimType
  DEF WorkNext, TickStep

LEMMA WorkBegins == WorkInit => WorkTypeOK
<1> SUFFICES ASSUME WorkInit PROVE WorkTypeOK
  OBVIOUS
<1>1. [state |-> "none", attempts |-> 0, due |-> TRUE, expired |-> FALSE] \in WorkItem
  BY DEF WorkItem, WorkStates
<1>2. booked \in SUBSET BillingEvents
  BY DEF WorkInit
<1>3. workItem \in [BillingEvents -> WorkItem]
  BY <1>1 DEF WorkInit
<1>4. tick \in [BillingWorkers -> BillingTick]
  BY NewTickType DEF WorkInit
<1>5. workFaults \in 0..WorkMaxFaults
  BY WorkAssumption DEF WorkInit
<1>6. QED
  BY <1>2, <1>3, <1>4, <1>5 DEF WorkTypeOK

-------------------------------------------------------------------------------
(***************************************************************************)
(* Provisioning: types, and that a tenant shown as READY has a key, of a   *)
(* server there is. A worker that goes on after its call has made the      *)
(* server.                                                                 *)
(***************************************************************************)

\* A job that is READY has a key, and a key is that of a server there is. Job and
\* mapping tell the same story unless the job was written last by one who had
\* read it before another's write (provisioning_tick, retry_provisioning).
ReadyMeansProvisioned ==
    \A t \in NewTenants :
        /\ t \notin overtaken => mapping[t].state = job[t].state
        /\ job[t].state = "READY" => mapping[t].key
        /\ mapping[t].key => t \in server

CallersAreRight ==
    \A w \in Provisioners :
        /\ provisioner[w].step \in {"call", "read", "map", "write", "failed", "fail"}
             => provisioner[w].tenant \in NewTenants
        /\ provisioner[w].step \in {"read", "map", "write"} => provisioner[w].tenant \in server
        /\ provisioner[w].step \in {"map", "write"} => provisioner[w].read.state = "RUNNING"

\* What a worker or a request has read is what is there, until somebody writes.
WorkersKnow ==
    \A w \in Provisioners : \A t \in NewTenants :
        w \in current[t] /\ provisioner[w].tenant = t =>
            /\ provisioner[w].step \in {"map", "write", "fail"}
                 => provisioner[w].read.state = job[t].state
            /\ provisioner[w].step = "write" => provisioner[w].shown = mapping[t].state

RequestsKnow ==
    \A r \in ProvisionRequests : \A t \in NewTenants :
        r \in current[t] /\ retrying[r].tenant = t => retrying[r].read.state = job[t].state

ProvisionInv ==
    ProvisionTypeOK /\ ReadyMeansProvisioned /\ CallersAreRight /\ WorkersKnow /\ RequestsKnow

-------------------------------------------------------------------------------
(* Types. *)

LEMMA NoJobType == NoJob \in Job /\ NoJob.state = "none"
BY DEF NoJob, Job, JobStates

LEMMA IdleProvisionerType ==
  /\ IdleProvisioner \in Provisioner /\ IdleProvisioner.step = "sweep"
  /\ \A t \in NewTenants : \A step \in {"call", "failed"} :
        /\ [IdleProvisioner EXCEPT !.step = step, !.tenant = t] \in Provisioner
        /\ [IdleProvisioner EXCEPT !.step = step, !.tenant = t].step = step
        /\ [IdleProvisioner EXCEPT !.step = step, !.tenant = t].tenant = t
  /\ \A f \in [NewTenants -> Nat \union {-1}] :
        /\ [IdleProvisioner EXCEPT !.step = "recover", !.swept = f] \in Provisioner
        /\ [IdleProvisioner EXCEPT !.step = "recover", !.swept = f].step = "recover"
<1>1. "none" \in JobStates
  BY DEF JobStates
<1>2. NoneSwept \in [NewTenants -> Nat \union {-1}]
  BY DEF NoneSwept
<1>3. QED
  BY <1>1, <1>2, NoJobType DEF IdleProvisioner, Provisioner

LEMMA JobStateTypes ==
  /\ "PENDING" \in JobStates /\ "RUNNING" \in JobStates /\ "RETRYABLE_FAILURE" \in JobStates
  /\ "READY" \in JobStates /\ "BLOCKED" \in JobStates
BY DEF JobStates, Settled

\* A record with a new state and no lease.
LEMMA GivenUp ==
  ASSUME NEW rec \in Job, NEW state \in JobStates
  PROVE  /\ [rec EXCEPT !.state = state, !.lease = "none"] \in Job
         /\ [rec EXCEPT !.state = state, !.lease = "none"].state = state
BY DEF Job

LEMMA JobWrittenType ==
  ASSUME NEW old \in Job, NEW read \in Job, NEW new \in Job
  PROVE  /\ JobWritten(old, read, new) \in Job
         /\ JobWritten(old, read, new).state = Column(old.state, read.state, new.state)
         /\ JobWritten(old, read, new).state \in {old.state, new.state}
         /\ read.state = old.state => JobWritten(old, read, new).state = new.state
<1>1. /\ Column(old.state, read.state, new.state) \in {old.state, new.state}
      /\ Column(old.attempts, read.attempts, new.attempts) \in {old.attempts, new.attempts}
      /\ Column(old.lease, read.lease, new.lease) \in {old.lease, new.lease}
      /\ read.state = old.state => Column(old.state, read.state, new.state) = new.state
  BY DEF Column
<1>2. /\ Column(old.state, read.state, new.state) \in JobStates
      /\ Column(old.attempts, read.attempts, new.attempts) \in Nat
      /\ Column(old.lease, read.lease, new.lease) \in {"none", "live", "expired"}
  BY <1>1 DEF Job
<1>3. /\ JobWritten(old, read, new) \in Job
      /\ JobWritten(old, read, new).state = Column(old.state, read.state, new.state)
  BY <1>2 DEF JobWritten, Job
<1>4. QED
  BY <1>1, <1>3

-------------------------------------------------------------------------------
(* What one step does to workers, requests and readers. *)

\* One worker goes on with a record that is right; servers are never removed.
LEMMA CallersGoOn ==
  ASSUME ProvisionInv, NEW w \in Provisioners, NEW rec \in Provisioner,
         provisioner' = [provisioner EXCEPT ![w] = rec],
         server \subseteq server', server' \in SUBSET NewTenants,
         rec.step \in {"call", "read", "map", "write", "failed", "fail"} => rec.tenant \in NewTenants,
         rec.step \in {"read", "map", "write"} => rec.tenant \in server',
         rec.step \in {"map", "write"} => rec.read.state = "RUNNING"
  PROVE  /\ provisioner' \in [Provisioners -> Provisioner]
         /\ CallersAreRight'
         /\ provisioner'[w] = rec
         /\ \A v \in Provisioners : v # w => provisioner'[v] = provisioner[v]
BY DEF ProvisionInv, ProvisionTypeOK, CallersAreRight

\* A worker that holds nothing it has read.
LEMMA CallersLetGo ==
  ASSUME ProvisionInv, NEW w \in Provisioners, NEW rec \in Provisioner,
         provisioner' = [provisioner EXCEPT ![w] = rec],
         server \subseteq server', server' \in SUBSET NewTenants,
         rec.step \in {"call", "read", "failed"} => rec.tenant \in NewTenants,
         rec.step = "read" => rec.tenant \in server',
         rec.step \notin {"map", "write", "fail"}
  PROVE  /\ provisioner' \in [Provisioners -> Provisioner]
         /\ CallersAreRight'
         /\ \A v \in Provisioners : \/ provisioner'[v] = provisioner[v]
                                    \/ provisioner'[v].step \notin {"map", "write", "fail"}
BY CallersGoOn

LEMMA CallersStay ==
  ASSUME ProvisionInv, UNCHANGED <<server, provisioner>>
  PROVE  /\ provisioner' \in [Provisioners -> Provisioner] /\ server' \in SUBSET NewTenants
         /\ CallersAreRight'
         /\ \A v \in Provisioners : \/ provisioner'[v] = provisioner[v]
                                    \/ provisioner'[v].step \notin {"map", "write", "fail"}
BY DEF ProvisionInv, ProvisionTypeOK, CallersAreRight

\* States are written by those only who make every reading a thing of the past.
LEMMA ReadersStay ==
  ASSUME ProvisionInv,
         \A t \in NewTenants :
            \/ current'[t] = {}
            \/ /\ current'[t] = current[t]
               /\ job'[t].state = job[t].state /\ mapping'[t].state = mapping[t].state,
         \A v \in Provisioners : \/ provisioner'[v] = provisioner[v]
                                 \/ provisioner'[v].step \notin {"map", "write", "fail"},
         \A r \in ProvisionRequests : \/ retrying'[r] = retrying[r]
                                      \/ retrying'[r].tenant = NoTenant
  PROVE  WorkersKnow' /\ RequestsKnow'
<1>1. WorkersKnow'
  BY DEF ProvisionInv, WorkersKnow
<1>2. RequestsKnow'
  BY ProvisionAssumption DEF ProvisionInv, RequestsKnow
<1>3. QED
  BY <1>1, <1>2

\* A commit keeps what is promised of jobs and mappings.
LEMMA CommitKeeps ==
  ASSUME ProvisionInv, NEW t \in NewTenants, NEW rec \in Job, NEW state \in JobStates,
         NEW inTime \in BOOLEAN, Commit(t, rec, state, inTime), server' = server,
         rec.state = "READY" => job[t].state = "READY",
         inTime => rec.state = state
  PROVE  /\ job' \in [NewTenants -> Job] /\ mapping' \in [NewTenants -> Mapping]
         /\ current' \in [NewTenants -> SUBSET (Provisioners \union ProvisionRequests)]
         /\ overtaken' \in SUBSET NewTenants
         /\ ReadyMeansProvisioned'
         /\ \A u \in NewTenants :
              \/ current'[u] = {}
              \/ /\ current'[u] = current[u]
                 /\ job'[u].state = job[u].state /\ mapping'[u].state = mapping[u].state
<1>1. [mapping[t] EXCEPT !.state = state] \in Mapping
  BY DEF ProvisionInv, ProvisionTypeOK, Mapping
<1>2. mapping' = [mapping EXCEPT ![t] = [mapping[t] EXCEPT !.state = state]]
  BY DEF Commit
<1>3. job' \in [NewTenants -> Job] /\ mapping' \in [NewTenants -> Mapping]
  BY <1>1, <1>2 DEF Commit, ProvisionInv, ProvisionTypeOK
<1>4. /\ mapping'[t].state = state /\ mapping'[t].key = mapping[t].key /\ job'[t] = rec
      /\ \A u \in NewTenants : u # t => mapping'[u] = mapping[u] /\ job'[u] = job[u]
  BY <1>2 DEF Commit, ProvisionInv, ProvisionTypeOK, Mapping
<1>5. /\ current'[t] = {} /\ \A u \in NewTenants : u # t => current'[u] = current[u]
      /\ current' \in [NewTenants -> SUBSET (Provisioners \union ProvisionRequests)]
  BY DEF Commit, ProvisionInv, ProvisionTypeOK
<1>6. /\ overtaken' \in SUBSET NewTenants
      /\ \A u \in NewTenants : u # t => (u \in overtaken' <=> u \in overtaken)
      /\ t \notin overtaken' => inTime
  BY DEF Commit, ProvisionInv, ProvisionTypeOK
<1>7. ReadyMeansProvisioned'
  BY <1>4, <1>6 DEF ReadyMeansProvisioned, ProvisionInv
<1>8. QED
  BY <1>3, <1>4, <1>5, <1>6, <1>7

\* The parts of the invariant that a step leaves to its own proof.
LEMMA InvariantOf ==
  ASSUME dueJobs' \in SUBSET NewTenants, server' \in SUBSET NewTenants,
         job' \in [NewTenants -> Job], mapping' \in [NewTenants -> Mapping],
         current' \in [NewTenants -> SUBSET (Provisioners \union ProvisionRequests)],
         overtaken' \in SUBSET NewTenants,
         provisioner' \in [Provisioners -> Provisioner],
         retrying' \in [ProvisionRequests -> RetryRequest],
         provisionRetries' \in 0..ProvisionMaxRetries,
         provisionFaults' \in 0..ProvisionMaxFaults,
         ReadyMeansProvisioned', CallersAreRight', WorkersKnow', RequestsKnow'
  PROVE  ProvisionInv'
BY DEF ProvisionInv, ProvisionTypeOK

\* A step that leaves jobs and mappings as they are.
LEMMA TablesStay ==
  ASSUME ProvisionInv, UNCHANGED <<job, mapping, overtaken>>, server \subseteq server'
  PROVE  /\ job' \in [NewTenants -> Job] /\ mapping' \in [NewTenants -> Mapping]
         /\ overtaken' \in SUBSET NewTenants /\ ReadyMeansProvisioned'
BY DEF ProvisionInv, ProvisionTypeOK, ReadyMeansProvisioned

LEMMA RestTypes ==
  ASSUME ProvisionInv
  PROVE  /\ dueJobs \in SUBSET NewTenants /\ server \in SUBSET NewTenants
         /\ current \in [NewTenants -> SUBSET (Provisioners \union ProvisionRequests)]
         /\ retrying \in [ProvisionRequests -> RetryRequest]
         /\ provisionRetries \in 0..ProvisionMaxRetries
         /\ provisionFaults \in 0..ProvisionMaxFaults
BY DEF ProvisionInv, ProvisionTypeOK

-------------------------------------------------------------------------------
(* The steps. *)

LEMMA EnqueueStep ==
  ASSUME ProvisionInv, NEW t \in NewTenants, Enqueue(t)
  PROVE  ProvisionInv'
<1>1. PICK rec \in Job : rec = [NoJob EXCEPT !.state = "PENDING"] /\ rec.state = "PENDING"
  <2>1. /\ [NoJob EXCEPT !.state = "PENDING"] \in Job
        /\ [NoJob EXCEPT !.state = "PENDING"].state = "PENDING"
    BY NoJobType, JobStateTypes DEF Job
  <2>2. QED
    BY <2>1
<1>2. Commit(t, rec, "PENDING", TRUE)
  BY <1>1 DEF Enqueue, BothBecome
<1>3. UNCHANGED <<server, provisioner, retrying, provisionRetries, provisionFaults>>
  BY DEF Enqueue
<1>4. dueJobs' \in SUBSET NewTenants
  BY RestTypes DEF Enqueue
<1>5. QED
  BY <1>1, <1>2, <1>3, <1>4, JobStateTypes, CommitKeeps, CallersStay, ReadersStay, InvariantOf, RestTypes

LEMMA RetryReadsStep ==
  ASSUME ProvisionInv, NEW r \in ProvisionRequests, NEW t \in NewTenants, RetryReads(r, t)
  PROVE  ProvisionInv'
<1>1. /\ UNCHANGED <<job, dueJobs, mapping, server, provisioner, provisionFaults, overtaken>>
      /\ retrying' = [retrying EXCEPT ![r] = [tenant |-> t, read |-> job[t]]]
      /\ current' = [current EXCEPT ![t] = current[t] \union {r}]
  BY DEF RetryReads, ReadsJob
<1>2. PICK rec \in RetryRequest : rec = [tenant |-> t, read |-> job[t]]
  <2>1. [tenant |-> t, read |-> job[t]] \in RetryRequest
    BY DEF RetryRequest, ProvisionInv, ProvisionTypeOK
  <2>2. QED
    BY <2>1
<1>3. rec.tenant = t /\ rec.read = job[t]
  BY <1>2
<1>4. /\ retrying' \in [ProvisionRequests -> RetryRequest] /\ retrying'[r] = rec
      /\ \A q \in ProvisionRequests : q # r => retrying'[q] = retrying[q]
  BY <1>1, <1>2, RestTypes
<1>5. /\ current' \in [NewTenants -> SUBSET (Provisioners \union ProvisionRequests)]
      /\ current'[t] = current[t] \union {r}
      /\ \A u \in NewTenants : u # t => current'[u] = current[u]
  BY <1>1, RestTypes
<1>6. r \notin Provisioners
  BY ProvisionAssumption
<1>7. WorkersKnow'
  <2>1. \A w \in Provisioners : \A u \in NewTenants : w \in current'[u] => w \in current[u]
    BY <1>5, <1>6
  <2>2. QED
    BY <1>1, <2>1 DEF WorkersKnow, ProvisionInv
<1>8. RequestsKnow'
  <2>1. \A q \in ProvisionRequests : \A u \in NewTenants :
           q # r /\ q \in current'[u] => q \in current[u]
    BY <1>5
  <2>2. QED
    BY <1>1, <1>3, <1>4, <2>1 DEF RequestsKnow, ProvisionInv
<1>9. provisionRetries' \in 0..ProvisionMaxRetries
  BY ProvisionAssumption, RestTypes DEF RetryReads
<1>10. QED
  BY <1>1, <1>4, <1>5, <1>7, <1>8, <1>9, TablesStay, CallersStay, RestTypes, InvariantOf

LEMMA RetryWritesStep ==
  ASSUME ProvisionInv, NEW r \in ProvisionRequests, RetryWrites(r)
  PROVE  ProvisionInv'
<1>1. PICK t \in NewTenants : t = retrying[r].tenant
  BY RestTypes DEF RetryWrites, RetryRequest
<1>2. PICK new \in Job : new = [NoJob EXCEPT !.state = "PENDING"] /\ new.state = "PENDING"
  <2>1. /\ [NoJob EXCEPT !.state = "PENDING"] \in Job
        /\ [NoJob EXCEPT !.state = "PENDING"].state = "PENDING"
    BY NoJobType, JobStateTypes DEF Job
  <2>2. QED
    BY <2>1
<1>3. PICK read \in Job : read = retrying[r].read
  BY RestTypes DEF RetryRequest
<1>4. job[t] \in Job
  BY DEF ProvisionInv, ProvisionTypeOK
<1>5. PICK rec \in Job : /\ rec = JobWritten(job[t], read, new)
                         /\ rec.state \in {job[t].state, new.state}
                         /\ read.state = job[t].state => rec.state = new.state
  <2>1. /\ JobWritten(job[t], read, new) \in Job
        /\ JobWritten(job[t], read, new).state \in {job[t].state, new.state}
        /\ read.state = job[t].state
             => JobWritten(job[t], read, new).state = new.state
    <3>1. read \in Job /\ new \in Job
      OBVIOUS
    <3>2. QED
      BY ONLY <1>4, <3>1, JobWrittenType
  <2>2. QED
    BY <2>1
<1>6. Commit(t, rec, "PENDING", r \in current[t])
  BY <1>1, <1>2, <1>3, <1>5 DEF RetryWrites
<1>7. rec.state = "READY" => job[t].state = "READY"
  BY <1>2, <1>5
<1>8. r \in current[t] => rec.state = "PENDING"
  <2>1. SUFFICES ASSUME r \in current[t] PROVE rec.state = "PENDING"
    OBVIOUS
  <2>2. read.state = job[t].state
    BY <1>1, <1>3, <2>1 DEF ProvisionInv, RequestsKnow
  <2>3. QED
    BY <1>2, <1>5, <2>2
<1>9. /\ UNCHANGED <<server, provisioner, provisionRetries, provisionFaults>>
      /\ retrying' = [retrying EXCEPT ![r] = NoRetry]
  BY DEF RetryWrites
<1>10. dueJobs' \in SUBSET NewTenants
  BY <1>1, RestTypes DEF RetryWrites
<1>11. /\ retrying' \in [ProvisionRequests -> RetryRequest]
       /\ \A q \in ProvisionRequests : \/ retrying'[q] = retrying[q]
                                       \/ retrying'[q].tenant = NoTenant
  <2>1. NoRetry \in RetryRequest /\ NoRetry.tenant = NoTenant
    BY NoJobType DEF NoRetry, RetryRequest
  <2>2. QED
    BY <1>9, <2>1, RestTypes
<1>12. /\ job' \in [NewTenants -> Job] /\ mapping' \in [NewTenants -> Mapping]
       /\ current' \in [NewTenants -> SUBSET (Provisioners \union ProvisionRequests)]
       /\ overtaken' \in SUBSET NewTenants
       /\ ReadyMeansProvisioned'
       /\ \A u \in NewTenants :
            \/ current'[u] = {}
            \/ /\ current'[u] = current[u]
               /\ job'[u].state = job[u].state /\ mapping'[u].state = mapping[u].state
  <2>1. server' = server
    BY <1>9
  <2>2. CASE r \in current[t]
    <3>1. Commit(t, rec, "PENDING", TRUE) /\ rec.state = "PENDING"
      BY <1>6, <1>8, <2>2 DEF Commit
    <3>2. QED
      BY <1>7, <2>1, <3>1, JobStateTypes, CommitKeeps
  <2>3. CASE r \notin current[t]
    <3>1. Commit(t, rec, "PENDING", FALSE)
      BY <1>6, <2>3 DEF Commit
    <3>2. QED
      BY <1>7, <2>1, <3>1, JobStateTypes, CommitKeeps
  <2>4. QED
    BY <2>2, <2>3
<1>13. QED
  BY <1>9, <1>10, <1>11, <1>12, CallersStay, ReadersStay, InvariantOf, RestTypes

LEMMA TimeStep ==
  ASSUME ProvisionInv, NEW t \in NewTenants, JobBecomesDue(t) \/ JobExpires(t)
  PROVE  ProvisionInv'
<1>1. /\ UNCHANGED <<mapping, server, provisioner, retrying, current, overtaken>>
      /\ UNCHANGED <<provisionRetries, provisionFaults>>
  BY DEF JobBecomesDue, JobExpires
<1>2. job' \in [NewTenants -> Job] /\ \A u \in NewTenants : job'[u].state = job[u].state
  <2>1. CASE JobBecomesDue(t)
    BY <2>1 DEF JobBecomesDue, ProvisionInv, ProvisionTypeOK
  <2>2. CASE JobExpires(t)
    <3>1. /\ [job[t] EXCEPT !.lease = "expired"] \in Job
          /\ [job[t] EXCEPT !.lease = "expired"].state = job[t].state
      BY DEF ProvisionInv, ProvisionTypeOK, Job
    <3>2. job' = [job EXCEPT ![t] = [job[t] EXCEPT !.lease = "expired"]]
      BY <2>2 DEF JobExpires
    <3>3. QED
      BY <3>1, <3>2 DEF ProvisionInv, ProvisionTypeOK
  <2>3. QED
    BY <2>1, <2>2
<1>3. dueJobs' \in SUBSET NewTenants
  BY RestTypes DEF JobBecomesDue, JobExpires
<1>4. ReadyMeansProvisioned' /\ mapping' \in [NewTenants -> Mapping] /\ overtaken' \in SUBSET NewTenants
  BY <1>1, <1>2 DEF ReadyMeansProvisioned, ProvisionInv, ProvisionTypeOK
<1>5. WorkersKnow' /\ RequestsKnow'
  BY <1>1, <1>2, CallersStay, ReadersStay
<1>6. QED
  BY <1>1, <1>2, <1>3, <1>4, <1>5, CallersStay, RestTypes, InvariantOf

LEMMA SweepJobsStep ==
  ASSUME ProvisionInv, NEW w \in Provisioners, SweepJobs(w)
  PROVE  ProvisionInv'
<1> DEFINE swept == [t \in NewTenants |-> IF job[t].state = "RUNNING" /\ job[t].lease = "expired"
                                          THEN job[t].attempts ELSE -1]
<1>1. swept \in [NewTenants -> Nat \union {-1}]
  BY DEF ProvisionInv, ProvisionTypeOK, Job
<1>2. /\ provisioner' = [provisioner EXCEPT ![w] = [IdleProvisioner EXCEPT !.step = "recover", !.swept = swept]]
      /\ UNCHANGED <<job, dueJobs, mapping, server, retrying, current, overtaken>>
      /\ UNCHANGED <<provisionRetries, provisionFaults>>
  BY DEF SweepJobs
<1> HIDE DEF swept
<1>3. PICK rec \in Provisioner : rec.step = "recover" /\ provisioner' = [provisioner EXCEPT ![w] = rec]
  BY <1>1, <1>2, IdleProvisionerType
<1>4. /\ provisioner' \in [Provisioners -> Provisioner] /\ CallersAreRight'
      /\ \A v \in Provisioners : \/ provisioner'[v] = provisioner[v]
                                 \/ provisioner'[v].step \notin {"map", "write", "fail"}
  BY <1>2, <1>3, CallersLetGo, RestTypes
<1>5. WorkersKnow' /\ RequestsKnow'
  BY <1>2, <1>4, ReadersStay
<1>6. QED
  BY <1>2, <1>4, <1>5, TablesStay, RestTypes, InvariantOf

LEMMA RecoverStep ==
  ASSUME ProvisionInv, NEW w \in Provisioners, RecoverJobs(w)
  PROVE  ProvisionInv'
<1>1. ASSUME NEW rec \in Job, NEW n
      PROVE  JobRecovered(rec, n) \in Job /\ JobRecovered(rec, n).state # "READY"
  <2>1. PICK state \in {"BLOCKED", "RETRYABLE_FAILURE"} :
          state = IF n >= ProvisionMaxAttempts THEN "BLOCKED" ELSE "RETRYABLE_FAILURE"
    OBVIOUS
  <2>2. JobRecovered(rec, n) = [rec EXCEPT !.state = state, !.lease = "none"]
    BY <2>1 DEF JobRecovered
  <2>3. state \in JobStates /\ state # "READY"
    BY JobStateTypes
  <2>4. /\ [rec EXCEPT !.state = state, !.lease = "none"] \in Job
        /\ [rec EXCEPT !.state = state, !.lease = "none"].state = state
    BY <2>3, GivenUp
  <2>5. QED
    BY <2>2, <2>3, <2>4
<1> DEFINE swept == {t \in NewTenants : provisioner[w].swept[t] # -1}
           After(t) == IF t \in swept THEN JobRecovered(job[t], provisioner[w].swept[t]) ELSE job[t]
<1>2. /\ job' = [t \in NewTenants |-> After(t)]
      /\ mapping' = [t \in NewTenants |-> IF t \in swept
                                          THEN [mapping[t] EXCEPT !.state = After(t).state]
                                          ELSE mapping[t]]
      /\ current' = [t \in NewTenants |-> IF t \in swept THEN {} ELSE current[t]]
      /\ overtaken' = overtaken \ swept /\ dueJobs' = dueJobs \ swept
      /\ provisioner' = [provisioner EXCEPT ![w] = [provisioner[w] EXCEPT !.step = "claim"]]
      /\ UNCHANGED <<server, retrying, provisionRetries, provisionFaults>>
  BY DEF RecoverJobs
<1>3. swept \subseteq NewTenants
  OBVIOUS
<1>4. \A t \in swept : After(t) = JobRecovered(job[t], provisioner[w].swept[t])
  OBVIOUS
<1>5. \A t \in NewTenants : t \notin swept => After(t) = job[t]
  OBVIOUS
<1>6. ASSUME NEW t \in NewTenants
      PROVE  /\ job'[t] \in Job /\ mapping'[t] \in Mapping
             /\ mapping'[t].key = mapping[t].key
             /\ t \in swept => /\ job'[t].state # "READY" /\ current'[t] = {}
                               /\ mapping'[t].state = job'[t].state
             /\ t \notin swept => /\ job'[t] = job[t] /\ mapping'[t] = mapping[t]
                                  /\ current'[t] = current[t]
             /\ current'[t] \subseteq Provisioners \union ProvisionRequests
  <2>1. job[t] \in Job /\ mapping[t] \in Mapping
    BY DEF ProvisionInv, ProvisionTypeOK
  <2>2. current[t] \subseteq Provisioners \union ProvisionRequests
    BY RestTypes
  <2>3. CASE t \notin swept
    <3>1. job'[t] = job[t] /\ mapping'[t] = mapping[t] /\ current'[t] = current[t]
      BY <1>2, <1>5, <2>3
    <3>2. QED
      BY <2>1, <2>2, <2>3, <3>1
  <2>4. CASE t \in swept
    <3>1. PICK rec \in Job : rec = JobRecovered(job[t], provisioner[w].swept[t]) /\ rec.state # "READY"
      BY <1>1, <2>1
    <3>2. /\ job'[t] = rec /\ mapping'[t] = [mapping[t] EXCEPT !.state = rec.state]
          /\ current'[t] = {}
      BY <1>2, <1>4, <2>4, <3>1
    <3>3. /\ [mapping[t] EXCEPT !.state = rec.state] \in Mapping
          /\ [mapping[t] EXCEPT !.state = rec.state].state = rec.state
          /\ [mapping[t] EXCEPT !.state = rec.state].key = mapping[t].key
      BY <2>1 DEF Mapping, Job
    <3>4. QED
      BY <2>4, <3>1, <3>2, <3>3
  <2>5. QED
    BY <2>3, <2>4
<1>7. /\ DOMAIN job' = NewTenants /\ job' = [t \in NewTenants |-> job'[t]]
      /\ DOMAIN mapping' = NewTenants /\ mapping' = [t \in NewTenants |-> mapping'[t]]
      /\ DOMAIN current' = NewTenants /\ current' = [t \in NewTenants |-> current'[t]]
  BY <1>2
<1> HIDE DEF swept, After
<1>8. /\ job' \in [NewTenants -> Job] /\ mapping' \in [NewTenants -> Mapping]
      /\ current' \in [NewTenants -> SUBSET (Provisioners \union ProvisionRequests)]
  BY <1>6, <1>7
<1>9. overtaken' \in SUBSET NewTenants /\ dueJobs' \in SUBSET NewTenants
  BY <1>2 DEF ProvisionInv, ProvisionTypeOK
<1>10. PICK rec \in Provisioner : rec = [provisioner[w] EXCEPT !.step = "claim"] /\ rec.step = "claim"
  <2>1. provisioner[w] \in Provisioner
    BY DEF ProvisionInv, ProvisionTypeOK
  <2>2. /\ [provisioner[w] EXCEPT !.step = "claim"] \in Provisioner
        /\ [provisioner[w] EXCEPT !.step = "claim"].step = "claim"
    BY <2>1 DEF Provisioner
  <2>3. QED
    BY <2>2
<1>11. /\ provisioner' \in [Provisioners -> Provisioner] /\ CallersAreRight'
       /\ \A v \in Provisioners : \/ provisioner'[v] = provisioner[v]
                                  \/ provisioner'[v].step \notin {"map", "write", "fail"}
  BY <1>2, <1>10, CallersLetGo, RestTypes
<1>12. ReadyMeansProvisioned'
  BY <1>2, <1>6 DEF ProvisionInv, ReadyMeansProvisioned
<1>13. WorkersKnow' /\ RequestsKnow'
  BY <1>2, <1>6, <1>11, ReadersStay
<1>14. QED
  BY <1>2, <1>8, <1>9, <1>11, <1>12, <1>13, RestTypes, InvariantOf

LEMMA ClaimJobStep ==
  ASSUME ProvisionInv, NEW w \in Provisioners, ClaimJob(w)
  PROVE  ProvisionInv'
<1>1. UNCHANGED <<dueJobs, server, retrying, provisionRetries, provisionFaults>>
  BY DEF ClaimJob
<1>2. CASE /\ UNCHANGED <<job, mapping, current, overtaken>>
           /\ provisioner' = [provisioner EXCEPT ![w] = IdleProvisioner]
  <2>1. /\ provisioner' \in [Provisioners -> Provisioner] /\ CallersAreRight'
        /\ \A v \in Provisioners : \/ provisioner'[v] = provisioner[v]
                                   \/ provisioner'[v].step \notin {"map", "write", "fail"}
    BY <1>1, <1>2, IdleProvisionerType, CallersLetGo, RestTypes
  <2>2. WorkersKnow' /\ RequestsKnow'
    BY <1>1, <1>2, <2>1, ReadersStay
  <2>3. QED
    BY <1>1, <1>2, <2>1, <2>2, TablesStay, RestTypes, InvariantOf
<1>3. ASSUME NEW t \in Claimable,
             BothBecome(t, [state |-> "RUNNING",
                            attempts |-> 1 + IF provisioner[w].swept[t] = -1 THEN job[t].attempts
                                             ELSE provisioner[w].swept[t],
                            lease |-> "live"]),
             provisioner' = [provisioner EXCEPT ![w] = [IdleProvisioner EXCEPT !.step = "call", !.tenant = t]]
      PROVE  ProvisionInv'
  <2>1. t \in NewTenants
    BY RestTypes DEF Claimable
  <2>2. PICK n \in Nat : n = IF provisioner[w].swept[t] = -1 THEN job[t].attempts ELSE provisioner[w].swept[t]
    BY <2>1 DEF ProvisionInv, ProvisionTypeOK, Provisioner, Job
  <2>3. PICK rec \in Job : rec = [state |-> "RUNNING", attempts |-> 1 + n, lease |-> "live"]
    <3>1. [state |-> "RUNNING", attempts |-> 1 + n, lease |-> "live"] \in Job
      BY DEF Job, JobStates
    <3>2. QED
      BY <3>1
  <2>4. Commit(t, rec, "RUNNING", TRUE) /\ rec.state = "RUNNING"
    BY <1>3, <2>2, <2>3 DEF BothBecome
  <2>5. /\ job' \in [NewTenants -> Job] /\ mapping' \in [NewTenants -> Mapping]
        /\ current' \in [NewTenants -> SUBSET (Provisioners \union ProvisionRequests)]
        /\ overtaken' \in SUBSET NewTenants
        /\ ReadyMeansProvisioned'
        /\ \A u \in NewTenants :
             \/ current'[u] = {}
             \/ /\ current'[u] = current[u]
                /\ job'[u].state = job[u].state /\ mapping'[u].state = mapping[u].state
    BY <1>1, <2>1, <2>4, JobStateTypes, CommitKeeps
  <2>6. PICK me \in Provisioner : /\ provisioner' = [provisioner EXCEPT ![w] = me]
                                  /\ me.step = "call" /\ me.tenant = t
    BY <1>3, <2>1, IdleProvisionerType
  <2>7. /\ provisioner' \in [Provisioners -> Provisioner] /\ CallersAreRight'
        /\ \A v \in Provisioners : \/ provisioner'[v] = provisioner[v]
                                   \/ provisioner'[v].step \notin {"map", "write", "fail"}
    BY <1>1, <2>1, <2>6, CallersLetGo, RestTypes
  <2>8. WorkersKnow' /\ RequestsKnow'
    BY <1>1, <2>5, <2>7, ReadersStay
  <2>9. QED
    BY <1>1, <2>5, <2>7, <2>8, RestTypes, InvariantOf
<1>4. QED
  BY <1>2, <1>3 DEF ClaimJob

LEMMA CallStep ==
  ASSUME ProvisionInv, NEW w \in Provisioners, CallBridge(w) \/ CallFails(w)
  PROVE  ProvisionInv'
<1>1. provisioner[w] \in Provisioner /\ provisioner[w].tenant \in NewTenants
  BY DEF CallBridge, CallFails, ProvisionInv, ProvisionTypeOK, CallersAreRight
<1>2. /\ UNCHANGED <<job, dueJobs, mapping, retrying, current, overtaken, provisionRetries>>
      /\ provisionFaults' \in 0..ProvisionMaxFaults
      /\ server' \in {server, server \union {provisioner[w].tenant}}
  BY ProvisionAssumption, RestTypes DEF CallBridge, CallFails, ProvisionFault
<1>3. server \subseteq server' /\ server' \in SUBSET NewTenants
  BY <1>1, <1>2, RestTypes
<1>4. PICK rec \in Provisioner :
        /\ provisioner' = [provisioner EXCEPT ![w] = rec] /\ rec.tenant = provisioner[w].tenant
        /\ \/ rec.step = "read" /\ rec.tenant \in server'
           \/ rec.step = "failed"
  <2>1. /\ [provisioner[w] EXCEPT !.step = "read"] \in Provisioner
        /\ [provisioner[w] EXCEPT !.step = "read"].step = "read"
        /\ [provisioner[w] EXCEPT !.step = "read"].tenant = provisioner[w].tenant
    BY <1>1 DEF Provisioner
  <2>2. CASE CallBridge(w)
    <3>1. /\ provisioner' = [provisioner EXCEPT ![w] = [provisioner[w] EXCEPT !.step = "read"]]
          /\ provisioner[w].tenant \in server'
      BY <2>2 DEF CallBridge
    <3>2. QED
      BY <2>1, <3>1
  <2>3. CASE CallFails(w)
    <3>1. provisioner' = [provisioner EXCEPT ![w] = [IdleProvisioner EXCEPT !.step = "failed",
                                                       !.tenant = provisioner[w].tenant]]
      BY <2>3 DEF CallFails
    <3>2. PICK t \in NewTenants : t = provisioner[w].tenant
      BY <1>1
    <3>3. PICK failed \in Provisioner :
            /\ failed = [IdleProvisioner EXCEPT !.step = "failed", !.tenant = t]
            /\ failed.step = "failed" /\ failed.tenant = t
      BY IdleProvisionerType
    <3>4. QED
      BY <3>1, <3>2, <3>3
  <2>4. QED
    BY <2>2, <2>3
<1>5. /\ provisioner' \in [Provisioners -> Provisioner] /\ CallersAreRight'
      /\ \A v \in Provisioners : \/ provisioner'[v] = provisioner[v]
                                 \/ provisioner'[v].step \notin {"map", "write", "fail"}
  BY <1>1, <1>3, <1>4, CallersLetGo
<1>6. WorkersKnow' /\ RequestsKnow'
  BY <1>2, <1>5, ReadersStay
<1>7. QED
  BY <1>2, <1>3, <1>5, <1>6, TablesStay, RestTypes, InvariantOf

\* A worker has read the job of its tenant, and perhaps holds it now.
LEMMA ReadingKeeps ==
  ASSUME ProvisionInv, NEW w \in Provisioners, NEW t \in NewTenants, NEW rec \in Provisioner,
         ReadsJob(w, t), provisioner' = [provisioner EXCEPT ![w] = rec],
         UNCHANGED <<job, dueJobs, mapping, server, retrying, provisionRetries, provisionFaults>>,
         rec.step \in {"map", "fail"} => rec.tenant = t /\ rec.read = job[t],
         rec.step = "map" => t \in server /\ job[t].state = "RUNNING",
         rec.step \in {"sweep", "map", "fail"}
  PROVE  ProvisionInv'
<1>1. /\ provisioner' \in [Provisioners -> Provisioner] /\ CallersAreRight'
      /\ provisioner'[w] = rec /\ \A v \in Provisioners : v # w => provisioner'[v] = provisioner[v]
  BY CallersGoOn, RestTypes
<1>2. /\ current' = [current EXCEPT ![t] = current[t] \union {w}] /\ UNCHANGED overtaken
      /\ current' \in [NewTenants -> SUBSET (Provisioners \union ProvisionRequests)]
      /\ \A v : \A u \in NewTenants : v # w /\ v \in current'[u] => v \in current[u]
  BY RestTypes DEF ReadsJob
<1>3. WorkersKnow'
  BY <1>1, <1>2 DEF WorkersKnow, ProvisionInv
<1>4. RequestsKnow'
  BY <1>2, ProvisionAssumption DEF RequestsKnow, ProvisionInv
<1>5. QED
  BY <1>1, <1>2, <1>3, <1>4, TablesStay, RestTypes, InvariantOf

LEMMA ReadJobStep ==
  ASSUME ProvisionInv, NEW w \in Provisioners, ReadJob(w)
  PROVE  ProvisionInv'
<1>1. PICK t \in NewTenants : t = provisioner[w].tenant /\ t \in server
  BY DEF ReadJob, ProvisionInv, CallersAreRight
<1>2. /\ ReadsJob(w, t)
      /\ UNCHANGED <<job, dueJobs, mapping, server, retrying, provisionRetries, provisionFaults>>
  BY <1>1 DEF ReadJob
<1>3. CASE job[t].state = "RUNNING"
  <2>1. provisioner[w] \in Provisioner /\ job[t] \in Job
    BY DEF ProvisionInv, ProvisionTypeOK
  <2>2. PICK rec \in Provisioner : /\ rec = [provisioner[w] EXCEPT !.step = "map", !.read = job[t]]
                                   /\ rec.step = "map" /\ rec.read = job[t] /\ rec.tenant = t
    <3>1. /\ [provisioner[w] EXCEPT !.step = "map", !.read = job[t]] \in Provisioner
          /\ [provisioner[w] EXCEPT !.step = "map", !.read = job[t]].step = "map"
          /\ [provisioner[w] EXCEPT !.step = "map", !.read = job[t]].read = job[t]
          /\ [provisioner[w] EXCEPT !.step = "map", !.read = job[t]].tenant = t
      BY <1>1, <2>1 DEF Provisioner
    <3>2. QED
      BY <3>1
  <2>3. provisioner' = [provisioner EXCEPT ![w] = rec]
    <3>1. provisioner' = [provisioner EXCEPT ![w].step = "map", ![w].read = job[t]]
      BY <1>1, <1>3 DEF ReadJob
    <3>2. QED
      BY <2>2, <3>1 DEF ProvisionInv, ProvisionTypeOK
  <2>4. QED
    BY <1>1, <1>2, <1>3, <2>2, <2>3, ReadingKeeps
<1>4. CASE job[t].state # "RUNNING"
  <2>1. provisioner' = [provisioner EXCEPT ![w] = IdleProvisioner]
    BY <1>1, <1>4 DEF ReadJob
  <2>2. QED
    BY <1>2, <2>1, IdleProvisionerType, ReadingKeeps
<1>5. QED
  BY <1>3, <1>4

LEMMA ReadFailedStep ==
  ASSUME ProvisionInv, NEW w \in Provisioners, ReadFailed(w)
  PROVE  ProvisionInv'
<1>1. PICK t \in NewTenants : t = provisioner[w].tenant
  BY DEF ReadFailed, ProvisionInv, CallersAreRight
<1>2. /\ ReadsJob(w, t)
      /\ UNCHANGED <<job, dueJobs, mapping, server, retrying, provisionRetries, provisionFaults>>
      /\ provisioner' = [provisioner EXCEPT ![w].step = "fail", ![w].read = job[t]]
  BY <1>1 DEF ReadFailed
<1>3. provisioner[w] \in Provisioner /\ job[t] \in Job
  BY DEF ProvisionInv, ProvisionTypeOK
<1>4. PICK rec \in Provisioner : /\ rec = [provisioner[w] EXCEPT !.step = "fail", !.read = job[t]]
                                 /\ rec.step = "fail" /\ rec.read = job[t] /\ rec.tenant = t
  <2>1. /\ [provisioner[w] EXCEPT !.step = "fail", !.read = job[t]] \in Provisioner
        /\ [provisioner[w] EXCEPT !.step = "fail", !.read = job[t]].step = "fail"
        /\ [provisioner[w] EXCEPT !.step = "fail", !.read = job[t]].read = job[t]
        /\ [provisioner[w] EXCEPT !.step = "fail", !.read = job[t]].tenant = t
    BY <1>1, <1>3 DEF Provisioner
  <2>2. QED
    BY <2>1
<1>5. provisioner' = [provisioner EXCEPT ![w] = rec]
  BY <1>2, <1>4 DEF ProvisionInv, ProvisionTypeOK
<1>6. QED
  BY <1>2, <1>4, <1>5, ReadingKeeps

LEMMA ReadMappingStep ==
  ASSUME ProvisionInv, NEW w \in Provisioners, ReadMapping(w)
  PROVE  ProvisionInv'
<1>1. PICK t \in NewTenants : t = provisioner[w].tenant /\ t \in server
  BY DEF ReadMapping, ProvisionInv, CallersAreRight
<1>2. /\ provisioner[w] \in Provisioner /\ mapping[t].state \in JobStates
      /\ provisioner[w].step = "map" /\ provisioner[w].read.state = "RUNNING"
  BY DEF ReadMapping, ProvisionInv, ProvisionTypeOK, Mapping, CallersAreRight
<1>3. /\ provisioner' = [provisioner EXCEPT ![w].step = "write", ![w].shown = mapping[t].state]
      /\ UNCHANGED <<job, dueJobs, mapping, server, retrying, current, overtaken>>
      /\ UNCHANGED <<provisionRetries, provisionFaults>>
  BY <1>1 DEF ReadMapping
<1>4. PICK rec \in Provisioner :
        /\ rec = [provisioner[w] EXCEPT !.step = "write", !.shown = mapping[t].state]
        /\ rec.step = "write" /\ rec.shown = mapping[t].state /\ rec.tenant = t
        /\ rec.read = provisioner[w].read
  <2>1. /\ [provisioner[w] EXCEPT !.step = "write", !.shown = mapping[t].state] \in Provisioner
        /\ [provisioner[w] EXCEPT !.step = "write", !.shown = mapping[t].state].step = "write"
        /\ [provisioner[w] EXCEPT !.step = "write", !.shown = mapping[t].state].shown = mapping[t].state
        /\ [provisioner[w] EXCEPT !.step = "write", !.shown = mapping[t].state].tenant = t
        /\ [provisioner[w] EXCEPT !.step = "write", !.shown = mapping[t].state].read = provisioner[w].read
    BY <1>1, <1>2 DEF Provisioner
  <2>2. QED
    BY <2>1
<1>5. provisioner' = [provisioner EXCEPT ![w] = rec]
  BY <1>3, <1>4 DEF ProvisionInv, ProvisionTypeOK
<1>6. /\ provisioner' \in [Provisioners -> Provisioner] /\ CallersAreRight'
      /\ provisioner'[w] = rec /\ \A v \in Provisioners : v # w => provisioner'[v] = provisioner[v]
  <2>1. server \subseteq server' /\ server' \in SUBSET NewTenants /\ t \in server'
    BY <1>1, <1>3, RestTypes
  <2>2. rec.read.state = "RUNNING" /\ rec.tenant \in server' /\ rec.tenant \in NewTenants
    BY <1>1, <1>2, <1>4, <2>1
  <2>3. QED
    BY <1>5, <2>1, <2>2, CallersGoOn
<1>7. w \in current[t] => rec.read.state = job[t].state
  BY <1>1, <1>2, <1>4 DEF ProvisionInv, WorkersKnow
<1>8. WorkersKnow'
  BY <1>3, <1>4, <1>6, <1>7 DEF WorkersKnow, ProvisionInv
<1>9. RequestsKnow'
  BY <1>3 DEF RequestsKnow, ProvisionInv
<1>10. QED
  BY <1>3, <1>6, <1>8, <1>9, TablesStay, RestTypes, InvariantOf

LEMMA WriteReadyStep ==
  ASSUME ProvisionInv, NEW w \in Provisioners, WriteReady(w)
  PROVE  ProvisionInv'
<1>1. PICK t \in NewTenants : t = provisioner[w].tenant /\ t \in server
  BY DEF WriteReady, ProvisionInv, CallersAreRight
<1>2. PICK read \in Job : read = provisioner[w].read /\ read.state = "RUNNING"
  BY DEF WriteReady, ProvisionInv, ProvisionTypeOK, Provisioner, CallersAreRight
<1>3. PICK rec \in Job : rec = JobReady(job[t], read) /\ rec.state = "READY"
  <2>1. /\ [read EXCEPT !.state = "READY", !.lease = "none"] \in Job
        /\ [read EXCEPT !.state = "READY", !.lease = "none"].state = "READY"
    BY GivenUp, JobStateTypes
  <2>2. PICK new \in Job : new = [read EXCEPT !.state = "READY", !.lease = "none"] /\ new.state = "READY"
    BY <2>1
  <2>3. job[t] \in Job
    BY DEF ProvisionInv, ProvisionTypeOK
  <2>4. /\ JobWritten(job[t], read, new) \in Job
        /\ JobWritten(job[t], read, new).state = Column(job[t].state, read.state, new.state)
    <3>1. read \in Job /\ new \in Job
      OBVIOUS
    <3>2. QED
      BY ONLY <2>3, <3>1, JobWrittenType
  <2>. Column(job[t].state, read.state, new.state) = "READY"
    BY <1>2, <2>2 DEF Column
  <2>5. QED
    BY <2>2, <2>4 DEF JobReady
<1>4. PICK state \in JobStates : state = Column(mapping[t].state, provisioner[w].shown, "READY")
  BY JobStateTypes DEF Column, ProvisionInv, ProvisionTypeOK, Mapping
<1>5. w \in current[t] => state = "READY"
  BY <1>1, <1>4 DEF Column, WriteReady, ProvisionInv, WorkersKnow
<1>6. PICK map \in Mapping : map = [state |-> state, key |-> TRUE] /\ map.state = state /\ map.key = TRUE
  <2>1. [state |-> state, key |-> TRUE] \in Mapping
    BY DEF Mapping
  <2>2. QED
    BY <2>1
<1>7. /\ job' = [job EXCEPT ![t] = rec] /\ mapping' = [mapping EXCEPT ![t] = map]
      /\ current' = [current EXCEPT ![t] = {}]
      /\ provisioner' = [provisioner EXCEPT ![w] = IdleProvisioner]
      /\ UNCHANGED <<dueJobs, server, retrying, provisionRetries, provisionFaults>>
  BY <1>1, <1>2, <1>3, <1>4, <1>6 DEF WriteReady
<1>8. overtaken' = IF w \in current[t] THEN overtaken \ {t} ELSE overtaken \union {t}
  BY <1>1 DEF WriteReady
<1>9. /\ overtaken' \in SUBSET NewTenants
      /\ \A u \in NewTenants : u # t => (u \in overtaken' <=> u \in overtaken)
      /\ t \notin overtaken' => state = "READY"
  BY <1>5, <1>8 DEF ProvisionInv, ProvisionTypeOK
<1>10. job' \in [NewTenants -> Job] /\ mapping' \in [NewTenants -> Mapping]
  BY <1>7 DEF ProvisionInv, ProvisionTypeOK
<1>11. /\ current' \in [NewTenants -> SUBSET (Provisioners \union ProvisionRequests)]
       /\ current'[t] = {} /\ \A u \in NewTenants : u # t => current'[u] = current[u]
  BY <1>7, RestTypes
<1>12. /\ job'[t] = rec /\ mapping'[t] = map
       /\ \A u \in NewTenants : u # t => job'[u] = job[u] /\ mapping'[u] = mapping[u]
  BY <1>7 DEF ProvisionInv, ProvisionTypeOK
<1>13. ReadyMeansProvisioned'
  BY <1>1, <1>3, <1>6, <1>7, <1>9, <1>12 DEF ProvisionInv, ReadyMeansProvisioned
<1>14. /\ provisioner' \in [Provisioners -> Provisioner] /\ CallersAreRight'
       /\ \A v \in Provisioners : \/ provisioner'[v] = provisioner[v]
                                  \/ provisioner'[v].step \notin {"map", "write", "fail"}
  BY <1>7, IdleProvisionerType, CallersLetGo, RestTypes
<1>15. \A u \in NewTenants :
         \/ current'[u] = {}
         \/ /\ current'[u] = current[u]
            /\ job'[u].state = job[u].state /\ mapping'[u].state = mapping[u].state
  BY <1>11, <1>12
<1>16. WorkersKnow' /\ RequestsKnow'
  BY <1>7, <1>14, <1>15, ReadersStay
<1>17. QED
  BY <1>7, <1>9, <1>10, <1>11, <1>13, <1>14, <1>16, RestTypes, InvariantOf

LEMMA WriteFailureStep ==
  ASSUME ProvisionInv, NEW w \in Provisioners, WriteFailure(w)
  PROVE  ProvisionInv'
<1>1. PICK t \in NewTenants : t = provisioner[w].tenant
  BY DEF WriteFailure, ProvisionInv, CallersAreRight
<1>2. PICK read \in Job : read = provisioner[w].read
  BY DEF ProvisionInv, ProvisionTypeOK, Provisioner
<1>3. PICK state \in {"RETRYABLE_FAILURE", "BLOCKED"} :
        Commit(t, JobWritten(job[t], read, [read EXCEPT !.state = state, !.lease = "none"]),
               state, w \in current[t])
  BY <1>1, <1>2 DEF WriteFailure
<1>4. PICK inTime \in BOOLEAN :
        /\ Commit(t, JobWritten(job[t], read, [read EXCEPT !.state = state, !.lease = "none"]),
                  state, inTime)
        /\ inTime => w \in current[t]
  <2> DEFINE written == JobWritten(job[t], read, [read EXCEPT !.state = state, !.lease = "none"])
  <2> HIDE DEF written
  <2>1. w \in current[t] => Commit(t, written, state, TRUE)
    BY <1>3 DEF Commit, written
  <2>2. w \notin current[t] => Commit(t, written, state, FALSE)
    BY <1>3 DEF Commit, written
  <2>3. QED
    BY <2>1, <2>2 DEF written
<1>5. state \in JobStates /\ state # "READY"
  BY JobStateTypes
<1>6. PICK new \in Job : new = [read EXCEPT !.state = state, !.lease = "none"] /\ new.state = state
  BY <1>5, GivenUp
<1>7. job[t] \in Job
  BY DEF ProvisionInv, ProvisionTypeOK
<1>8. PICK rec \in Job : /\ rec = JobWritten(job[t], read, new)
                         /\ rec.state \in {job[t].state, new.state}
                         /\ read.state = job[t].state => rec.state = new.state
  <2>1. /\ JobWritten(job[t], read, new) \in Job
        /\ JobWritten(job[t], read, new).state \in {job[t].state, new.state}
        /\ read.state = job[t].state => JobWritten(job[t], read, new).state = new.state
    <3>1. read \in Job /\ new \in Job
      OBVIOUS
    <3>2. QED
      BY ONLY <1>7, <3>1, JobWrittenType
  <2>2. QED
    BY <2>1
<1>9. inTime => rec.state = state
  BY <1>1, <1>2, <1>4, <1>6, <1>8 DEF WriteFailure, ProvisionInv, WorkersKnow
<1>10. /\ provisioner' = [provisioner EXCEPT ![w] = IdleProvisioner]
       /\ UNCHANGED <<server, retrying, provisionRetries, provisionFaults>>
       /\ dueJobs' \in SUBSET NewTenants
  BY RestTypes DEF WriteFailure
<1>11. Commit(t, rec, state, inTime)
  BY <1>4, <1>6, <1>8
<1>12. /\ job' \in [NewTenants -> Job] /\ mapping' \in [NewTenants -> Mapping]
       /\ current' \in [NewTenants -> SUBSET (Provisioners \union ProvisionRequests)]
       /\ overtaken' \in SUBSET NewTenants
       /\ ReadyMeansProvisioned'
       /\ \A u \in NewTenants :
            \/ current'[u] = {}
            \/ /\ current'[u] = current[u]
               /\ job'[u].state = job[u].state /\ mapping'[u].state = mapping[u].state
  BY <1>5, <1>6, <1>8, <1>9, <1>10, <1>11, CommitKeeps
<1>13. /\ provisioner' \in [Provisioners -> Provisioner] /\ CallersAreRight'
       /\ \A v \in Provisioners : \/ provisioner'[v] = provisioner[v]
                                  \/ provisioner'[v].step \notin {"map", "write", "fail"}
  BY <1>10, IdleProvisionerType, CallersLetGo, RestTypes
<1>14. WorkersKnow' /\ RequestsKnow'
  BY <1>10, <1>12, <1>13, ReadersStay
<1>15. QED
  BY <1>10, <1>12, <1>13, <1>14, RestTypes, InvariantOf

LEMMA ProvisionerDiesStep ==
  ASSUME ProvisionInv, NEW w \in Provisioners, ProvisionerDies(w)
  PROVE  ProvisionInv'
<1>1. /\ provisioner' = [provisioner EXCEPT ![w] = IdleProvisioner]
      /\ UNCHANGED <<job, dueJobs, mapping, server, retrying, current, overtaken, provisionRetries>>
      /\ provisionFaults' \in 0..ProvisionMaxFaults
  BY ProvisionAssumption, RestTypes DEF ProvisionerDies, ProvisionFault
<1>2. /\ provisioner' \in [Provisioners -> Provisioner] /\ CallersAreRight'
      /\ \A v \in Provisioners : \/ provisioner'[v] = provisioner[v]
                                 \/ provisioner'[v].step \notin {"map", "write", "fail"}
  BY <1>1, IdleProvisionerType, CallersLetGo, RestTypes
<1>3. WorkersKnow' /\ RequestsKnow'
  BY <1>1, <1>2, ReadersStay
<1>4. QED
  BY <1>1, <1>2, <1>3, TablesStay, RestTypes, InvariantOf

LEMMA ProvisionStep ==
  ASSUME ProvisionInv, [ProvisionNext]_provisionVars
  PROVE  ProvisionInv'
<1>1. CASE UNCHANGED provisionVars
  BY <1>1 DEF provisionVars, ProvisionInv, ProvisionTypeOK, ReadyMeansProvisioned, CallersAreRight,
              WorkersKnow, RequestsKnow
<1>2. QED
  BY <1>1, EnqueueStep, RetryReadsStep, RetryWritesStep, TimeStep, SweepJobsStep, RecoverStep,
     ClaimJobStep, CallStep, ReadJobStep, ReadMappingStep, ReadFailedStep, WriteReadyStep,
     WriteFailureStep, ProvisionerDiesStep
  DEF ProvisionNext, ProvisionerStep

LEMMA ProvisionBegins == ProvisionInit => ProvisionInv
<1> SUFFICES ASSUME ProvisionInit PROVE ProvisionInv
  OBVIOUS
<1>1. [state |-> "none", key |-> FALSE] \in Mapping
  BY DEF Mapping, JobStates
<1>2. ProvisionTypeOK
  <2>1. PICK S \in SUBSET NewTenants : S = {}
    OBVIOUS
  <2>2. server = S /\ dueJobs = S /\ overtaken = S
    BY <2>1 DEF ProvisionInit
  <2>3. job \in [NewTenants -> Job]
    BY NoJobType DEF ProvisionInit
  <2>4. mapping \in [NewTenants -> Mapping]
    BY <1>1 DEF ProvisionInit
  <2>5. provisioner \in [Provisioners -> Provisioner]
    BY IdleProvisionerType DEF ProvisionInit
  <2>6. retrying \in [ProvisionRequests -> RetryRequest]
    <3>1. NoRetry \in RetryRequest
      BY NoJobType DEF NoRetry, RetryRequest
    <3>2. QED
      BY <3>1 DEF ProvisionInit
  <2>7. current \in [NewTenants -> SUBSET (Provisioners \union ProvisionRequests)]
    <3>1. PICK P \in SUBSET (Provisioners \union ProvisionRequests) : P = {}
      OBVIOUS
    <3>2. current = [t \in NewTenants |-> P]
      BY <3>1 DEF ProvisionInit
    <3>3. QED
      BY <3>2
  <2>8. provisionRetries \in 0..ProvisionMaxRetries /\ provisionFaults \in 0..ProvisionMaxFaults
    BY ProvisionAssumption DEF ProvisionInit
  <2>9. QED
    BY <2>2, <2>3, <2>4, <2>5, <2>6, <2>7, <2>8 DEF ProvisionTypeOK
<1>3. ReadyMeansProvisioned
  BY NoJobType DEF ProvisionInit, ReadyMeansProvisioned
<1>4. CallersAreRight
  BY IdleProvisionerType DEF ProvisionInit, CallersAreRight
<1>5. WorkersKnow /\ RequestsKnow
  BY DEF ProvisionInit, WorkersKnow, RequestsKnow
<1>6. QED
  BY <1>2, <1>3, <1>4, <1>5 DEF ProvisionInv

\* For any tenants, workers, retries and faults: a tenant whose job is READY has
\* a key, a key is of a server that was made, and the mapping, which is shown and
\* which sending asks, says what the job says, unless the job was written last
\* by a worker or a request that had read it before somebody else wrote it
\* (provisioning_tick, retry_provisioning). Whoever reads and writes in time
\* sets a mapping right that had come to disagree.
THEOREM ReadyMeansProvisionedAlways == ProvisionSpec => []ReadyMeansProvisioned
<1>1. ProvisionInv /\ [ProvisionNext]_provisionVars => ProvisionInv'
  BY ProvisionStep
<1>2. ProvisionInv => ReadyMeansProvisioned
  BY DEF ProvisionInv
<1>3. QED
  BY ProvisionBegins, <1>1, <1>2, PTL DEF ProvisionSpec

-------------------------------------------------------------------------------
(***************************************************************************)
(* The composition.                                                        *)
(***************************************************************************)

\* The names of the services, one of which moves.
Services ==
    {"events", "callbacks", "commands", "money", "usage", "mail", "keys", "results",
     "signIn", "team", "webmail", "work", "provisioning", "gates", "onboarding",
     "credentials"}

\* A step of the system is, for every service, a step of it or none.
LEMMA EachMovesOrRests ==
  ASSUME [ServicesNext]_servicesVars
  PROVE  /\ moving' = moving
         /\ [EventNext]_eventVars
         /\ [CallbackNext]_callbackVars
         /\ [CommandNext]_commandVars
         /\ [MoneyNext]_moneyVars
         /\ [UsageNext]_usageVars
         /\ [MailNext]_mailVars
         /\ [KeysNext]_keysVars
         /\ [ResultsNext]_resultsVars
         /\ [SignInNext]_signInVars
         /\ [TeamNext]_teamVars
         /\ [WebmailNext]_webmailVars
         /\ [WorkNext]_workVars
         /\ [ProvisionNext]_provisionVars
         /\ [GateNext]_gateVars
         /\ [OnboardingNext]_onboardingVars
         /\ [CredentialsNext]_credentialVars
<1>1. UNCHANGED moving
  BY DEF ServicesNext, servicesVars, OthersRest,
     EventsMove, CallbacksMove, CommandsMove, MoneyMoves, UsageMoves, MailMoves, KeysMove,
     ResultsMove, SignInMoves, TeamMoves, WebmailMoves, WorkMoves, ProvisioningMoves,
     GatesMove, OnboardingMoves, CredentialsMove
<1>2. [EventNext]_eventVars
  BY DEF ServicesNext, servicesVars, OthersRest,
     EventsMove, CallbacksMove, CommandsMove, MoneyMoves, UsageMoves, MailMoves, KeysMove,
     ResultsMove, SignInMoves, TeamMoves, WebmailMoves, WorkMoves, ProvisioningMoves,
     GatesMove, OnboardingMoves, CredentialsMove
<1>3. [CallbackNext]_callbackVars
  BY DEF ServicesNext, servicesVars, OthersRest,
     EventsMove, CallbacksMove, CommandsMove, MoneyMoves, UsageMoves, MailMoves, KeysMove,
     ResultsMove, SignInMoves, TeamMoves, WebmailMoves, WorkMoves, ProvisioningMoves,
     GatesMove, OnboardingMoves, CredentialsMove
<1>4. [CommandNext]_commandVars
  BY DEF ServicesNext, servicesVars, OthersRest,
     EventsMove, CallbacksMove, CommandsMove, MoneyMoves, UsageMoves, MailMoves, KeysMove,
     ResultsMove, SignInMoves, TeamMoves, WebmailMoves, WorkMoves, ProvisioningMoves,
     GatesMove, OnboardingMoves, CredentialsMove
<1>5. [MoneyNext]_moneyVars
  BY DEF ServicesNext, servicesVars, OthersRest,
     EventsMove, CallbacksMove, CommandsMove, MoneyMoves, UsageMoves, MailMoves, KeysMove,
     ResultsMove, SignInMoves, TeamMoves, WebmailMoves, WorkMoves, ProvisioningMoves,
     GatesMove, OnboardingMoves, CredentialsMove
<1>6. [UsageNext]_usageVars
  BY DEF ServicesNext, servicesVars, OthersRest,
     EventsMove, CallbacksMove, CommandsMove, MoneyMoves, UsageMoves, MailMoves, KeysMove,
     ResultsMove, SignInMoves, TeamMoves, WebmailMoves, WorkMoves, ProvisioningMoves,
     GatesMove, OnboardingMoves, CredentialsMove
<1>7. [MailNext]_mailVars
  BY DEF ServicesNext, servicesVars, OthersRest,
     EventsMove, CallbacksMove, CommandsMove, MoneyMoves, UsageMoves, MailMoves, KeysMove,
     ResultsMove, SignInMoves, TeamMoves, WebmailMoves, WorkMoves, ProvisioningMoves,
     GatesMove, OnboardingMoves, CredentialsMove
<1>8. [KeysNext]_keysVars
  BY DEF ServicesNext, servicesVars, OthersRest,
     EventsMove, CallbacksMove, CommandsMove, MoneyMoves, UsageMoves, MailMoves, KeysMove,
     ResultsMove, SignInMoves, TeamMoves, WebmailMoves, WorkMoves, ProvisioningMoves,
     GatesMove, OnboardingMoves, CredentialsMove
<1>9. [ResultsNext]_resultsVars
  BY DEF ServicesNext, servicesVars, OthersRest,
     EventsMove, CallbacksMove, CommandsMove, MoneyMoves, UsageMoves, MailMoves, KeysMove,
     ResultsMove, SignInMoves, TeamMoves, WebmailMoves, WorkMoves, ProvisioningMoves,
     GatesMove, OnboardingMoves, CredentialsMove
<1>10. [SignInNext]_signInVars
  BY DEF ServicesNext, servicesVars, OthersRest,
     EventsMove, CallbacksMove, CommandsMove, MoneyMoves, UsageMoves, MailMoves, KeysMove,
     ResultsMove, SignInMoves, TeamMoves, WebmailMoves, WorkMoves, ProvisioningMoves,
     GatesMove, OnboardingMoves, CredentialsMove
<1>11. [TeamNext]_teamVars
  BY DEF ServicesNext, servicesVars, OthersRest,
     EventsMove, CallbacksMove, CommandsMove, MoneyMoves, UsageMoves, MailMoves, KeysMove,
     ResultsMove, SignInMoves, TeamMoves, WebmailMoves, WorkMoves, ProvisioningMoves,
     GatesMove, OnboardingMoves, CredentialsMove
<1>12. [WebmailNext]_webmailVars
  BY DEF ServicesNext, servicesVars, OthersRest,
     EventsMove, CallbacksMove, CommandsMove, MoneyMoves, UsageMoves, MailMoves, KeysMove,
     ResultsMove, SignInMoves, TeamMoves, WebmailMoves, WorkMoves, ProvisioningMoves,
     GatesMove, OnboardingMoves, CredentialsMove
<1>13. [WorkNext]_workVars
  BY DEF ServicesNext, servicesVars, OthersRest,
     EventsMove, CallbacksMove, CommandsMove, MoneyMoves, UsageMoves, MailMoves, KeysMove,
     ResultsMove, SignInMoves, TeamMoves, WebmailMoves, WorkMoves, ProvisioningMoves,
     GatesMove, OnboardingMoves, CredentialsMove
<1>14. [ProvisionNext]_provisionVars
  BY DEF ServicesNext, servicesVars, OthersRest,
     EventsMove, CallbacksMove, CommandsMove, MoneyMoves, UsageMoves, MailMoves, KeysMove,
     ResultsMove, SignInMoves, TeamMoves, WebmailMoves, WorkMoves, ProvisioningMoves,
     GatesMove, OnboardingMoves, CredentialsMove
<1>15. [GateNext]_gateVars
  BY DEF ServicesNext, servicesVars, OthersRest,
     EventsMove, CallbacksMove, CommandsMove, MoneyMoves, UsageMoves, MailMoves, KeysMove,
     ResultsMove, SignInMoves, TeamMoves, WebmailMoves, WorkMoves, ProvisioningMoves,
     GatesMove, OnboardingMoves, CredentialsMove
<1>16. [OnboardingNext]_onboardingVars
  BY DEF ServicesNext, servicesVars, OthersRest,
     EventsMove, CallbacksMove, CommandsMove, MoneyMoves, UsageMoves, MailMoves, KeysMove,
     ResultsMove, SignInMoves, TeamMoves, WebmailMoves, WorkMoves, ProvisioningMoves,
     GatesMove, OnboardingMoves, CredentialsMove
<1>17. [CredentialsNext]_credentialVars
  BY DEF ServicesNext, servicesVars, OthersRest,
     EventsMove, CallbacksMove, CommandsMove, MoneyMoves, UsageMoves, MailMoves, KeysMove,
     ResultsMove, SignInMoves, TeamMoves, WebmailMoves, WorkMoves, ProvisioningMoves,
     GatesMove, OnboardingMoves, CredentialsMove
<1>18. QED
  BY <1>1, <1>2, <1>3, <1>4, <1>5, <1>6, <1>7, <1>8, <1>9, <1>10, <1>11, <1>12, <1>13,
     <1>14, <1>15, <1>16, <1>17
-------------------------------------------------------------------------------
(* The invariants of all services together, and what they promise.          *)

EventInv == EventTypeOK /\ ReportsAreTrue

ServicesInv ==
    /\ moving \in Services
    /\ EventInv /\ CallbackInv /\ CommandInv /\ MoneyInv /\ UsageInv /\ MailInv
    /\ KeysInv /\ ResultsInv /\ SignInInv /\ TeamInv /\ WebmailInv /\ WorkTypeOK
    /\ ProvisionInv /\ GateInv /\ OnboardingInv /\ CredentialsInv

LEMMA ServicesBegin == ServicesInit => ServicesInv
<1> SUFFICES ASSUME ServicesInit PROVE ServicesInv
  OBVIOUS
<1>1. moving \in Services
  BY DEF ServicesInit, Services
<1>2. EventInv /\ CallbackInv /\ CommandInv /\ UsageInv /\ MailInv /\ GateInv
  BY EventBegins, ReportsBegin, CallbackBegins, CommandBegins, UsageBegins, MailBegins,
     GateBegins DEF ServicesInit, EventInv
<1>3. MoneyInv /\ WebmailInv /\ KeysInv /\ ResultsInv
  BY MoneyBegins, WebmailBegins, KeysBegin, ResultsBegin DEF ServicesInit
<1>4. SignInInv /\ OnboardingInv /\ TeamInv /\ CredentialsInv
  BY SignInBegins, OnboardingBegins, TeamBegins, CredentialsBegin DEF ServicesInit
<1>5. WorkTypeOK /\ ProvisionInv
  BY WorkBegins, ProvisionBegins DEF ServicesInit
<1>6. QED
  BY <1>1, <1>2, <1>3, <1>4, <1>5 DEF ServicesInv

LEMMA ServicesStep ==
  ASSUME ServicesInv, [ServicesNext]_servicesVars
  PROVE  ServicesInv'
<1>1. moving' \in Services
  BY EachMovesOrRests DEF ServicesInv, Services
<1>2. EventInv'
  BY EachMovesOrRests, StepType, ReportsStep DEF ServicesInv, EventInv
<1>3. CallbackInv' /\ CommandInv'
  BY EachMovesOrRests, CallbackStep, CommandStep DEF ServicesInv
<1>4. UsageInv' /\ MailInv' /\ GateInv'
  BY EachMovesOrRests, UsageStep, MailStep, GateStep DEF ServicesInv
<1>5. MoneyInv' /\ WebmailInv' /\ KeysInv'
  BY EachMovesOrRests, MoneyStep, WebmailStep, KeysStep DEF ServicesInv
<1>6. ResultsInv'
  BY EachMovesOrRests, ResultsStep, ResultsStutter DEF ServicesInv
<1>7. SignInInv' /\ OnboardingInv'
  BY EachMovesOrRests, SignInStep, OnboardingStep DEF ServicesInv
<1>8. TeamInv' /\ CredentialsInv'
  BY EachMovesOrRests, TeamStep, CredentialsStep DEF ServicesInv
<1>9. WorkTypeOK' /\ ProvisionInv'
  BY EachMovesOrRests, WorkStep, ProvisionStep DEF ServicesInv
<1>10. QED
  BY <1>1, <1>2, <1>3, <1>4, <1>5, <1>6, <1>7, <1>8, <1>9 DEF ServicesInv

LEMMA ServicesInvariant == ServicesSpec => []ServicesInv
<1>1. ServicesInv /\ [ServicesNext]_servicesVars => ServicesInv'
  BY ServicesStep
<1>2. QED
  BY ServicesBegin, <1>1, PTL DEF ServicesSpec

\* Whichever service moves, its variables, and those of the services at rest,
\* keep their types: for any tenants, rows, requests, workers and bounds.
THEOREM ServicesTypeCorrect == ServicesSpec => []ServicesTypeOK
<1>1. ServicesInv => ServicesTypeOK
  <2> SUFFICES ASSUME ServicesInv PROVE ServicesTypeOK
    OBVIOUS
  <2>1. /\ EventTypeOK /\ CallbackTypeOK /\ CommandTypeOK /\ UsageTypeOK /\ MailTypeOK
        /\ GateTypeOK
    BY DEF ServicesInv, EventInv, CallbackInv, CommandInv, UsageInv, MailInv, GateInv
  <2>2. MoneyTypeOK /\ WebmailTypeOK /\ KeysTypeOK /\ ResultsTypeOK
    BY DEF ServicesInv, MoneyInv, WebmailInv, KeysInv, ResultsInv
  <2>3. SignInTypeOK /\ OnboardingTypeOK /\ TeamTypeOK /\ CredentialsTypeOK
    BY DEF ServicesInv, SignInInv, OnboardingInv, TeamInv, CredentialsInv
  <2>4. WorkTypeOK /\ ProvisionTypeOK
    BY DEF ServicesInv, ProvisionInv
  <2>5. QED
    BY <2>1, <2>2, <2>3, <2>4 DEF ServicesTypeOK, ServicesInv, Services
<1>2. QED
  BY ServicesInvariant, <1>1, PTL

\* What each service promises alone it keeps in their composition: every
\* safety invariant that the run of the services checks, and that a tenant shown
\* as READY has a key of a server there is.
THEOREM ServicesAreSafe ==
  ServicesSpec => [](/\ CommandSendsOnce /\ NoCallbackIsLost /\ SnapshotsAreCurrent
                     /\ SecurityMailOnce /\ ClosedGatesBind /\ MoneyAddsUp
                     /\ QuotaCountsTheMail /\ DkimKeysAreTheirOwn /\ SignInsAreOnce
                     /\ AuthorityIsCurrent /\ ReadyMeansProvisioned)
<1>1. ServicesInv => CommandSendsOnce /\ NoCallbackIsLost /\ ReadyMeansProvisioned
  BY DEF ServicesInv, CommandInv, CallbackInv, ProvisionInv
<1>2. ServicesInv => SnapshotsAreCurrent /\ SecurityMailOnce /\ ClosedGatesBind
  BY UsageIsSafe, MailIsSafe DEF ServicesInv, GateInv, SendersAreBound, ClosedGatesBind
<1>3. ServicesInv => MoneyAddsUp /\ QuotaCountsTheMail
  BY CountIsTheQuotas DEF ServicesInv, MoneyInv, WebmailInv
<1>4. ServicesInv => DkimKeysAreTheirOwn
  BY DEF ServicesInv, KeysInv, KeyRowsAreRight, RowIsRight, SelectorWasFound,
     DkimKeysAreTheirOwn
<1>5. ServicesInv => SignInsAreOnce /\ AuthorityIsCurrent
  BY SignInIsSafe, TeamIsSafe, CredentialsAreSafe
  DEF ServicesInv, OnboardingInv, SignInsAreOnce, AuthorityIsCurrent
<1>6. QED
  BY ServicesInvariant, <1>1, <1>2, <1>3, <1>4, <1>5, PTL

\* So it is for what they promise of their steps: the outbox of business events
\* implements the at-least-once outbox, and results stand, whatever else goes on.
THEOREM ServicesKeepTheirWord == ServicesSpec => EventKeepsPromise /\ ResultsStand
<1>1. ServicesInit => EventPromise!Init
  BY PromiseBegins DEF ServicesInit
<1>2. ServicesInv /\ [ServicesNext]_servicesVars
        => [EventPromise!Next]_EventPromise!abstractVars
  BY EachMovesOrRests, PromiseStep DEF ServicesInv, EventInv
<1>3. ServicesInv /\ [ServicesNext]_servicesVars => [AnswersStand]_resultsVars
  BY EachMovesOrRests, ResultsStep DEF ServicesInv
<1>4. QED
  BY ServicesInvariant, <1>1, <1>2, <1>3, PTL
  DEF ServicesSpec, EventKeepsPromise, EventPromise!Spec, ResultsStand
===============================================================================
