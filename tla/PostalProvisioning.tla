-------------------------- MODULE PostalProvisioning --------------------------
(***************************************************************************)
(* Every tenant gets a mail server of its own in Postal and the key to it  *)
(* (postal_provisioning): onboarding enqueues a job, workers claim it and  *)
(* call the bridge inside Postal (apps/postal-provisioner), and the        *)
(* tenant's mapping keeps the state that is shown and the encrypted key;   *)
(* mail is sent with the key of a mapping that is READY.                   *)
(*                                                                         *)
(* Only the claim locks the job. Success, failure and an operator's retry  *)
(* read it without a lock and write, at their commit, the columns they     *)
(* changed from what they had read and no others. Retry, failure and sweep *)
(* write the job before they ask for the mapping (the session flushes      *)
(* before it queries), and from there to the commit they hold its row,     *)
(* which every other transaction that writes the mapping writes too: that  *)
(* part is one step. Success reads job and mapping before it writes either.*)
(***************************************************************************)
EXTENDS Integers, FiniteSets

CONSTANTS
    NewTenants,         \* tenants, numbered in the order of their jobs
    Provisioners,       \* processes with the role "provisioning"
    ProvisionRequests,  \* operators' requests for a retry that overlap
    NoTenant,           \* no tenant
    ProvisionMaxAttempts,   \* attempts before a job is blocked: 8 in the code
    ProvisionMaxRetries,    \* bound: operators' retries
    ProvisionMaxFaults      \* bound: calls that fail, crashes

ASSUME ProvisionAssumption ==
    /\ NewTenants \subseteq Nat /\ NoTenant \notin NewTenants
    /\ Provisioners \intersect ProvisionRequests = {}
    /\ ProvisionMaxAttempts \in Nat \ {0}
    /\ ProvisionMaxRetries \in Nat /\ ProvisionMaxFaults \in Nat

VARIABLES
    job,            \* the table postal_provisioning_outbox, by tenant
    dueJobs,        \* the tenants whose job's available_at has come
    mapping,        \* the table postal_tenant_mappings
    server,         \* the tenants that have a server in Postal
    provisioner,    \* what each worker is doing
    retrying,       \* the job each request for a retry has read
    \* Ghosts: who has read a job since it was last written, and the tenants
    \* whose job was written last by one who had not.
    current, overtaken,
    provisionRetries, provisionFaults   \* retries and faults so far

provisionVars == <<job, dueJobs, mapping, server, provisioner, retrying, current, overtaken,
                   provisionRetries, provisionFaults>>

Settled == {"READY", "BLOCKED"}
JobStates == {"none", "PENDING", "RUNNING", "RETRYABLE_FAILURE"} \union Settled
Job == [state : JobStates, attempts : Nat, lease : {"none", "live", "expired"}]
NoJob == [state |-> "none", attempts |-> 0, lease |-> "none"]

\* key: the mapping holds the key of the tenant's server.
Mapping == [state : JobStates, key : BOOLEAN]

\* swept: the attempts of the expired jobs a worker has read, -1 for the others.
\* tenant: whose job it has claimed; read: the job as it has read it since.
\* shown: the mapping's state as it has read it.
Provisioner == [step : {"sweep", "recover", "claim", "call", "read", "map", "write",
                        "failed", "fail"},
                swept : [NewTenants -> Nat \union {-1}], tenant : NewTenants \union {NoTenant},
                read : Job, shown : JobStates]
NoneSwept == [t \in NewTenants |-> -1]
IdleProvisioner == [step |-> "sweep", swept |-> NoneSwept, tenant |-> NoTenant,
                    read |-> NoJob, shown |-> "none"]

RetryRequest == [tenant : NewTenants \union {NoTenant}, read : Job]
NoRetry == [tenant |-> NoTenant, read |-> NoJob]

ProvisionInit ==
    /\ job = [t \in NewTenants |-> NoJob] /\ dueJobs = {}
    /\ mapping = [t \in NewTenants |-> [state |-> "none", key |-> FALSE]]
    /\ server = {}
    /\ provisioner = [w \in Provisioners |-> IdleProvisioner]
    /\ retrying = [r \in ProvisionRequests |-> NoRetry]
    /\ current = [t \in NewTenants |-> {}] /\ overtaken = {}
    /\ provisionRetries = 0 /\ provisionFaults = 0

ProvisionFault == provisionFaults < ProvisionMaxFaults /\ provisionFaults' = provisionFaults + 1

\* A column is written when its new value is not the one that was read.
Column(old, read, new) == IF new = read THEN old ELSE new

JobWritten(old, read, new) ==
    [state |-> Column(old.state, read.state, new.state),
     attempts |-> Column(old.attempts, read.attempts, new.attempts),
     lease |-> Column(old.lease, read.lease, new.lease)]

\* Job and mapping are written in one commit. inTime: nobody has written the job
\* since it was read.
Commit(t, rec, state, inTime) ==
    /\ job' = [job EXCEPT ![t] = rec]
    /\ mapping' = [mapping EXCEPT ![t].state = state]
    /\ current' = [current EXCEPT ![t] = {}]
    /\ overtaken' = IF inTime THEN overtaken \ {t} ELSE overtaken \union {t}

BothBecome(t, rec) == Commit(t, rec, rec.state, TRUE)

ReadsJob(p, t) == current' = [current EXCEPT ![t] = @ \union {p}] /\ UNCHANGED overtaken

-------------------------------------------------------------------------------
\* A sign-in of the tenant, or a request; keys and mappings are unique.
Enqueue(t) ==
    /\ job[t].state = "none"
    /\ BothBecome(t, [NoJob EXCEPT !.state = "PENDING"])
    /\ dueJobs' = dueJobs \union {t}
    /\ UNCHANGED <<server, provisioner, retrying, provisionRetries, provisionFaults>>

\* An owner, an administrator or a platform administrator asks for a retry,
\* whatever the job's state: the job is read ...
RetryReads(r, t) ==
    /\ retrying[r].tenant = NoTenant /\ job[t].state # "none"
    /\ provisionRetries < ProvisionMaxRetries /\ provisionRetries' = provisionRetries + 1
    /\ retrying' = [retrying EXCEPT ![r] = [tenant |-> t, read |-> job[t]]]
    /\ ReadsJob(r, t)
    /\ UNCHANGED <<job, dueJobs, mapping, server, provisioner, provisionFaults>>

\* ... and written, with the mapping as it then is.
RetryWrites(r) ==
    LET t == retrying[r].tenant
    IN /\ t # NoTenant
       /\ Commit(t, JobWritten(job[t], retrying[r].read, [NoJob EXCEPT !.state = "PENDING"]),
                 "PENDING", r \in current[t])
       /\ dueJobs' = dueJobs \union {t}
       /\ retrying' = [retrying EXCEPT ![r] = NoRetry]
       /\ UNCHANGED <<server, provisioner, provisionRetries, provisionFaults>>

\* available_at passes; lease_expires_at passes.
JobBecomesDue(t) ==
    /\ t \notin dueJobs
    /\ dueJobs' = dueJobs \union {t}
    /\ UNCHANGED <<job, mapping, server, provisioner, retrying, current, overtaken,
                   provisionRetries, provisionFaults>>

JobExpires(t) ==
    /\ job[t].lease = "live"
    /\ job' = [job EXCEPT ![t].lease = "expired"]
    /\ UNCHANGED <<dueJobs, mapping, server, provisioner, retrying, current, overtaken,
                   provisionRetries, provisionFaults>>

-------------------------------------------------------------------------------
SweepJobs(w) ==
    /\ provisioner[w].step = "sweep"
    /\ provisioner' = [provisioner EXCEPT ![w] = [IdleProvisioner EXCEPT !.step = "recover",
          !.swept = [t \in NewTenants |-> IF job[t].state = "RUNNING" /\ job[t].lease = "expired"
                                          THEN job[t].attempts ELSE -1]]]
    /\ UNCHANGED <<job, dueJobs, mapping, server, retrying, current, overtaken,
                   provisionRetries, provisionFaults>>

\* A faulty variant: an expired job is left to the worker that is gone.
RecoveredNot(rec, attempts) == rec

JobRecovered(rec, attempts) ==
    [rec EXCEPT !.state = IF attempts >= ProvisionMaxAttempts THEN "BLOCKED"
                          ELSE "RETRYABLE_FAILURE",
                !.lease = "none"]

\* What was expired is written, whatever has become of it.
RecoverJobs(w) ==
    LET swept == {t \in NewTenants : provisioner[w].swept[t] # -1}
        After(t) == IF t \in swept THEN JobRecovered(job[t], provisioner[w].swept[t]) ELSE job[t]
    IN /\ provisioner[w].step = "recover"
       /\ job' = [t \in NewTenants |-> After(t)]
       /\ dueJobs' = dueJobs \ swept
       /\ mapping' = [t \in NewTenants |-> IF t \in swept
                                           THEN [mapping[t] EXCEPT !.state = After(t).state]
                                           ELSE mapping[t]]
       /\ current' = [t \in NewTenants |-> IF t \in swept THEN {} ELSE current[t]]
       /\ overtaken' = overtaken \ swept
       /\ provisioner' = [provisioner EXCEPT ![w].step = "claim"]
       /\ UNCHANGED <<server, retrying, provisionRetries, provisionFaults>>

Claimable == {t \in dueJobs : job[t].state \in {"PENDING", "RETRYABLE_FAILURE"}}

\* The oldest claimable job is claimed under its lock. Of a job that this tick
\* has returned, the session still has the attempts it read then.
ClaimJob(w) ==
    /\ provisioner[w].step = "claim"
    /\ \/ /\ Claimable = {}
          /\ provisioner' = [provisioner EXCEPT ![w] = IdleProvisioner]
          /\ UNCHANGED <<job, mapping, current, overtaken>>
       \/ \E t \in Claimable :
             /\ \A u \in Claimable : t <= u
             /\ BothBecome(t, [state |-> "RUNNING",
                               attempts |-> 1 + IF provisioner[w].swept[t] = -1 THEN job[t].attempts
                                                ELSE provisioner[w].swept[t],
                               lease |-> "live"])
             /\ provisioner' = [provisioner EXCEPT ![w] = [IdleProvisioner EXCEPT !.step = "call",
                                                                                  !.tenant = t]]
    /\ UNCHANGED <<dueJobs, server, retrying, provisionRetries, provisionFaults>>

\* The bridge finds or creates the tenant's organisation, server and key, one
\* request at a time.
CallBridge(w) ==
    /\ provisioner[w].step = "call"
    /\ server' = server \union {provisioner[w].tenant}
    /\ provisioner' = [provisioner EXCEPT ![w].step = "read"]
    /\ UNCHANGED <<job, dueJobs, mapping, retrying, current, overtaken, provisionRetries,
                   provisionFaults>>

\* The tenant is disabled, the call is refused or times out, or its answer is
\* incomplete, with the server made or not; or what follows it fails.
CallFails(w) ==
    /\ provisioner[w].step \in {"call", "read", "map", "write"}
    /\ ProvisionFault
    /\ server' \in {server, server \union {provisioner[w].tenant}}
    /\ provisioner' = [provisioner EXCEPT ![w] = [IdleProvisioner EXCEPT !.step = "failed",
                                                     !.tenant = provisioner[w].tenant]]
    /\ UNCHANGED <<job, dueJobs, mapping, retrying, current, overtaken, provisionRetries>>

\* Success is for a job that is read as RUNNING, by whichever worker, ...
ReadJob(w) ==
    LET t == provisioner[w].tenant
    IN /\ provisioner[w].step = "read"
       /\ provisioner' = IF job[t].state = "RUNNING"
                         THEN [provisioner EXCEPT ![w].step = "map", ![w].read = job[t]]
                         ELSE [provisioner EXCEPT ![w] = IdleProvisioner]
       /\ ReadsJob(w, t)
       /\ UNCHANGED <<job, dueJobs, mapping, server, retrying, provisionRetries, provisionFaults>>

\* ... the mapping is read next ...
ReadMapping(w) ==
    /\ provisioner[w].step = "map"
    /\ provisioner' = [provisioner EXCEPT ![w].step = "write",
                                          ![w].shown = mapping[provisioner[w].tenant].state]
    /\ UNCHANGED <<job, dueJobs, mapping, server, retrying, current, overtaken, provisionRetries,
                   provisionFaults>>

JobReady(rec, read) == JobWritten(rec, read, [read EXCEPT !.state = "READY", !.lease = "none"])

\* ... and both are written, with the key, whose ciphertext is always new.
WriteReady(w) ==
    LET t == provisioner[w].tenant
    IN /\ provisioner[w].step = "write"
       /\ job' = [job EXCEPT ![t] = JobReady(job[t], provisioner[w].read)]
       /\ mapping' = [mapping EXCEPT ![t] =
                        [state |-> Column(@.state, provisioner[w].shown, "READY"), key |-> TRUE]]
       /\ current' = [current EXCEPT ![t] = {}]
       /\ overtaken' = IF w \in current[t] THEN overtaken \ {t} ELSE overtaken \union {t}
       /\ provisioner' = [provisioner EXCEPT ![w] = IdleProvisioner]
       /\ UNCHANGED <<dueJobs, server, retrying, provisionRetries, provisionFaults>>

\* Failure reads the job, in any state, ...
ReadFailed(w) ==
    LET t == provisioner[w].tenant
    IN /\ provisioner[w].step = "failed"
       /\ provisioner' = [provisioner EXCEPT ![w].step = "fail", ![w].read = job[t]]
       /\ ReadsJob(w, t)
       /\ UNCHANGED <<job, dueJobs, mapping, server, retrying, provisionRetries, provisionFaults>>

\* ... and is written over what has become of it. A refusal by status blocks.
WriteFailure(w) ==
    LET t == provisioner[w].tenant
        read == provisioner[w].read
    IN /\ provisioner[w].step = "fail"
       /\ \E state \in {"RETRYABLE_FAILURE", "BLOCKED"} :
             /\ read.attempts >= ProvisionMaxAttempts => state = "BLOCKED"
             /\ Commit(t, JobWritten(job[t], read, [read EXCEPT !.state = state, !.lease = "none"]),
                       state, w \in current[t])
       /\ dueJobs' = dueJobs \ {t}
       /\ provisioner' = [provisioner EXCEPT ![w] = IdleProvisioner]
       /\ UNCHANGED <<server, retrying, provisionRetries, provisionFaults>>

ProvisionerDies(w) ==
    /\ provisioner[w].step # "sweep"
    /\ provisioner' = [provisioner EXCEPT ![w] = IdleProvisioner]
    /\ ProvisionFault
    /\ UNCHANGED <<job, dueJobs, mapping, server, retrying, current, overtaken, provisionRetries>>

ProvisionerStep(w) ==
    \/ SweepJobs(w) \/ RecoverJobs(w) \/ ClaimJob(w) \/ CallBridge(w)
    \/ ReadJob(w) \/ ReadMapping(w) \/ WriteReady(w) \/ ReadFailed(w) \/ WriteFailure(w)

ProvisionNext ==
    \/ \E t \in NewTenants : Enqueue(t) \/ JobBecomesDue(t) \/ JobExpires(t)
    \/ \E r \in ProvisionRequests : RetryWrites(r) \/ \E t \in NewTenants : RetryReads(r, t)
    \/ \E w \in Provisioners : ProvisionerStep(w) \/ CallFails(w) \/ ProvisionerDies(w)

\* The worker host calls provisioning_tick for ever, and time passes.
ProvisionFairness ==
    /\ \A t \in NewTenants : WF_provisionVars(JobBecomesDue(t)) /\ WF_provisionVars(JobExpires(t))
    /\ \A w \in Provisioners : WF_provisionVars(ProvisionerStep(w))

ProvisionSpec == ProvisionInit /\ [][ProvisionNext]_provisionVars /\ ProvisionFairness

-------------------------------------------------------------------------------
ProvisionTypeOK ==
    /\ job \in [NewTenants -> Job] /\ dueJobs \in SUBSET NewTenants
    /\ mapping \in [NewTenants -> Mapping]
    /\ server \in SUBSET NewTenants
    /\ provisioner \in [Provisioners -> Provisioner]
    /\ retrying \in [ProvisionRequests -> RetryRequest]
    /\ current \in [NewTenants -> SUBSET (Provisioners \union ProvisionRequests)]
    /\ overtaken \in SUBSET NewTenants
    /\ provisionRetries \in 0..ProvisionMaxRetries /\ provisionFaults \in 0..ProvisionMaxFaults

\* What tenant_postal_api_key asks for, and the server the key is for.
CanSend(t) == mapping[t].state = "READY" /\ mapping[t].key /\ t \in server

\* A job once enqueued ends: it is blocked for an operator to see, or READY and
\* the tenant can send. Leases expire under slow workers, late failures
\* overwrite READY, operators retry and workers die (provisioning_tick,
\* _recover_expired_leases, retry_provisioning). Only a job written last by one
\* who had read it before another's write may end otherwise: READY beside a
\* mapping that is not, or RUNNING without a lease, which nothing sets right but
\* another retry.
EveryTenantIsProvisioned ==
    \A t \in NewTenants :
        job[t].state # "none"
          ~> \/ job[t].state = "BLOCKED"
             \/ job[t].state = "READY" /\ CanSend(t)
             \/ t \in overtaken
===============================================================================
