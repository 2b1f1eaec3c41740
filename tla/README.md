# Klyrow: specifications of the mail platform

Klyrow is a multi-tenant mail service: a FastAPI gateway (`src/apps/gateway`)
with a PostgreSQL database, background workers that share that database, and
systems outside it: Postal (the mail server), the middleware (events, commands,
billing), Mautic and an identity provider. The gateway accepts work over HTTP,
writes it to tables, and workers carry it out. Nothing but the database
coordinates the processes, so what can go wrong lies between transactions: leases
that expire under a live worker, crashes between a side effect and its record,
answers that are lost, unlocked reads that are acted upon later.

These modules specify the gateway's protocols in TLA+. TLC checks them on small
instances, TLAPS proves the safety properties of the components for every instance.

## 1. Inventory

Paths are below `src/apps/gateway/app/` unless they say otherwise.

| Component | State | Operations | What is hard | What makes it correct |
|---|---|---|---|---|
| Provider event and usage outbox (`provider_outbox_delivery.py`, `provider_reconciliation_fixes.py`, `provider.py`) | `provider_events`, `provider_usage_events` | dispatch: recover, claim, POST, acknowledge; retry of one row; reconciliation of dead letters | expired leases of live workers, crashes, unlocked retry, shared page budget | exclusive claims, delivered means accepted, settled stays settled, full and fair pages, every row settles |
| Campaign dispatcher (`campaign_dispatcher.py`, `production_api.py`) | campaign, run, frozen items | schedule, pause, resume, cancel; tick: claim, lease items, send, record, finish | two fenced leases, unlocked sweeps over items, crash after admission | one message per recipient, one active dispatcher, an end is final, campaigns end |
| Transactional email outbox (`tenant_postal_delivery.py`, `main.py`, `runtime_authority_fixes.py`) | `email_outbox`, `messages`, `production_canary_gate` | send, cancel, delivery pass, callbacks | uncertain outcomes, abandoned submissions, two counters of the gate, aborted claims | no blind resend, canary bound, settled stays settled, no message is stuck |
| Postal callbacks (`main.py`, `postal_callback_attribution.py`) | `postal_events`, message status, suppressions | receive, attribute, record, forward; retry loop | repeated, concurrent and reordered callbacks, a loop beside the request, no locks | nothing is forwarded before its effect is committed, no callback is lost, nothing is given up untried |
| Middleware commands (`main.py`) | `middleware_command_operations` | accept, execute, recover after five minutes, project the outcome | an execution that is only slow beside its recovery | a command sends once, its result names what was made, every command ends |
| Integration outbox, Mautic adapter (`mautic_adapter.py`, `operations.py`, `production_api.py`) | `integration_outbox`, circuit state | enqueue, claim, call, record, cancel, fail, recover, reconcile | uncertain outcomes, late successes, a circuit written without a lock | no effect twice, no effect hidden, every operation settles |
| Durable results, keys, retention, secret responses (`operations.py`, `durable_*.py`, `secret_responses.py`) | `integration_results`, holds, keyring, `secret_responses` | callback, hold, release, purge in two passes, rewrap; record, fetch, redact a secret | whatever happens between an approved plan and its application | a result stands, only what was approved and is not held is purged |
| Business events (`business_events.py`, `business_event_worker.py`, `business_usage.py`) | `business_event_outbox`, usage revisions | enqueue, claim, deliver, complete, replay; daily snapshot page by page | fence of owner, attempt and expiry; overlapping and repeated snapshot runs | at-least-once promise, current snapshots |
| Billing (`billing.py`, `service_worker.py`) | wallet, invoices, payments, refunds, credit notes, `billing_work_items` | wallet transactions, pay, confirm, refund, credit; worker tick | read-modify-write without locks, a wallet row that does not exist yet, unfenced completion after a lease | the balance is the sum of its transactions, a settled invoice is covered, every event is worked off |
| Postal provisioning (`postal_provisioning.py`, `src/apps/postal-provisioner`) | jobs, tenant mappings | enqueue, claim, call, record, sweep, retry | partial failure against an outside system, late failures | a job ends blocked or with a usable key |
| Domains, DKIM keys (`provider.py`) | domain, key rows, key files | register, verify, DNS check, suspend; rotate, verify a key | files and rows written without a lock, the same selector computed twice | a selector's file is its key's, the signing key was found in DNS |
| Sandbox messages, security mail, SMTP relay (`provider.py`, `security_smtp_worker.py`, `smtp_relay.py`, `security_payload.py`) | provider messages, SMTP credentials | submit over SMTP, admit under gates, claim, hand over, record, purge, recover | unknown outcomes, callbacks of earlier attempts, credentials revoked under a session | handed over once, withdrawn credentials stay withdrawn |
| Sign-in, browser sessions, step-up (`auth_bff.py`, `browser_*.py`) | login flows, browser sessions | begin, callback, step-up, refresh, switch, logout, revoke | requests that wait for the identity provider hold nothing they read | one session per flow, deadlines are inherited |
| Onboarding, tenancy, invitations, platform owner (`tenancy*.py`, `invitation_flow.py`, `platform_owner.py`) | users, identities, memberships, invitations | first login, later login, accept, invite, change role, remove | first logins at once, an invitation read without a lock, demotion under a request | one user and one home, an invitation is taken once, requests act with their role |
| Webmail and inbound mail (`webmail.py`, `provider.py`) | mailbox, messages, stored bytes | capture, file a copy, move, delete | unlocked read-modify-write of the count | the count is the mail kept, under the quota |
| Guards, consent, delivery controls (`guards.py`, `preferences.py`, `delivery_controls.py`, `saas.py`) | suppressions, consents, suspensions, quota | check a send; suppress, unsubscribe, revoke, suspend, release | several gates read one after the other while others change them | what was closed binds what begins later |
| Control-plane API, worker host (`production_api.py`, `service_worker.py`) | idempotency records | the endpoints of the components above; endless loops | repeated requests, dying loops | covered with the components they drive |
| Web application, middleware integration package, scripts (`src/apps/web`, `src/packages`, `src/scripts`) | none of the gateway's | | | |

Interactions: the campaign dispatcher calls `email_send`, which queues provider
messages; API sends and middleware commands fill the email outbox; its worker
posts to Postal; Postal calls back and the callback writes message status,
suppressions and events; lifecycle and usage events go to the provider outbox,
business events to theirs; onboarding enqueues a provisioning job; the guards are
read by every path that sends. All calls between components inside the gateway
are function calls in one database transaction; all others are HTTP with a
timeout.

`PROJECT.json` lists every component with its status, and under `hazards` the
places in the code where these difficulties bite.

## 2. Modules

| Module | Contents |
|---|---|
| `ProviderOutbox`, `ProviderOutboxProofs` | the provider outbox, its workers, operators and reconciliation |
| `AtLeastOnceOutbox` | what an outbox promises, without leases or workers |
| `CampaignDispatch`, `CampaignDispatchProofs` | one campaign, its run and items, workers and user requests |
| `EmailDelivery`, `EmailDeliveryProofs` | admission, canary gate, delivery loop, cancellation, callbacks |
| `MauticOutbox`, `MauticOutboxProofs` | the operations for Mautic, their workers, users and operators, the circuit |
| `AtMostOnceOutbox` | what that queue promises, without leases or workers |
| `BusinessEvents` | the business event outbox and its fence |
| `UsageSnapshots` | the daily publication of usage, page by page |
| `PostalEvents` | lifecycle callbacks, their record, effect and forwarding |
| `MiddlewareCommands` | durable commands, their execution and recovery |
| `BillingMoney`, `BillingWork` | wallet and invoice; the billing worker |
| `SecurityMail` | mail of the stream SECURITY, its postmen, its purge, the sandbox |
| `DomainKeys` | a domain, its DKIM keys and key files |
| `PostalProvisioning` | provisioning jobs and the tenants' mappings |
| `IntegrationResults` | results reported by N8N and Odoo, holds, purge, rewrapping |
| `SignIn`, `Onboarding`, `TeamAuthority` | flows and sessions; who comes back from them; roles under a request |
| `Webmail` | a mailbox and its count of stored bytes |
| `SendGates` | what every request to send has to pass |
| `Credentials` | an SMTP credential, its rotation and the relay sessions on it |
| `Accounts` | what sign-in, onboarding, team and credentials promise together |
| `MessagingProofs` | proofs about `BusinessEvents`, `MiddlewareCommands`, `PostalEvents`, `UsageSnapshots`, `SecurityMail`, `SendGates` |
| `CountingProofs` | proofs about `BillingMoney`, `Webmail`, `DomainKeys`, `IntegrationResults` |
| `IdentityProofs` | proofs about `Accounts` |
| `ServicesProofs` | proofs about `BillingWork`, `PostalProvisioning` and the composition `MCServices` |
| `MCServices`, `MCWorkers` | instances of the services, one moving per behaviour |
| `MC...` (the others) | model values, symmetry and constant functions for TLC |

Conventions common to the modules:

- A database transaction under row locks is one action. What happens between two
  transactions (an HTTP call, an unlocked read that is written later) is a step
  of its own, so that every interleaving of transactions is explored.
- SQLAlchemy writes, at a commit, the columns whose value differs from what the
  transaction loaded. Where that matters an action keeps what was read and writes
  only the difference.
- Time is abstracted to the comparisons the code makes: a row is due or not, a
  lease has expired or not. Nothing relates the two, so every order of events
  that some timing allows is explored.
- A lease timestamp or a pair of owner and fence number is a token that differs
  from every token still in use. Tokens are recycled, which keeps the state space
  finite and is sound because the code only compares them for equality.
- A crash loses the local variables of a worker and nothing else.
- Names that several services need carry the service's name (`EventClaim`,
  `CommandClaim`), since the composing modules extend all of them.
- Definitions named as faulty variants in their comment are plausible bugs in the
  definition below them; replacing one by the other makes a checked property
  fail. They are not part of the specification.

### ProviderOutbox

`row` holds both tables, with `claim` and `expired` for the lease column
(`updated_at` of an event, `available_at` of a usage row). `worker` holds the
local variables of a `dispatch` call, `manual` what an operator's request has
read. `Claim` is the transaction that recovers expired rows and claims a batch,
`Emit` the POST (the middleware may accept what the worker sees fail),
`Acknowledge` the fenced record. `ManualRead`/`ManualWrite` are the two halves of
`operation_event_retry` and `operation_usage_retry`: SQLAlchemy writes only the
columns whose value changed, which is why the state is not written when RETRY was
read. `Reconcile` is one page of `reconcile_provider_outbox_dead_letters`; what it
decides about a payload is the constant `Decision`.

### CampaignDispatch

`BeginRequest` followed by `Pause` or `Cancel`, and `BeginExpiry` followed by
`EndExpiry`, are the transactions that lock the run, read items without locking
them, and write them at commit (`sweep`). Everything that needs the run's lock
waits (`Unlocked`); what only locks items (`LeaseItems`, `Record`) goes on. The
per-item transaction commits inside `email_send` when it queues a message, which
releases the run's lock: that is why `Admit` and `Record` are two actions, while a
refusal or a replay is one. A run whose every open item is leased under another
fence stays RETRYING: no tick takes such an item up, and only the sweep of a takeover
or of a resumption sets it free.

### EmailDelivery

`Send` is admission with the gate's reservation, `Claim`, `Post...`, `Record` the
delivery pass, `Abandon` the treatment of rows in `sending` for five minutes,
`Quarantine` the refusals of policy and gate. `PostUnrecorded` is an acceptance
that reaches the worker as an exception which is not a transport error.
`PostMisread` is a refusal that Postal answers with HTTP 200 and an error in the body:
the loop takes any object with a status of success for an acceptance (it falls back to
the message's own id), so the row becomes `delivered`; `misread` remembers it.
`CancelDuringClaim` is the deadlock of a claim (outbox row, then message) with a
cancellation (message, then outbox row) that the database resolves against the
claim: the worker has set `snapshot` before the commit failed and reports a
failed submission. The loop for tenants and the one of the embedded worker share
this protocol; the former does not queue the lifecycle events that the latter
queues, which no property here is about.

### MauticOutbox

`row` is a row of `integration_outbox` with its lease (`expired`), its retry time
(`due`) and whether `integration_results` holds an observation MAUTIC_LATE of it
(`late`); `performed` counts the effects in Mautic and is known to nobody. A pass
of `dispatch_mautic_outbox` is `RecoverExpired` (abandoned rows become dead letters,
never work again), `Claim`, `Recheck` (the unlocked check before the call), `Call`,
and the record: `RecordLate` when the claim is no longer current, else `Lock` and
`Record`. A call that takes effect late is placed at the call: what matters is only
whether it comes before or after the lease has been given up, and `Expire` and
`RecoverExpired` are free to happen on either side of the answer. The answers are
the four classes the code distinguishes; `doubt` may hide an effect.

Three details decide what can happen. The clock is read before the row's lock is
granted (`fresh`), so a lease may expire in between and the answer is still
recorded. The circuit is read without a lock after the row was locked (`seen`), and
only the columns that differ from what was read are written (`CircuitAfter`), so
two workers can undo each other's change. And the guards on `late` in
`Claimable`, `Recheck`, `SafeToRecover` and `StateAfter` are a second line of
defence: `LateIsPutAside` shows that such a row is a dead letter or about to become
one, which already keeps everybody away.

### BusinessEvents, UsageSnapshots

`EventEnqueue` is the insertion that commits with the business transaction;
`EventClaim` is `_claim`, which returns expired rows and leases due ones in one
transaction; `EventPost` the POST, after which `completed_at` is read; and
`EventComplete` the fenced write, which needs the row to be leased by the same
owner and the lease to have been unexpired at that clock reading (`inTime`).
The outbox is shown to implement `AtLeastOnceOutbox` with `ManualRetry` FALSE:
unlike the provider outbox nothing but `EventReplay` opens a settled row.

`UsageSnapshots` is the scheduled job. A page is one transaction that locks the
tenants one after the other (`RunLooks`) and commits (`RunCommits`); usage of the
closed day may still grow, runs overlap and die.

### PostalEvents, MiddlewareCommands

`PostalEvents` follows the hook that the application installs
(`postal_callback_attribution`) through its read and its three commits
(`CallbackArrives`, `CallbackCount`, `CallbackPersist`, `CallbackForward`) and the
retry loop (`RetryRead`, `RetryPost`, `RetryWrite`). `record` is `postal_events`;
`heard` and `answered` are what the middleware and Postal know. `mail.known`
is whether the provider's id has been recorded, before which an untagged callback
cannot be attributed and is answered 503.

`MiddlewareCommands` has the record of each command, the executions under way
(`CommandClaim` to `CommandQueued`, `CommandRefused`, `CommandCancel`,
`CommandComplete` or `CommandInterrupted`) and `CommandRecover`, which takes
every command of five minutes for interrupted, be its execution dead or slow. The
idempotency row of the message is `remembered`. The tenant cancels a command that is
not being executed (`CommandCancelled`) and has a failed one executed again
(`CommandReconcile`).

### BillingMoney, BillingWork

`BillingMoney` is one tenant's wallet and one invoice. Each request is a read
(`...Look`, `...Read`) and a commit; the wallet's row is locked once it exists,
nothing else is. `BillingWork` is `billing_tick` with its four commits: discovery of
events without an item, return of expired items, claim and unfenced completion.

### SecurityMail, Credentials

`letter` is the provider message, `postman` the local variables of
`security_smtp_worker`, `gates` the switches (changed at a restart). `PostmanPost`
is the session with Postal, whose outcome may be unknown; `PostmanRead` and
`PostmanWrite` the outcome, written for a message that was read as PROCESSING under
any claim; `PurgeRead`/`PurgeWrite` the removal of bodies; `Report` a callback.
`reopened` counts what the property excepts: an acceptance reported as deferred, and
one whose answer could not be read. `misread` are the messages Postal refused with an
answer of success, which counts as submitted.

`Credentials` has one SMTP credential, unlocked rotations (`RotationReads`,
`RotationCommits`), the answers in which a secret can be fetched until they expire,
and relay sessions. A session's `void` says that what it logged in with had been
withdrawn, or had been revoked when it began its message.

### DomainKeys, PostalProvisioning

`DomainKeys` has the rows and the key files: `RotateRead`, `RotateGenerate` and
`RotateInsert` compute a version, create a file exclusively and commit a row;
`VerifyRead`, `VerifyResolve`, `VerifyActivate` are the verification of a key.
Selectors are pairs of day and version, so that a rotation may run over `Midnight`.

`PostalProvisioning` is the job of each tenant, its mapping, and the worker's tick
(`SweepJobs`, `RecoverJobs`, `ClaimJob`, `CallBridge`, `ReadJob`, `ReadMapping`,
`WriteReady`, `ReadFailed`, `WriteFailure`). The bridge is external: it finds or
creates, one request at a time. Only the claim locks the job. Success reads the job,
then the mapping, then writes of each the columns that differ from what it read
(`JobWritten`); failure and an operator's retry (`RetryReads`, `RetryWrites`) read the
job and write it later. These two query the mapping after they have changed the job;
the session flushes before it queries, which locks the job's row until the commit, and
whoever writes the mapping writes the job as well: hence their write of both is one
action. `current` and `overtaken` are ghosts: who has read a job since it was last
written, and which jobs were written last by one who had not.

### IntegrationResults

`task` is an operation of the kinds that no worker claims, `outcome` its one result
with the key and the sealing of its ciphertext. `PurgePlan` is the dry run,
`PurgeApply` the application, which draws the plan again under locks and goes on only
when it is the approved one. Between the two anything may happen: `Result`,
`ResultHold`, `Closure`, `CancelIntegration`, `RewrapBatch` (any page of consecutive
rows).

### SignIn, Onboarding, TeamAuthority

`SignIn` covers flows and sessions of one user. A callback finds its flow
(`FlowComesBack`), waits for the provider and claims the flow by a compare-and-set
in the transaction that makes the session (`CallbackCompletes`). Refresh and
switch revoke the session and make its successor in two more commits.

`Onboarding` is the transaction inside that callback, cut at its reads, its flushes
and its commit, for first and later logins and each way an invitation is accepted. The
only open invitation is read without a lock (`FirstHomeIsFound`) and taken by a flush
(`OfferIsTaken`) that waits for whoever holds its row. Subjects have addresses of their
own (`OnboardingAssumption`): the identity provider verifies an address for one account.

`TeamAuthority` cuts a browser request at its commits: `RequestEnters`,
`RequestLocks` (the role-stability guard), `RequestIsGuarded` (the CSRF guard, whose
write may end the locks), `RequestEnds`; and an administrator's change at its
read and its write.

### Webmail, SendGates

`Webmail` has a mailbox with inbound messages and filed copies. A delivery locks the
mailbox; a deletion reads (`DeletionReads`) and writes later (`DeletionWrites`).
`drifted` records that such a write lost another one. A delivery that no mailbox takes
(no webmail route, no ACTIVE mailbox) is recorded and stored nowhere
(`DeliveryIsUnfiled`). Bytes are counted on the delivered message and given back on the
stored one, whose empty subject has become "(no subject)": `Surplus` are the bytes of
that text.

`SendGates` has the suppressions of one recipient (several rows may exist, no
constraint forbids it), consent (granted, revoked or pending) and the preference,
which a request of its own sets as well, the tenant's suspensions and gate, the quota,
and requests to send on both paths. `barred` collects what was closed and answered before
a request began and has not been opened since.

### MCServices, MCWorkers

The services above share no variable. `MCServices` therefore puts sixteen of them
side by side and lets one move in each behaviour (`moving`), so that their state
spaces add up instead of multiplying; what is checked of each is exactly its own
specification's. Services that do share tables are composed inside one module:
callbacks with message, suppression and outbox in `PostalEvents` and
`EmailDelivery`, relay and worker in `SecurityMail`, rotation and relay in
`Credentials`. `Accounts` puts together what the services that know people
promise: `SignInsAreOnce` is `FlowYieldsOneSession /\ OnboardedOnce`,
`AuthorityIsCurrent` is `AuthorityStands /\ CredentialsHold`. `MCWorkers` does the
same for the liveness of what the worker host drives.

## 3. What is checked

| Run | Instance | Shows |
|---|---|---|
| `ProviderOutbox` | 1 event and 1 usage row, 2 workers, 1 operator, 2 attempts, 1 crash | types, `OneLiveClaim`, `SettledStays`, refinement of `AtLeastOnceOutbox` (`KeepsPromise`) |
| `ProviderOutboxPages` | 2 + 2 rows, one undeliverable, pages of 1 to 3, 1 worker, 1 crash, fairness | `PagesAreFullAndFair`, `EveryRowSettles` |
| `ProviderOutboxLease` | as the first, no crash | finding: `UsageDeadlineIsClaim` fails |
| `CampaignDispatch` | 2 recipients, 2 workers, 2 requests, 1 refusal, 1 crash, leases expire under live workers | types, `OneActiveDispatcher`, `OneMessagePerRecipient`, `EndedRunIsSettled`, `StoriesAgree`, `EndIsFinal` |
| `CampaignDispatchPause` | 1 worker, 1 pause | finding: `PauseClearsLeases` fails |
| `CampaignDispatchCrash` | 1 worker, 1 crash, 1 refusal | finding: `AdmissionIsRecovered` fails |
| `EmailDelivery` | 3 messages, 2 of them gated, 2 revocable, 1 without a credential, 2 workers, 1 crash, 1 aborted claim, 1 unrecorded acceptance, fairness | types, `CanaryBound`, `NoOtherDuplicate`, `RowsMatchPostal`, `SettledStays`, `EveryMessageSettles` |
| `EmailDeliveryResend` | 1 message, 1 worker | finding: `AcceptedAtMostOnce` fails |
| `MauticOutbox` | 2 operations, 2 workers, 2 attempts, a threshold of 2 failures, 1 crash, 1 request to fail, fairness | types, `EffectIsVisible`, `LateIsPutAside`, refinement of `AtMostOnceOutbox` (`KeepsPromise`), `EveryOperationSettles` |
| `Services` | sixteen services, one moving per behaviour; 2 concurrent requests or workers of each, below | types, `NoCallbackIsLost`, `CommandSendsOnce`, `MoneyAddsUp`, `SnapshotsAreCurrent`, `SecurityMailOnce`, `DkimKeysAreTheirOwn`, `SignInsAreOnce`, `AuthorityIsCurrent`, `QuotaCountsTheMail`, `ClosedGatesBind`, `ResultsStand`, refinement of `AtLeastOnceOutbox` (`EventKeepsPromise`) |
| `Workers` | five services, one moving per behaviour, fairness; the campaign with 2 recipients, 2 workers, leases that expire under live workers, 1 pause (and resumption) or cancellation, 1 refusal, 1 crash | `EveryBookedEventSettles`, `EveryCommandEnds`, `EveryTenantIsProvisioned`, `DispatchEnds` |
| `SuppressionDowngrade` | 1 suppression, 2 requests that change it, 1 request to send | finding: `BouncedStaysSuppressed` fails |

Bounds. Two workers are enough for a late worker to meet the one that replaced
it, and the tokens are plentiful enough that a fresh one always exists. Two
attempts distinguish a first try, a retry and the limit. The bounds `Max...` on
crashes, manual retries, requests, refusals, aborted claims and unrecorded
acceptances stand in the guards; without the first ones liveness could fail
trivially, and one of each suffices for every pairing with another hazard. The
limits of 5 and 8 attempts and of 5 failures in `mautic_adapter.py` and
`fail_integration` are constants, 2 in the run; the theorems hold for any value.
`Maximum` is 1 as in the code (`canary_configuration_valid` accepts nothing else).

In `Services` every service has two concurrent requests or workers, the least that
lets one act between two commits of the other, and enough objects for its property:
two business events with a limit of two leases, two callbacks (one suppresses, one
does not; one tagged, one not), three commands (a send, its cancellation, another),
three wallet references of which one is a debit, three tenants for pages of two,
one security message with two faults, two key pairs over one midnight, two results
under two keys with one hold, one flow and three sessions (a login, a step-up, a
refresh), two members and one change, three deliveries of which two share a
Message-ID, two suppressions of one recipient with
two writers, two subjects with two invitations, three secrets with two rotations.
The two requests or workers are interchangeable, hence symmetry over them.
`MaxControls`, `MaxInvited`, `MaxNotes`, `MaxSecret`, `LastTick`, `LastDay` and
`LastKid` bound how often administrators and clocks move.

Fairness. Each worker is an endless loop (`service_worker.py`), hence weak
fairness of its steps; time passes, hence weak fairness of due times and leases.
Users, operators, callbacks and reconciliation are started by others and are
given none, except that a request that has begun its transaction ends it. The
claim of a middleware command has strong fairness: the loop comes round again and
again, and a command it finds may have been claimed by the request in between.

What the liveness results rest on: in `ProviderOutbox`, reconciliation has no
fairness but may run for ever. With batches of one row, a row that is reconciled
again and again can keep younger rows waiting; with a batch as large as the queue
it cannot, and that is what `EveryRowSettles` is checked with. `DispatchEnds` is
checked with pauses and with leases that expire under live workers, and states what
may keep a campaign from its end: a pause nobody lifts, leases that go on expiring
under live workers, and an item leased after the sweep that should have freed it (after
a pause between claim and leasing, or an expiry between the two), which no tick takes up.
Refusals are bounded by `MaxRefusals`; the code retries a refused item without limit, so
a campaign whose recipient is refused for ever does not end. `EveryTenantIsProvisioned`
excepts a job that was overtaken (`PostalProvisioning`). `EveryCommandEnds` bounds
interruptions, crashes and reconciliations together (`CommandMaxFaults`): a tenant who
reconciles a failing command for ever can keep both executors of the instance from
another. `EveryMessageSettles` excludes messages behind one
whose tenant has no credential: such a message stays first in the queue for ever
(`tenant_postal_api_key` raises before anything is written), which the model
shows and the property states. `EveryOperationSettles` assumes that the adapter
is configured and gets its access token again and again (a pass without one does
nothing), which weak fairness of a pass expresses; the circuit opens for a minute
only. In `Workers` a worker dies a bounded number of times and operators ask for a
bounded number of repetitions.

Deadlock is checked for `ProviderOutbox` and `MauticOutbox`. A campaign that has
ended, a queue whose messages are all settled and a service whose requests are
answered have nothing left to do, so the other runs do not check it.

Every property has a mutant in `PROJECT.json`: a plausible bug in one of the
definitions (a dropped guard, a missing fence, a wrong set) with which the run
fails.

## 4. Findings

1. A manual retry of a usage row can overwrite the lease of a worker
   (`ProviderOutboxLease`).
2. Pausing a campaign can leave items leased under the paused run
   (`CampaignDispatchPause`).
3. A recipient whose message was queued before a crash can end as suppressed or
   failed (`CampaignDispatchCrash`).
4. A message that Postal accepted is sent again when its answer cannot be read or
   recorded (`EmailDeliveryResend`).
5. A one-click unsubscription replaces the reason of a suppression that a bounce or
   a complaint made, after which transactional mail to the address is admitted
   again (`SuppressionDowngrade`).

Details and quotations are in `PROJECT.json`.

Smaller observations, met while modelling and visible in the models as behaviours
that no property forbids:

- Two payments of an invoice confirmed at once each miss the other, so that the
  invoice stays PARTIALLY_PAID; two refunds read before either is written may exceed
  the payment; a credit note may be lost from the invoice's count (`BillingMoney`).
  Nothing in the code gives an invoice the status OPEN that dunning looks for.
- Two verifications of DKIM keys at once leave two keys ACTIVE, or none; a DNS check
  that began before a suspension may lift it (`DomainKeys`).
- A provisioning failure that comes late is written over READY, until the job is done
  again. A success or retry that was overtaken by another write leaves, by writing only
  the columns that differ from what it read, a job that is READY beside a mapping that
  is PENDING, or a job that is RUNNING without a lease; the tenant cannot send until
  somebody asks for a retry (`PostalProvisioning`).
- A refusal that Postal answers with a status of success is recorded as delivered, or
  as submitted for security mail (`EmailDelivery`, `SecurityMail`).
- A campaign that is paused between the claim of its run and the leasing of its items,
  or whose run expires there, may stay RETRYING after it is resumed (`CampaignDispatch`).
- An answer of Postal that accepts a security message and cannot be read counts as
  failed; bodies of messages in doubt, bounced or complained of are never purged
  (`SecurityMail`).
- A refresh that overtakes a logout makes a live session, and two refreshes at once
  make two (`SignIn`); two sign-ins at once of a user without any membership make two
  workspaces (`Onboarding`).
- A relay session that has logged in goes on after its credential expires or its
  secret is replaced; only the status is read again (`Credentials`).
- The count of stored bytes drifts when a permanent deletion overlaps a delivery, and
  loses 12 bytes with every deleted message that came without a subject (`Webmail`).
- Requests at once may pass the quota's check together, and messages that were queued
  before a suppression are still sent (`SendGates`).

## 5. What is proved

Each theorem holds for every value of the constants that satisfies the assumption
named in the module proved about (`EventAssumption`, `MailAssumption`, ...), hence
for any number of rows, workers, requests and any limit. The assumptions say that
null values are no rows, that limits are natural numbers, that the sets of rows and
of workers that are counted are finite (`IsFiniteSet`: a table is), and, where leases
or fences are recycled, that there are more of them than can be in use.

`ProviderOutboxProofs`:

- `TypeCorrect`: `TypeOK` is an invariant. Attempts are natural numbers although
  a manual retry resets them at any time.
- `FenceCorrect`: `OneLiveClaim`. It is not inductive: the strengthening says that
  two workers with work in hand carry different claims and that a claim found in a
  PROCESSING row of a worker's hand is that worker's. A fresh claim differs from
  every claim in use, and only `Claim` puts one into a row.
- `DeliveredCorrect`: `DeliveredWasAccepted`, from the invariant that a worker
  with result `ok` in hand has had its row accepted. The runs check it as part of
  `KeepsPromise`.
- `SettledCorrect`: `SettledStays` as an action property, by cases over `Next`.
- `PromiseKept`: the refinement of `AtLeastOnceOutbox`, step by step.
- `PagesCorrect`: `PagesAreFullAndFair`, about every state and every limit. It rests
  on `OldestCount`: the `k` oldest of a finite set of rows number `k`, or all of it.
  The ranks of the rows chosen are different numbers below `k`, so there are at most
  `k` of them; and if one is left out, the oldest left out has exactly the chosen
  ones before it and a rank of `k` at least. The shares of the two queues
  (`PageCounts`) are then arithmetic.

`CampaignDispatchProofs`:

- `TypeCorrect`, `MessagesCorrect` (`OneMessagePerRecipient`): an item is admitted
  only under an idempotency key that has no message yet.
- `ActiveCorrect`: `OneActiveDispatcher`, from the invariant that two busy workers
  carry different fences: a claim takes one that no busy worker carries.
- `StoriesCorrect`, `SettledCorrect` (`EndedRunIsSettled`) and `FinalCorrect`
  (`EndIsFinal`) follow from one inductive invariant. The sweeps of pause,
  cancellation and takeover read items without locking them and write them at
  commit, so the invariant says of a sweep that it has one holder, belongs to a run
  that has not ended, and, when it is a cancellation's, has read every item not yet
  dispatched. A worker that still has items leased under its fence then knows that
  its run goes on.

`EmailDeliveryProofs`:

- `TypeCorrect`, `DuplicatesExplained` (`NoOtherDuplicate`) and `RowsMatchPostalCorrect`
  (`RowsMatchPostal`). The code records the outcome of a pass without a
  fence, so the argument is about who can hold a message: a message in a worker's
  hand is neither pending nor due for a retry (`HeldIsNotWaiting`), hence has one
  holder (`OneHolder`); one that waits (by `RowsMatchPostal` itself) or is being posted
  (`DefiniteIsUnsent`) has not been accepted other than unrecorded; a result `ok`
  comes from an acceptance or from a refusal that was misread (`OkWasRead`).
- `SettledCorrect`: `SettledStays`, from the same invariant: the row a worker
  records is `sending`, or given up, or cancelled.
- `CanaryCorrect`: `CanaryBound`. The gate's counters are the cardinalities of two
  sets, the admitted messages and the tried ones, each of which grows by at most
  one element in a step; a message that is posted has been tried.

The steps of the system are first reduced to a few shapes (`RowsMove`, `TakesUp`,
`Posts`, `WritesDown`, `Dies`; for the gate `GateKeeps`, `Admits`, `Tries`), and
the invariants are proved about the shapes.

`MauticOutboxProofs` proves `TypeCorrect`, `VisibleCorrect` (`EffectIsVisible`),
`LateCorrect` (`LateIsPutAside`) and `PromiseKept` (`KeepsPromise`, the refinement
of `AtMostOnceOutbox`). All four follow from one inductive invariant. It says of
every row which states allow an effect (`RowSound`), and of every operation in a
worker's hand (`HoldSound`) that its row is in progress or put aside, carries the
worker's attempt, has no observation, and was performed at most by this worker's
call, as the answer tells. The recorded facts alone are not inductive: that a call
finds its operation not yet performed needs that nobody else can have taken it
(`OneHolder`), which needs that a row in a worker's hand is never open again. A step
moves rows that no worker is recording (`RowsMove`), or concerns one worker and the
operation in its hand (`OthersKeep`); the invariant is proved about these two shapes.

`MessagingProofs`, about what the gateway publishes, takes over and sends:

- `EventTypeCorrect` and `EventPromiseKept` (`EventKeepsPromise`). The invariant says
  that a publisher's report of success comes from an acceptance (`ReportsAreTrue`).
  That a fresh lease always exists is a counting argument over finite sets. The
  refinement maps leased rows to waiting ones and is shown action by action.
- `CommandSendsOnceCorrect` (`CommandSendsOnce`). Two executions of one command may
  run beside each other, so the argument does not rest on who holds the command but
  on the idempotency row: it names the one message of its command, and every
  execution has found either that message or none.
- `NoCallbackIsLostCorrect` (`NoCallbackIsLost`). What a request or the loop knows of
  a record may be stale and is written over the newer value. The invariant bounds
  what staleness can do: the attempts known or written are never more than were
  begun, a result of success that will be written has been heard, and a state from
  which the loop goes on belongs to a callback whose effect is committed.
- `SnapshotsAreCurrentAlways` (`SnapshotsAreCurrent`). The page of a run is a stretch
  of the tenants after its cursor, and the pages of two runs are disjoint, since a
  page is read with its rows locked. What was found changed for a tenant of the page
  is therefore news when it is written, and every tenant behind the cursor is
  published up to what the ledger said when the run began; a run that dies starts
  from the front and knows of no tenant.
- `SecurityMailOnceCorrect` (`SecurityMailOnce`). Neither the worker's writes nor the
  purge are fenced, and a callback may reopen what a worker has recorded. The
  invariant counts chances: the acceptances of a message, the workers that may still
  post it or give it back, and whether it can be claimed, add up to at most one more
  than the times it was reopened. A result of submission comes from an acceptance or
  from a refusal that was misread.
- `ClosedGatesBindAlways` (`ClosedGatesBind`). The property speaks of requests that
  have passed the gates, so the invariant says of every gate that was closed and
  answered that the tables still shut it (`ClosedIsShut`), of every request under way
  that the gates it is bound by are shut (`SendersAreBound`), and of every request
  that changes a suppression or consent what it has read and what it may yet write.
  A step opens a gate (`Lifted`, and the requests are released from it), closes one,
  or moves one request.

`CountingProofs` is about columns that stand for the sum or the number of other rows.
The sum (`Total`) is a recursive function, and no induction theorem of the library can
be used with the provers at hand; what is needed of sums is proved by a least
counterexample instead. `LeastNatural` gives every set of natural numbers a least
element (from the well-foundedness of `<`); were a law of sums false, there would be a
smallest set for which it is, and taking away the element the sum is defined by makes
a smaller one (`TotalBySteps`, `TotalWithout`, `TotalWith`). So a sum does not depend
on the order, and a row that comes or goes changes it by its amount.

- `MoneyAddsUpCorrect` (`MoneyAddsUp`). Requests compute with what they read before
  others committed. The invariant says in which direction they may err: a confirmation
  has counted no more than what is confirmed together with its own payment, a credit
  note has read no more than is credited, and both only grow.
- `QuotaCountsTheMailCorrect` (`QuotaCountsTheMail`). A deletion writes the count it
  has read less what it measures on the stored message, at least 0, which may be more
  than was counted. Until one does so with a count that had been written since, the
  count read by every deletion under way that is not stale is the count and its message
  is still kept. So the count is never above the sum of the messages kept, and below it
  by no more than the surplus of the deleted ones.
- `DkimKeysAreTheirOwnAlways` (`DkimKeysAreTheirOwn`). The version in a selector is a
  number of rows, so two rotations may choose the same selector; the second finds its
  file. The invariant says that a pair which is still to be inserted is in its file,
  is no row and is in no other hand.
- `ResultsStandAlways` (`ResultsStand`), an action property. An operation that is
  completed has exactly one result and any other none; a plan names reported results.

`IdentityProofs`, about `Accounts`:

- `SignInsAreOnceAlways` (`SignInsAreOnce`). For sessions: a browser, a flow and a
  request know only sessions that were made and whose deadline is set, and a successor
  that still waits for its deadline is in one request's hand and nobody's parent
  (`Shown`, `SuccessorsDiffer`); a session that names a flow comes from a flow that is
  spent. For first logins: the users and invitations that two callbacks hold before
  they commit are different, which the keys of the tables enforce (`ArrivalsDiffer`).
- `AuthorityIsCurrentAlways` (`AuthorityIsCurrent`). For members: a request with its
  locks acts on what the locked rows say, and a change has read enough to keep away
  from the founder. For credentials: a secret that a rotation is about to write is new,
  was not withdrawn and is in no other hand; what got a session in was valid then.

`ServicesProofs`, about `MCServices`, where one service moves and the others rest:

- `ReadyMeansProvisionedAlways`. A worker's success is written over whatever became of
  the job meanwhile, and its failure over `READY`. The invariant says of a worker after
  its call that the tenant's server was made, and that it read the job as RUNNING
  (`CallersAreRight`); servers and keys are never taken away, so a job shown as `READY`
  has a key and a key has a server. Mapping and job may differ, because both are read
  without locks and written by difference; the invariant says of a process that has read
  a job since it was last written what it knows of it, and hence that the two agree
  unless the last write was by one who had been overtaken. The liveness property
  `EveryTenantIsProvisioned` adds that a job gets there or is blocked, or was overtaken.
- `ServicesTypeCorrect` (`ServicesTypeOK`), `ServicesAreSafe` (the ten other invariants of
  the run, and that a tenant that is ready is provisioned) and `ServicesKeepTheirWord`
  (`EventKeepsPromise`, `ResultsStand`). A step of the composition is for every service a
  step of it or none (`EachMovesOrRests`), so the step lemma of each service carries its
  part of `ServicesInv`, the conjunction of the sixteen invariants. The proof uses no
  other fact about who moves: it holds as well when services move in turns.

Only model-checked:

- All liveness properties (`EveryRowSettles`, `EveryMessageSettles`,
  `EveryOperationSettles`, `EveryBookedEventSettles`, `EveryCommandEnds`,
  `EveryTenantIsProvisioned`, `DispatchEnds`): fairness and `ENABLED` are out of the
  proof system's reach.

## 6. Not modelled, and the plan

Parts that are modelled in part, and what they leave out:

- `webmail.py`, `provider.py`: provisioning, verification and activation of mailboxes
  (`_mailbox`, `sync_verified_mailboxes`, `activate_inbound_mailboxes`), threading,
  drafts, search.
- `agent_mailboxes.py`: the mailboxes of agents. Seen while reading: a suspension that
  reads before a validation commits leaves the sender authorized with the status
  SUSPENDED.
- API keys and service accounts: the same shape as the SMTP credentials, which
  `Credentials` models.
- The operations for N8N and Odoo in `integration_outbox`: no worker claims them and one
  locked request completes them; `IntegrationResults` models the results.
- Sandbox messages: the recovery and the retry of the operator are in `SecurityMail`; the
  simulated SMTP dialogue is left out.
- The control-plane API: the endpoints that drive the modelled components are their
  actions; lists, reports, templates, segments and settings are reads and writes of single
  rows in one transaction.
- The order of locks inside a transaction. The transaction that ends a campaign and the
  requests lock run and campaign in opposite orders; the database aborts one side, which
  leaves what a crashed tick or a request without effect leaves. `CampaignDispatch` has
  both; the deadlock itself is not modelled and no property is about it.

Not modelled:

- `openapi_authority.py` (which routes are published), the web application, the
  middleware integration package (a client library of schemas), the scripts and
  deployment: no protocol of their own over shared state.
- Parsing of HTTP and MIME, cryptography, token validation.
- Code that the application does not install or replaces when it starts:
  `postal_webhook_tenancy.py`, the older acceptance in `invitation_flow.py`,
  `resolve_identity_context` of `tenancy_onboarding.py`, `_step_up_identity_context` of
  `browser_security_fixes.py`, `_send` of `main.py`.

What would come next:

1. The agent mailboxes, with the authorization of their senders.
2. Drafts and threads of the webmail.
