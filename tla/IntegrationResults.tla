-------------------------- MODULE IntegrationResults --------------------------
(***************************************************************************)
(* Results that N8N and Odoo report for a tenant's integration operations  *)
(* (operations.py), and their maintenance by an operator: holds, the purge *)
(* of payloads in two passes, a dry run whose plan is approved and an      *)
(* application that must draw the same plan again (durable_retention), and *)
(* the rewrapping under a new key (durable_maintenance).                   *)
(*                                                                         *)
(* Callback, hold and purge lock the operation, hold and purge the tenant  *)
(* before it: each is one step. What interleaves is everything that        *)
(* happens between the plan and its application.                           *)
(***************************************************************************)
EXTENDS Integers, FiniteSets

CONSTANTS
    Tasks,              \* operations for N8N and Odoo
    ResultKeys,         \* keys of results, numbered in the order of the rows
    Payloads,           \* what a result may say
    Holds,              \* identities of preservation holds
    HeldTask,           \* the operation each hold is for
    NoPayload,          \* no result
    TaskMaxAttempts,    \* failures before a dead letter: 8 in the code
    PurgeLimit,         \* rows of one purge: up to 1000 in the code
    LastKid             \* bound: how often the active key changes

ASSUME ResultsAssumption ==
    /\ ResultKeys \subseteq Nat /\ NoPayload \notin Payloads
    /\ HeldTask \in [Holds -> Tasks]
    /\ TaskMaxAttempts \in Nat \ {0} /\ PurgeLimit \in Nat \ {0} /\ LastKid \in Nat

VARIABLES
    task,           \* the table integration_outbox
    outcome,        \* the table integration_results, by key
    hold,           \* the table integration_result_holds
    legalHold,      \* the tenant's account closure, if any, is a legal hold
    activeKid,      \* the keyring's active key
    plan            \* the plan the operator has approved

resultsVars == <<task, outcome, hold, legalHold, activeKid, plan>>

Task == [state : {"PENDING", "RETRY", "DEAD_LETTER", "CANCELLED", "COMPLETED"}, attempts : Nat]

\* digest: the payload the result's checksum is of. body: the payload itself is
\* still there, and not a tombstone. kid, sealed: the key and how often the row
\* was sealed, each time to another ciphertext.
OutcomeRow == [task : Tasks, digest : Payloads, body : BOOLEAN, kid : 0..LastKid, sealed : Nat]
NoOutcome == [task |-> NoPayload, digest |-> NoPayload]

\* cutoff: the rows created before the plan's date; after: its cursor.
NoPlan == [cutoff |-> {}, after |-> 0, eligible |-> {}]

ResultsInit ==
    /\ task = [t \in Tasks |-> [state |-> "PENDING", attempts |-> 0]]
    /\ outcome = [k \in ResultKeys |-> NoOutcome]
    /\ hold = [h \in Holds |-> "none"]
    /\ legalHold = "none"
    /\ activeKid = 0
    /\ plan = NoPlan

Reported == {k \in ResultKeys : outcome[k] # NoOutcome}

-------------------------------------------------------------------------------
Resultable(t) == task[t].state \in {"PENDING", "RETRY"}

\* A result under a key that was not used. A repeated one is acknowledged when
\* operation and checksum are the same, and refused otherwise.
Result(t, k, p) ==
    /\ k \notin Reported /\ Resultable(t)
    /\ outcome' = [outcome EXCEPT ![k] = [task |-> t, digest |-> p, body |-> TRUE,
                                          kid |-> activeKid, sealed |-> 1]]
    /\ task' = [task EXCEPT ![t].state = "COMPLETED"]
    /\ UNCHANGED <<hold, legalHold, activeKid, plan>>

\* The platform administrator counts a failure, or queues the operation again.
FailIntegration(t) ==
    /\ task[t].state \in {"PENDING", "RETRY"}
    /\ task' = [task EXCEPT ![t] = [attempts |-> @.attempts + 1,
                   state |-> IF @.attempts + 1 >= TaskMaxAttempts THEN "DEAD_LETTER" ELSE "RETRY"]]
    /\ UNCHANGED <<outcome, hold, legalHold, activeKid, plan>>

\* A recovery does not reset the attempts; that they are few is a bound.
RecoverIntegration(t) ==
    /\ task[t].state \in {"RETRY", "DEAD_LETTER"} /\ task[t].attempts <= TaskMaxAttempts
    /\ task' = [task EXCEPT ![t].state = "PENDING"]
    /\ UNCHANGED <<outcome, hold, legalHold, activeKid, plan>>

\* The tenant cancels an operation that has not come to an end.
CancelIntegration(t) ==
    /\ task[t].state \in {"PENDING", "RETRY"}
    /\ task' = [task EXCEPT ![t].state = "CANCELLED"]
    /\ UNCHANGED <<outcome, hold, legalHold, activeKid, plan>>

\* The tenant asks for its account to be closed, once.
Closure ==
    /\ legalHold = "none"
    /\ legalHold' \in {"STANDARD", "LEGAL_HOLD"}
    /\ UNCHANGED <<task, outcome, hold, activeKid, plan>>

\* A hold's identity is used once; its release needs it to be active.
ResultHold(h) ==
    /\ \/ hold[h] = "none" /\ hold' = [hold EXCEPT ![h] = "ACTIVE"]
       \/ hold[h] = "ACTIVE" /\ hold' = [hold EXCEPT ![h] = "RELEASED"]
    /\ UNCHANGED <<task, outcome, legalHold, activeKid, plan>>

NewKid ==
    /\ activeKid < LastKid
    /\ activeKid' = activeKid + 1
    /\ UNCHANGED <<task, outcome, hold, legalHold, plan>>

\* Rows under another key are sealed again with the active one, a page of
\* consecutive rows at a time.
RewrapBatch ==
    LET stale == {k \in Reported : outcome[k].kid # activeKid} IN
    \E first, last \in stale :
       /\ first <= last
       /\ outcome' = [k \in ResultKeys |->
             IF k \in stale /\ first <= k /\ k <= last
             THEN [outcome[k] EXCEPT !.kid = activeKid, !.sealed = @ + 1] ELSE outcome[k]]
       /\ UNCHANGED <<task, hold, legalHold, activeKid, plan>>

-------------------------------------------------------------------------------
Held(t) == legalHold = "LEGAL_HOLD" \/ \E h \in Holds : HeldTask[h] = t /\ hold[h] = "ACTIVE"

Ciphertext(k) == <<k, outcome[k].kid, outcome[k].sealed>>

\* The page of rows behind the cursor that are older than the date.
Page(cutoff, after) ==
    LET behind == {k \in cutoff : k > after}
    IN {k \in behind : Cardinality({b \in behind : b < k}) < PurgeLimit}

Eligible(cutoff, after) ==
    {k \in Page(cutoff, after) : /\ task[outcome[k].task].state = "COMPLETED"
                                 /\ ~Held(outcome[k].task) /\ outcome[k].body}

\* The dry run: the rows it would purge, with their ciphertexts. The date is
\* before the retention period, so that no later row falls under it.
PurgePlan ==
    /\ \E cutoff \in SUBSET Reported, after \in {0} \union Reported :
          plan' = [cutoff |-> cutoff, after |-> after,
                   eligible |-> {Ciphertext(k) : k \in Eligible(cutoff, after)}]
    /\ plan'.eligible # {} /\ plan' # plan
    /\ UNCHANGED <<task, outcome, hold, legalHold, activeKid>>

\* A faulty variant: the approved plan is not compared.
ApprovedUnread(eligible) == plan # NoPlan

Approved(eligible) == plan.eligible = {Ciphertext(k) : k \in eligible}

Tombstone(row) == [row EXCEPT !.body = FALSE, !.kid = activeKid, !.sealed = @ + 1]

\* The application draws the plan again and purges exactly the approved rows.
PurgeApply ==
    LET eligible == Eligible(plan.cutoff, plan.after)
    IN /\ eligible # {} /\ Approved(eligible)
       /\ outcome' = [k \in ResultKeys |-> IF k \in eligible THEN Tombstone(outcome[k])
                                           ELSE outcome[k]]
       /\ UNCHANGED <<task, hold, legalHold, activeKid, plan>>

ResultsNext ==
    \/ \E t \in Tasks : \/ FailIntegration(t) \/ RecoverIntegration(t) \/ CancelIntegration(t)
                        \/ \E k \in ResultKeys, p \in Payloads : Result(t, k, p)
    \/ \E h \in Holds : ResultHold(h)
    \/ Closure \/ NewKid \/ RewrapBatch \/ PurgePlan \/ PurgeApply

ResultsSpec == ResultsInit /\ [][ResultsNext]_resultsVars

-------------------------------------------------------------------------------
ResultsTypeOK ==
    /\ task \in [Tasks -> Task]
    /\ outcome \in [ResultKeys -> OutcomeRow \union {NoOutcome}]
    /\ hold \in [Holds -> {"none", "ACTIVE", "RELEASED"}]
    /\ legalHold \in {"none", "STANDARD", "LEGAL_HOLD"}
    /\ activeKid \in 0..LastKid
    /\ plan.cutoff \in SUBSET ResultKeys

Purged(k) == k \in Reported /\ outcome[k].body /\ ~outcome'[k].body

\* What an operation answered is kept by a step: its one result, and its payload
\* unless the operator has seen this very ciphertext in the plan and nothing
\* holds it.
AnswersStand ==
    /\ \A k \in Reported : /\ outcome'[k].task = outcome[k].task
                           /\ outcome'[k].digest = outcome[k].digest
                           /\ Purged(k) => /\ Ciphertext(k) \in plan.eligible
                                           /\ ~Held(outcome[k].task)
    /\ \A t \in Tasks : (task'[t].state = "COMPLETED")
          <=> (Cardinality({k \in ResultKeys : outcome'[k] # NoOutcome /\ outcome'[k].task = t}) = 1)

\* What an operation answered stands: its one result stays with its checksum,
\* so that a repeated callback stays a repetition and a changed one a conflict.
\* A payload goes only when it is, to the ciphertext, one the operator has seen
\* in the plan, and when nothing holds it, whatever was held, released,
\* rewrapped or reported since (purge_result_batch; DURABLE_RESULT_RETENTION.md).
ResultsStand == [][AnswersStand]_resultsVars
===============================================================================
