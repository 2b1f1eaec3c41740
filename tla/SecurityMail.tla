----------------------------- MODULE SecurityMail -----------------------------
(***************************************************************************)
(* Mail of the stream SECURITY: its submission over SMTP (smtp_relay), the *)
(* worker that hands it to Postal and scrubs its body                      *)
(* (security_smtp_worker), the sink for messages that stay in the sandbox  *)
(* (process_one_sandbox), the recovery of expired leases                   *)
(* (recover_expired_leases) and the effect of Postal's callbacks on it     *)
(* (persist_email_event).                                                  *)
(*                                                                         *)
(* The claim and the recovery lock the row. Outcomes and the purge are     *)
(* reads followed by commits: an outcome is written when the message was   *)
(* read as PROCESSING, by whichever claim.                                 *)
(***************************************************************************)
EXTENDS Integers, FiniteSets

CONSTANTS
    Mails,              \* (credential, Message-ID, recipient) triples
    MailWorkers,        \* mail worker processes
    NoMail,             \* no message
    CanaryAllowance,    \* live messages accepted before production is approved
    MailMaxAttempts,    \* attempts before a dead letter: 5 in the code
    MailMaxFaults       \* bound: crashes, callbacks and changes of the gates

ASSUME MailAssumption ==
    /\ NoMail \notin Mails /\ IsFiniteSet(MailWorkers)
    /\ CanaryAllowance \in Nat /\ MailMaxAttempts \in Nat \ {0} /\ MailMaxFaults \in Nat

VARIABLES
    gates,          \* what the deployment's switches allow
    letter,         \* the table of provider messages
    accepted,       \* how often Postal has accepted each message
    reopened,       \* acceptances that were taken for something else
    misread,        \* messages whose refusal by Postal was taken for an acceptance
    postman,        \* what each worker has claimed and learnt
    purge,          \* what the open purge has read of each message
    mailFaults      \* faults so far

mailVars == <<gates, letter, accepted, reopened, misread, postman, purge, mailFaults>>

Gates == {"disabled", "sandbox", "canary", "production"}
Active == {"QUEUED", "DEFERRED", "PROCESSING"}
PurgedStates == {"SUBMITTED", "SENT", "DELIVERED", "FAILED", "DEAD_LETTER"}
LetterStates == Active \union PurgedStates \union {"none", "INDETERMINATE", "BOUNCED_HARD"}

\* old: the message has outlived the window of its body. body: the encrypted
\* body is stored, in the message or in the sink's capture of it.
Letter == [state : LetterStates, sandbox : BOOLEAN, attempts : Nat, due : BOOLEAN,
           expired : BOOLEAN, old : BOOLEAN, body : BOOLEAN]

\* result: what the worker makes of Postal's answer; read: it has read the
\* message as PROCESSING and is about to write the outcome.
Postman == [letter : Mails \union {NoMail}, body : BOOLEAN, read : BOOLEAN,
            result : {"none", "submitted", "failed", "indeterminate"}]
IdlePostman == [letter |-> NoMail, body |-> FALSE, read |-> FALSE, result |-> "none"]
NoPurge == [m \in Mails |-> "none"]

MailInit ==
    /\ gates = "disabled"
    /\ letter = [m \in Mails |-> [state |-> "none", sandbox |-> TRUE, attempts |-> 0,
                    due |-> TRUE, expired |-> FALSE, old |-> FALSE, body |-> FALSE]]
    /\ accepted = [m \in Mails |-> 0] /\ reopened = [m \in Mails |-> 0]
    /\ misread = {}
    /\ postman = [w \in MailWorkers |-> IdlePostman]
    /\ purge = NoPurge
    /\ mailFaults = 0

MailFault == mailFaults < MailMaxFaults /\ mailFaults' = mailFaults + 1

-------------------------------------------------------------------------------
\* Relay and worker are restarted with other switches.
GatesChange ==
    /\ \E g \in Gates \ {gates} : gates' = g
    /\ MailFault
    /\ UNCHANGED <<letter, accepted, reopened, misread, postman, purge>>

LiveAllowed == gates \in {"canary", "production"}
LiveMails == {m \in Mails : letter[m].state # "none" /\ ~letter[m].sandbox}

\* The relay's one process queues a message once; a repeated submission finds it.
Submit(m) ==
    /\ letter[m].state = "none" /\ gates # "disabled"
    /\ gates = "canary" => Cardinality(LiveMails) < CanaryAllowance
    /\ letter' = [letter EXCEPT ![m].state = "QUEUED", ![m].sandbox = ~LiveAllowed,
                                ![m].body = TRUE]
    /\ UNCHANGED <<gates, accepted, reopened, misread, postman, purge, mailFaults>>

\* Time: a retry falls due, a lease ends, a body outlives its window.
MailTime(m) ==
    /\ \/ /\ letter[m].state = "DEFERRED" /\ ~letter[m].due
          /\ letter' = [letter EXCEPT ![m].due = TRUE]
       \/ /\ letter[m].state = "PROCESSING" /\ ~letter[m].expired
          /\ letter' = [letter EXCEPT ![m].expired = TRUE]
       \/ /\ letter[m].state # "none" /\ ~letter[m].old
          /\ letter' = [letter EXCEPT ![m].old = TRUE]
    /\ UNCHANGED <<gates, accepted, reopened, misread, postman, purge, mailFaults>>

\* The sink takes a sandbox message, in one transaction.
SandboxProcess(m) ==
    /\ letter[m].state \in {"QUEUED", "DEFERRED"} /\ letter[m].sandbox /\ letter[m].due
    /\ letter' = [letter EXCEPT ![m].state = "DELIVERED", ![m].attempts = @ + 1]
    /\ UNCHANGED <<gates, accepted, reopened, misread, postman, purge, mailFaults>>

\* A faulty variant: a message whose lease expired is sent again.
RecoveredAgain(rec) == [rec EXCEPT !.state = "DEFERRED", !.due = FALSE, !.expired = FALSE]

Recovered(rec) ==
    [rec EXCEPT !.state = IF rec.attempts >= MailMaxAttempts THEN "DEAD_LETTER"
                          ELSE "INDETERMINATE",
                !.due = FALSE, !.expired = FALSE]

LeaseRecover ==
    LET expired == {m \in Mails : letter[m].state = "PROCESSING" /\ letter[m].expired}
    IN /\ expired # {}
       /\ letter' = [m \in Mails |-> IF m \in expired THEN Recovered(letter[m]) ELSE letter[m]]
       /\ UNCHANGED <<gates, accepted, reopened, misread, postman, purge, mailFaults>>

-------------------------------------------------------------------------------
\* The purge reads the messages whose body has outlived its window.
PurgeRead ==
    LET old == {m \in Mails : /\ letter[m].old /\ letter[m].body
                              /\ letter[m].state \in Active \union PurgedStates}
    IN /\ purge = NoPurge /\ old # {}
       /\ purge' = [m \in Mails |-> IF m \in old THEN letter[m].state ELSE "none"]
       /\ UNCHANGED <<gates, letter, accepted, reopened, misread, postman, mailFaults>>

\* It scrubs them, and ends those it has read as active.
PurgeWrite ==
    /\ purge # NoPurge
    /\ letter' = [m \in Mails |->
          IF purge[m] = "none" THEN letter[m]
          ELSE [letter[m] EXCEPT !.body = FALSE, !.state = IF purge[m] \in Active
                                                           THEN "DEAD_LETTER" ELSE @]]
    /\ purge' = NoPurge
    /\ UNCHANGED <<gates, accepted, reopened, misread, postman, mailFaults>>

PostmanClaim(w, m) ==
    /\ postman[w] = IdlePostman /\ LiveAllowed
    /\ letter[m].state \in {"QUEUED", "DEFERRED"} /\ ~letter[m].sandbox
    /\ letter[m].due /\ letter[m].attempts < MailMaxAttempts
    /\ letter' = [letter EXCEPT ![m].state = "PROCESSING", ![m].attempts = @ + 1,
                                ![m].expired = FALSE]
    /\ postman' = [postman EXCEPT ![w] = [IdlePostman EXCEPT !.letter = m, !.body = letter[m].body]]
    /\ UNCHANGED <<gates, accepted, reopened, misread, purge, mailFaults>>

\* The message is posted. A 5xx answer or a broken connection is ambiguous, an
\* answer that cannot be read counts as failed. Any object with a status of
\* success counts as submitted, a refusal that Postal words so included. Without
\* its body the message is not sent.
PostmanPost(w) ==
    LET m == postman[w].letter
    IN /\ m # NoMail /\ postman[w].result = "none"
       /\ \E result \in {"submitted", "failed", "indeterminate"}, taken \in BOOLEAN :
             /\ ~postman[w].body => result = "failed" /\ ~taken
             /\ accepted' = IF taken THEN [accepted EXCEPT ![m] = @ + 1] ELSE accepted
             /\ reopened' = IF taken /\ result = "failed" THEN [reopened EXCEPT ![m] = @ + 1]
                            ELSE reopened
             /\ misread' = IF result = "submitted" /\ ~taken THEN misread \union {m} ELSE misread
             /\ postman' = [postman EXCEPT ![w].result = result]
       /\ UNCHANGED <<gates, letter, purge, mailFaults>>

\* The message is read once more: an outcome is for a PROCESSING message only.
PostmanRead(w) ==
    LET m == postman[w].letter
    IN /\ postman[w].result # "none" /\ ~postman[w].read
       /\ postman' = IF letter[m].state = "PROCESSING" THEN [postman EXCEPT ![w].read = TRUE]
                     ELSE [postman EXCEPT ![w] = IdlePostman]
       /\ UNCHANGED <<gates, letter, accepted, reopened, misread, purge, mailFaults>>

Outcome(rec, result) ==
    CASE result = "submitted" -> [rec EXCEPT !.state = "SUBMITTED", !.body = FALSE, !.expired = FALSE]
      [] result = "indeterminate" -> [rec EXCEPT !.state = "INDETERMINATE", !.expired = FALSE]
      [] OTHER ->
         IF rec.attempts >= MailMaxAttempts
         THEN [rec EXCEPT !.state = "DEAD_LETTER", !.body = FALSE, !.expired = FALSE, !.due = FALSE]
         ELSE [rec EXCEPT !.state = "DEFERRED", !.expired = FALSE, !.due = FALSE]

PostmanWrite(w) ==
    LET m == postman[w].letter
    IN /\ postman[w].read
       /\ letter' = [letter EXCEPT ![m] = Outcome(@, postman[w].result)]
       /\ postman' = [postman EXCEPT ![w] = IdlePostman]
       /\ UNCHANGED <<gates, accepted, reopened, misread, purge, mailFaults>>

PostmanDies(w) ==
    /\ postman[w] # IdlePostman
    /\ postman' = [postman EXCEPT ![w] = IdlePostman]
    /\ MailFault
    /\ UNCHANGED <<gates, letter, accepted, reopened, misread, purge>>

-------------------------------------------------------------------------------
\* Postal reports on a message it has accepted, and the report becomes the
\* message's status, whatever it was. A deferred one is claimed again.
Report(m) ==
    /\ accepted[m] > 0
    /\ \E state \in {"SENT", "DELIVERED", "DEFERRED", "FAILED", "BOUNCED_HARD"} :
          /\ letter' = [letter EXCEPT ![m].state = state]
          /\ reopened' = IF state = "DEFERRED" THEN [reopened EXCEPT ![m] = @ + 1] ELSE reopened
    /\ MailFault
    /\ UNCHANGED <<gates, accepted, misread, postman, purge>>

MailNext ==
    \/ GatesChange \/ LeaseRecover \/ PurgeRead \/ PurgeWrite
    \/ \E m \in Mails : \/ Submit(m) \/ MailTime(m) \/ SandboxProcess(m) \/ Report(m)
                        \/ \E w \in MailWorkers : PostmanClaim(w, m)
    \/ \E w \in MailWorkers : PostmanPost(w) \/ PostmanRead(w) \/ PostmanWrite(w) \/ PostmanDies(w)

MailSpec == MailInit /\ [][MailNext]_mailVars

-------------------------------------------------------------------------------
MailTypeOK ==
    /\ gates \in Gates
    /\ letter \in [Mails -> Letter]
    /\ accepted \in [Mails -> Nat] /\ reopened \in [Mails -> Nat]
    /\ misread \in SUBSET Mails
    /\ postman \in [MailWorkers -> Postman]
    /\ purge \in [Mails -> LetterStates]
    /\ mailFaults \in 0..MailMaxFaults

\* A security message is not handed to Postal twice because a worker died, was
\* slow, had no answer or lost its lease: a second acceptance needs a report
\* that Postal defers it, or an acceptance whose answer could not be read. A
\* message in the sandbox is never handed over, and one shown as submitted was,
\* or Postal refused it with an answer that was taken for an acceptance.
SecurityMailOnce ==
    \A m \in Mails :
        /\ accepted[m] <= 1 + reopened[m]
        /\ letter[m].sandbox => accepted[m] = 0
        /\ letter[m].state = "SUBMITTED" => accepted[m] > 0 \/ m \in misread
===============================================================================
