----------------------------- MODULE Credentials -----------------------------
(* The SMTP credential of a tenant: its creation, rotation and revocation, the *)
(* encrypted answer in which each new secret can be fetched for a while, and   *)
(* the sessions of the submission relay and the preflights that use it         *)
(* (provider.py, secret_responses.py, smtp_relay.py).                          *)
(*                                                                             *)
(* Nothing locks the credential. A rotation reads it, hashes the new secret    *)
(* and writes the columns it changed; the secret's answer is in the same       *)
(* transaction. A relay session reads the credential at every command.         *)
EXTENDS Naturals

CONSTANTS
    Rotators,        \* requests to rotate
    Submitters,      \* sessions of the relay, one login and one message each
    MaxSecret        \* secrets that may be made (bound)

ASSUME SecretsAssumption == MaxSecret \in Nat \ {0}

Secrets == 1..MaxSecret
NoSecret == 0

VARIABLES
    credential,  \* its status, the secret its hash is of, whether it has expired
    rotator,     \* the secret each rotation is about to write
    secretAnswer, \* the secret responses, by secret
    secretsMade, \* secrets made so far
    relay,       \* the sessions
    withdrawn    \* whether a revocation was answered, and the secrets replaced

credentialVars == <<credential, rotator, secretAnswer, secretsMade, relay, withdrawn>>

CredentialsTypeOK ==
    /\ credential \in [status : {"none", "ACTIVE", "REVOKED"},
                       secret : Secrets \union {NoSecret}, expired : BOOLEAN]
    /\ rotator \in [Rotators -> Secrets \union {NoSecret}]
    /\ secretAnswer \in [Secrets ->
         [state : {"none", "held", "redacted"}, expired : BOOLEAN, fetched : BOOLEAN]]
    /\ secretsMade \in 0..MaxSecret
    /\ relay \in [Submitters ->
         [step : {"out", "in", "mail", "rcpt", "data", "queued", "closed"},
          secret : Secrets \union {NoSecret}, void : BOOLEAN]]
    /\ withdrawn \in [revoked : BOOLEAN, secrets : SUBSET Secrets]

CredentialsInit ==
    /\ credential = [status |-> "none", secret |-> NoSecret, expired |-> FALSE]
    /\ rotator = [q \in Rotators |-> NoSecret]
    /\ secretAnswer = [v \in Secrets |-> [state |-> "none", expired |-> FALSE, fetched |-> FALSE]]
    /\ secretsMade = 0
    /\ relay = [x \in Submitters |-> [step |-> "out", secret |-> NoSecret, void |-> FALSE]]
    /\ withdrawn = [revoked |-> FALSE, secrets |-> {}]

\* record_secret_response: within the caller's transaction.
IsRecorded(v) == secretAnswer' = [secretAnswer EXCEPT ![v].state = "held"]

-------------------------------------------------------------------------------
(* The credential. *)

CredentialIsCreated ==
    /\ credential.status = "none"
    /\ credential' = [status |-> "ACTIVE", secret |-> 1, expired |-> FALSE]
    /\ secretsMade' = 1
    /\ IsRecorded(1)
    /\ UNCHANGED <<rotator, relay, withdrawn>>

RotationReads(q) ==
    /\ rotator[q] = NoSecret
    /\ credential.status = "ACTIVE"
    /\ secretsMade < MaxSecret
    /\ secretsMade' = secretsMade + 1
    /\ rotator' = [rotator EXCEPT ![q] = secretsMade + 1]
    /\ UNCHANGED <<credential, secretAnswer, relay, withdrawn>>

\* A faulty rotation that writes the row as it read it, with its status.
RowWithSecret(v) == [credential EXCEPT !.secret = v, !.status = "ACTIVE"]

\* Only the columns that were assigned are written, whatever the status is now.
Rehashed(v) == [credential EXCEPT !.secret = v]

RotationCommits(q) ==
    LET v == rotator[q] IN
    /\ v # NoSecret
    /\ credential' = Rehashed(v)
    /\ IsRecorded(v)
    /\ withdrawn' = [withdrawn EXCEPT !.secrets = @ \union {credential.secret}]
    /\ rotator' = [rotator EXCEPT ![q] = NoSecret]
    /\ UNCHANGED <<secretsMade, relay>>

RotationFails(q) ==
    /\ rotator[q] # NoSecret
    /\ rotator' = [rotator EXCEPT ![q] = NoSecret]
    /\ UNCHANGED <<credential, secretAnswer, secretsMade, relay, withdrawn>>

CredentialIsRevoked ==
    /\ credential.status # "none"
    /\ credential' = [credential EXCEPT !.status = "REVOKED"]
    /\ withdrawn' = [withdrawn EXCEPT !.revoked = TRUE]
    /\ UNCHANGED <<rotator, secretAnswer, secretsMade, relay>>

CredentialExpires ==
    /\ credential.status # "none" /\ ~credential.expired
    /\ credential' = [credential EXCEPT !.expired = TRUE]
    /\ UNCHANGED <<rotator, secretAnswer, secretsMade, relay, withdrawn>>

-------------------------------------------------------------------------------
(* Answers with secrets. *)

AnswerExpires(v) ==
    /\ secretAnswer[v].state = "held" /\ ~secretAnswer[v].expired
    /\ secretAnswer' = [secretAnswer EXCEPT ![v].expired = TRUE]
    /\ UNCHANGED <<credential, rotator, secretsMade, relay, withdrawn>>

\* cleanup_secret_responses: the expired answers that nobody has locked, up to a
\* limit.
AnswersAreRedacted ==
    \E S \in SUBSET {v \in Secrets : secretAnswer[v].state = "held" /\ secretAnswer[v].expired} :
        /\ S # {}
        /\ secretAnswer' = [v \in Secrets |->
             IF v \in S THEN [secretAnswer[v] EXCEPT !.state = "redacted"]
             ELSE secretAnswer[v]]
        /\ UNCHANGED <<credential, rotator, secretsMade, relay, withdrawn>>

\* secret_response_get, under the answer's lock: the secret, or a refusal that
\* redacts what has expired.
AnswerIsFetched(v) ==
    /\ secretAnswer[v].state = "held"
    /\ secretAnswer' = [secretAnswer EXCEPT ![v] =
         IF @.expired THEN [@ EXCEPT !.state = "redacted"] ELSE [@ EXCEPT !.fetched = TRUE]]
    /\ UNCHANGED <<credential, rotator, secretsMade, relay, withdrawn>>

-------------------------------------------------------------------------------
(* The relay. What a command demands of senders, recipients and policies is   *)
(* not modelled here: it may refuse.                                           *)

RelayGoes(x, from, to) ==
    /\ relay[x].step = from
    /\ relay' = [relay EXCEPT ![x].step = to]
    /\ UNCHANGED <<credential, rotator, secretAnswer, secretsMade, withdrawn>>

\* authenticate, and smtp_authorize for a preflight.
Accepts(v) == credential.status = "ACTIVE" /\ ~credential.expired /\ credential.secret = v

\* void: what the login used was withdrawn before.
RelayLogsIn(x, v) ==
    /\ relay[x].step = "out"
    /\ relay' = [relay EXCEPT ![x] =
         [step |-> IF Accepts(v) THEN "in" ELSE "closed", secret |-> v,
          void |-> withdrawn.revoked \/ v \in withdrawn.secrets]]
    /\ UNCHANGED <<credential, rotator, secretAnswer, secretsMade, withdrawn>>

\* _credential_policy: the status, not the secret and not the expiry.
StillValid == credential.status = "ACTIVE"

RelayTakesSender(x) == StillValid /\ RelayGoes(x, "in", "mail")
RelayTakesRecipient(x) == StillValid /\ RelayGoes(x, "mail", "rcpt")

\* handle_DATA reads the credential first and writes the messages last.
RelayTakesData(x) ==
    /\ relay[x].step = "rcpt" /\ StillValid
    /\ relay' = [relay EXCEPT ![x].step = "data", ![x].void = @ \/ withdrawn.revoked]
    /\ UNCHANGED <<credential, rotator, secretAnswer, secretsMade, withdrawn>>

RelayQueues(x) == RelayGoes(x, "data", "queued")

RelayRefuses(x) == relay[x].step \in {"in", "mail", "rcpt", "data"} /\ RelayGoes(x, relay[x].step, "closed")

CredentialsNext ==
    \/ CredentialIsCreated \/ CredentialIsRevoked \/ CredentialExpires \/ AnswersAreRedacted
    \/ \E q \in Rotators : RotationReads(q) \/ RotationCommits(q) \/ RotationFails(q)
    \/ \E v \in Secrets : AnswerExpires(v) \/ AnswerIsFetched(v)
    \/ \E x \in Submitters :
         \/ RelayTakesSender(x) \/ RelayTakesRecipient(x) \/ RelayTakesData(x)
         \/ RelayQueues(x) \/ RelayRefuses(x)
         \/ \E v \in Secrets : v <= secretsMade /\ RelayLogsIn(x, v)

CredentialsSpec == CredentialsInit /\ [][CredentialsNext]_credentialVars

-------------------------------------------------------------------------------
\* What was withdrawn stays withdrawn, although rotations read the credential
\* without a lock and several may be under way: no message is queued by a session
\* that logged in with a revoked credential or a replaced secret, or that began
\* its message after the revocation was answered. And the secret that works can
\* be fetched by its creator until the answer's time is over ("Persist ciphertext
\* in the caller's credential mutation transaction", secret_responses.py).
CredentialsHold ==
    /\ \A x \in Submitters : relay[x].step = "queued" => ~relay[x].void
    /\ withdrawn.revoked => credential.status = "REVOKED"
    /\ credential.secret # NoSecret =>
         LET answer == secretAnswer[credential.secret] IN
         answer.state = "held" \/ (answer.state = "redacted" /\ answer.expired)
===============================================================================
