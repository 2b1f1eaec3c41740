------------------------------- MODULE SendGates -------------------------------
(* The gates a request to send passes (guards.authorize_send, preflight,       *)
(* enforce_delivery_controls) and the requests that close and open them:       *)
(* suppressions, consents, suspensions and the tenant's send gate. One tenant, *)
(* one recipient.                                                              *)
(*                                                                             *)
(* Every request is a transaction that reads and, at its commit, writes what   *)
(* differs from what it read; nothing is locked, and no constraint keeps two   *)
(* suppressions of one address apart. An update of a deleted row fails the     *)
(* whole request. Suspensions and releases set constants and are one action.   *)
EXTENDS Naturals, FiniteSets

CONSTANTS
    SuppressionRows,  \* rows suppressions of the recipient may take (bound)
    NoRow,            \* no such row
    GateWriters,      \* requests that change suppressions and consents, one each
    GateSenders,      \* requests to send, one each
    SendQuota,        \* messages of the tenant within the period
    MaxControls       \* suspensions, releases and gate changes (bound)

ASSUME GateAssumption ==
    /\ NoRow \notin SuppressionRows
    /\ IsFiniteSet(GateWriters)
    /\ SendQuota \in Nat /\ MaxControls \in Nat

\* What a callback writes, two reasons an operator or the middleware gives, and
\* what an unsubscription and a revoked consent write. Other hard reasons (policy,
\* abuse) are dealt with as "bounced" is, other soft ones as "other" is.
Reasons == {"bounced", "hard_bounce", "other", "unsubscribe", "revoked"}
HardReasons == {"bounced", "hard_bounce"}
\* The reasons an unsubscription leaves.
KeptReasons == {"hard_bounce"}
GivenReasons == {"hard_bounce", "other"}

\* Requests that set the preference on and off: a consent that is granted,
\* revoked or pending, and the preference itself.
Giving == {"grant", "prefer"}
Taking == {"revoke", "pending", "decline"}

\* Requests that look for the recipient's suppression.
Listing == {"unsubscribe", "bounce", "upsert", "delete", "revoke"}
WriteKinds == Listing \union Giving \union Taking
Consents == {"none", "granted", "revoked", "pending"}
Bars == {"optOut", "consent", "tenant", "domain", "sendGate", "quota", "bounce"}

VARIABLES
    listed,     \* the suppressions: a reason, or none
    consent,    \* the preference, the latest consent and when it was given
    tenant,     \* Tenant.enabled, the active suspensions, the send gate
    sent,       \* messages admitted within the period
    controls,   \* how often these were changed
    gateWriter, \* the requests that change suppressions and consents
    gateSender, \* the requests to send
    closed      \* what was closed and answered and has not been opened since

gateVars == <<listed, consent, tenant, sent, controls, gateWriter, gateSender, closed>>

WriteRequest ==
    [step : {"idle", "read", "done"}, kind : WriteKinds, reason : Reasons,
     row : SuppressionRows \union {NoRow}, seen : Reasons \union {"none"},
     subscribed : BOOLEAN, at : Nat, calm : BOOLEAN]

SendRequest ==
    [step : {"idle", "begun", "passed", "admitted", "refused"},
     stream : {"marketing", "transactional"}, path : {"api", "provider"},
     enabled : BOOLEAN, barred : SUBSET Bars]

GateTypeOK ==
    /\ listed \in [SuppressionRows -> Reasons \union {"none"}]
    /\ consent \in [subscribed : BOOLEAN, latest : Consents, at : Nat]
    /\ tenant \in [enabled : BOOLEAN, held : BOOLEAN, domainHeld : BOOLEAN, open : BOOLEAN]
    /\ sent \in Nat
    /\ controls \in 0..MaxControls
    /\ gateWriter \in [GateWriters -> WriteRequest]
    /\ gateSender \in [GateSenders -> SendRequest]
    /\ closed \subseteq Bars

\* Of a request that is not under way only that matters.
Writer(step) == [step |-> step, kind |-> "grant", reason |-> "other", row |-> NoRow,
                 seen |-> "none", subscribed |-> FALSE, at |-> 0, calm |-> TRUE]
Sender(step) == [step |-> step, stream |-> "transactional", path |-> "api",
                 enabled |-> TRUE, barred |-> {}]

GateInit ==
    /\ listed = [r \in SuppressionRows |-> "none"]
    /\ consent = [subscribed |-> TRUE, latest |-> "granted", at |-> 0]
    /\ tenant = [enabled |-> TRUE, held |-> FALSE, domainHeld |-> FALSE, open |-> TRUE]
    /\ sent \in 0..SendQuota
    /\ controls = 0
    /\ gateWriter = [w \in GateWriters |-> Writer("idle")]
    /\ gateSender = [q \in GateSenders |-> Sender("idle")]
    /\ closed = {}

ListedRows == {r \in SuppressionRows : listed[r] # "none"}

\* An opening lifts the bar of the requests to send that are under way, too.
Lifted(bars) ==
    /\ closed' = closed \ bars
    /\ gateSender' = [q \in GateSenders |-> [gateSender[q] EXCEPT !.barred = @ \ bars]]

-------------------------------------------------------------------------------
(* Suppressions and consents. *)

WritersUnderWay(kinds) ==
    {w \in GateWriters : gateWriter[w].step = "read" /\ gateWriter[w].kind \in kinds}

\* A refusal in the time of a request that gives, and whatever happens in the
\* time of a deletion, may not be the last word.
Opening == Giving \union {"delete"}

\* Of several suppressions any is found. A consent is dated as it is flushed,
\* before the preference is read.
WriterReads(w, kind, reason) ==
    \E r \in IF ListedRows = {} \/ kind \notin Listing THEN {NoRow} ELSE ListedRows :
        /\ gateWriter[w].step = "idle"
        /\ kind = "delete" => r # NoRow
        /\ gateWriter' = [v \in GateWriters |->
             IF v = w
             THEN [step |-> "read", kind |-> kind, reason |-> reason, row |-> r,
                   seen |-> IF r = NoRow THEN "none" ELSE listed[r],
                   subscribed |-> consent.subscribed,
                   at |-> 1 + Cardinality({u \in GateWriters : gateWriter[u].step # "idle"}),
                   calm |-> WritersUnderWay(Opening) = {}]
             ELSE [gateWriter[v] EXCEPT !.calm = @ /\ kind \notin Opening]]
        /\ IF kind \in Giving THEN Lifted({"consent"}) ELSE UNCHANGED <<closed, gateSender>>
        /\ UNCHANGED <<listed, consent, tenant, sent, controls>>

\* What the request leaves in the suppression it read.
Unsubscribed(seen) == IF seen \in KeptReasons THEN seen ELSE "unsubscribe"

Reworded(w) ==
    LET me == gateWriter[w] IN
    CASE me.kind = "unsubscribe" -> Unsubscribed(me.seen)
      [] me.kind = "bounce"      -> "bounced"
      [] me.kind = "upsert"      -> me.reason
      [] OTHER                   -> me.seen

NewReason(w) == IF gateWriter[w].kind = "revoke" THEN "revoked" ELSE Reworded(w)

WritesListing(w) ==
    LET me == gateWriter[w] IN
    IF me.kind \notin Listing THEN UNCHANGED listed
    ELSE IF me.row = NoRow
    THEN \E r \in SuppressionRows \ ListedRows : listed' = [listed EXCEPT ![r] = NewReason(w)]
    ELSE IF me.kind = "delete" THEN listed' = [listed EXCEPT ![me.row] = "none"]
    ELSE IF Reworded(w) # me.seen THEN listed' = [listed EXCEPT ![me.row] = Reworded(w)]
    ELSE UNCHANGED listed

ConsentOf(kind) ==
    CASE kind = "grant"  -> "granted"
      [] kind = "revoke" -> "revoked"
      [] OTHER           -> "pending"

\* A preference that is as it was read is not written.
WritesConsent(w) ==
    LET me == gateWriter[w]
        gives == me.kind \in Giving
        later == me.kind \in {"grant", "revoke", "pending"} /\ me.at >= consent.at IN
    IF me.kind \notin Giving \union Taking THEN UNCHANGED consent
    ELSE consent' =
        [subscribed |-> IF me.subscribed # gives THEN gives ELSE consent.subscribed,
         latest |-> IF later THEN ConsentOf(me.kind) ELSE consent.latest,
         at |-> IF later THEN me.at ELSE consent.at]

WriterCommits(w) ==
    LET me == gateWriter[w] IN
    /\ me.step = "read"
    /\ me.row # NoRow => listed[me.row] # "none"
    /\ WritesListing(w)
    /\ WritesConsent(w)
    /\ gateWriter' = [gateWriter EXCEPT ![w] = Writer("done")]
    /\ IF me.kind = "delete" THEN Lifted({"optOut", "bounce"})
       ELSE IF me.kind = "upsert" THEN Lifted({"bounce"})
       ELSE /\ closed' = closed \union
                 (IF me.calm /\ me.kind \in {"unsubscribe", "revoke"} THEN {"optOut"} ELSE {})
                 \union (IF me.calm /\ me.kind \in Taking THEN {"consent"} ELSE {})
                 \union (IF me.calm /\ me.kind = "bounce" THEN {"bounce"} ELSE {})
            /\ UNCHANGED gateSender
    /\ UNCHANGED <<tenant, sent, controls>>

\* The row was deleted since it was read: one that is to be written fails the
\* request, one that was only read does not matter to it.
WriterLosesRow(w) ==
    LET me == gateWriter[w] IN
    /\ me.step = "read" /\ me.row # NoRow /\ listed[me.row] = "none"
    /\ gateWriter' = [gateWriter EXCEPT ![w] = Writer("done")]
    /\ IF me.kind = "delete" \/ Reworded(w) # me.seen THEN UNCHANGED consent
       ELSE WritesConsent(w)
    /\ UNCHANGED <<listed, tenant, sent, controls, gateSender, closed>>

-------------------------------------------------------------------------------
(* Suspensions, by the platform's administrators, and the tenant's gate. *)

ControlChanges == controls < MaxControls /\ controls' = controls + 1

SuspendTenant ==
    /\ ~tenant.held
    /\ ControlChanges
    /\ tenant' = [tenant EXCEPT !.held = TRUE, !.enabled = FALSE]
    /\ closed' = closed \union {"tenant"}
    /\ UNCHANGED <<listed, consent, sent, gateWriter, gateSender>>

ReleaseTenant ==
    /\ tenant.held
    /\ ControlChanges
    /\ tenant' = [tenant EXCEPT !.held = FALSE, !.enabled = TRUE]
    /\ Lifted({"tenant"})
    /\ UNCHANGED <<listed, consent, sent, gateWriter>>

\* A critical alert disables the tenant and leaves no suspension to release.
AbuseIsCritical ==
    /\ tenant.enabled
    /\ ControlChanges
    /\ tenant' = [tenant EXCEPT !.enabled = FALSE]
    /\ closed' = closed \union {"tenant"}
    /\ UNCHANGED <<listed, consent, sent, gateWriter, gateSender>>

SuspendDomain ==
    /\ ~tenant.domainHeld
    /\ ControlChanges
    /\ tenant' = [tenant EXCEPT !.domainHeld = TRUE]
    /\ closed' = closed \union {"domain"}
    /\ UNCHANGED <<listed, consent, sent, gateWriter, gateSender>>

ReleaseDomain ==
    /\ tenant.domainHeld
    /\ ControlChanges
    /\ tenant' = [tenant EXCEPT !.domainHeld = FALSE]
    /\ Lifted({"domain"})
    /\ UNCHANGED <<listed, consent, sent, gateWriter>>

SetSendGate(open) ==
    /\ tenant.open # open
    /\ ControlChanges
    /\ tenant' = [tenant EXCEPT !.open = open]
    /\ IF open THEN Lifted({"sendGate"})
       ELSE closed' = closed \union {"sendGate"} /\ UNCHANGED gateSender
    /\ UNCHANGED <<listed, consent, sent, gateWriter>>

-------------------------------------------------------------------------------
(* Requests to send. *)

\* What binds a request that begins now: of a marketing message every bar; a
\* suspended domain on the path that asks enforce_delivery_controls.
BarsFor(stream, path) ==
    {b \in closed : /\ b \in {"optOut", "consent"} => stream = "marketing"
                    /\ b = "domain" => path = "api"}
        \union (IF sent >= SendQuota THEN {"quota"} ELSE {})

\* auth finds the tenant, and the session keeps it for the whole request.
SenderBegins(q, stream, path) ==
    /\ gateSender[q].step = "idle"
    /\ gateSender' = [gateSender EXCEPT ![q] =
         [step |-> "begun", stream |-> stream, path |-> path,
          enabled |-> tenant.enabled, barred |-> BarsFor(stream, path)]]
    /\ UNCHANGED <<listed, consent, tenant, sent, controls, gateWriter, closed>>

\* Faulty: an unsubscription does not stop marketing.
SuppressedHardOnly(stream, reason) == reason \in HardReasons
Suppressed(stream, reason) ==
    reason # "none" /\ (reason \in HardReasons \/ stream = "marketing")

Consented(stream) ==
    stream = "marketing" => consent.subscribed /\ consent.latest = "granted"

Controlled(path) == path = "api" => ~tenant.held /\ ~tenant.domainHeld

WithinQuota == sent < SendQuota

SenderIsChecked(q) ==
    LET me == gateSender[q] IN
    \E r \in IF ListedRows = {} THEN {NoRow} ELSE ListedRows :
        /\ me.step = "begun"
        /\ gateSender' = [gateSender EXCEPT ![q] =
             IF /\ me.enabled /\ tenant.open
                /\ r # NoRow => ~Suppressed(me.stream, listed[r])
                /\ Consented(me.stream) /\ Controlled(me.path) /\ WithinQuota
             THEN [me EXCEPT !.step = "passed"] ELSE Sender("refused")]
        /\ UNCHANGED <<listed, consent, tenant, sent, controls, gateWriter, closed>>

SenderIsAdmitted(q) ==
    /\ gateSender[q].step = "passed"
    /\ gateSender' = [gateSender EXCEPT ![q].step = "admitted"]
    /\ sent' = sent + 1
    /\ UNCHANGED <<listed, consent, tenant, controls, gateWriter, closed>>

GateNext ==
    \/ \E w \in GateWriters :
          \/ WriterCommits(w) \/ WriterLosesRow(w)
          \/ \E kind \in WriteKinds \ {"upsert"} : WriterReads(w, kind, "other")
          \/ \E reason \in GivenReasons : WriterReads(w, "upsert", reason)
    \/ SuspendTenant \/ ReleaseTenant \/ AbuseIsCritical \/ SuspendDomain \/ ReleaseDomain
    \/ \E open \in BOOLEAN : SetSendGate(open)
    \/ \E q \in GateSenders :
          \/ SenderIsChecked(q) \/ SenderIsAdmitted(q)
          \/ \E stream \in {"marketing", "transactional"}, path \in {"api", "provider"} :
                SenderBegins(q, stream, path)

GateSpec == GateInit /\ [][GateNext]_gateVars

-------------------------------------------------------------------------------
\* What was closed and answered binds every request to send that begins later,
\* until it is opened again: after an unsubscription, a refused preference or a
\* revoked consent no marketing, after a suspension nothing, over the quota nothing, although the
\* gates are read without a lock and suppressions may be doubled ("Marketing
\* requires recorded consent and current preference", docs/SECURITY.md). The
\* suppression after a bounce is not among it: see BouncedStaysSuppressed.
ClosedGatesBind ==
    \A q \in GateSenders :
        gateSender[q].step = "admitted" => gateSender[q].barred \subseteq {"bounce"}

\* "hard-bounce and complaint safety suppression applies across streams"
\* (docs/KLYROW_SUPPRESSION_ENGINE.md): once a bounce has suppressed a recipient,
\* nothing that begins later is sent to them, unless an operator has deleted or
\* rewritten the suppression since. The code breaks this: an unsubscription
\* takes the reason "bounced" for a soft one and replaces it.
BouncedStaysSuppressed ==
    \A q \in GateSenders :
        gateSender[q].step = "admitted" => "bounce" \notin gateSender[q].barred
===============================================================================
