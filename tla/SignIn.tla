------------------------------- MODULE SignIn -------------------------------
(* Signing in with the identity provider: authorization flows, the callback   *)
(* that spends a flow on a browser session, step-up, refresh, the switch of   *)
(* workspace and logout (auth_bff.py, browser_auth_actions.py,                *)
(* browser_security_fixes.py, browser_step_up_*.py,                           *)
(* browser_flow_cookie_authority.py).  The sessions are those of one user.    *)
(*                                                                            *)
(* A request that waits for the provider holds nothing it has read: the flow  *)
(* and the session it found may be spent or revoked by the time it goes on.   *)
EXTENDS Naturals, FiniteSets

CONSTANTS
  Browsers,         \* cookie jars
  Flows,            \* rows of oidc_login_transactions
  Sessions,         \* rows of browser_sessions, numbered 1 .. n
  SignInRequests,   \* requests under way
  NoFlow, NoBrowser, NoSession,
  SessionTTL,       \* _session_ttl, in ticks of the clock
  LastTick          \* bound on the clock

ASSUME SessionsAreNumbered ==
  /\ Sessions \subseteq Nat \ {0} /\ \A s \in Sessions : 1 .. s \subseteq Sessions
  /\ 1 \in Sessions /\ NoSession = 0 /\ NoFlow \notin Flows /\ SessionTTL \in Nat \ {0} /\ LastTick \in Nat

VARIABLES
  flow,      \* the flows: their mode and browser, the session a step-up renews
  session,   \* the sessions: their deadline and the flow or session they stem from
  cookie,    \* the session cookie each browser holds
  request,   \* the requests: what each is doing and the rows it read
  clock

signInVars == <<flow, session, cookie, request, clock>>

Flow ==
  [mode : {"login", "step-up"}, browser : Browsers \cup {NoBrowser},
   parent : Sessions \cup {NoSession}, state : {"none", "open", "used", "expired"}]

BrowserSession ==
  [state : {"none", "live", "revoked"}, deadline : Nat,
   flow : Flows \cup {NoFlow}, parent : Sessions \cup {NoSession}]

SignInRequest ==
  [step : {"idle", "exchanging", "refreshing", "revoked", "issued"},
   browser : Browsers \cup {NoBrowser}, flow : Flows \cup {NoFlow},
   session : Sessions \cup {NoSession}, new : Sessions \cup {NoSession}]

NotAsked == [step |-> "idle", browser |-> NoBrowser, flow |-> NoFlow,
             session |-> NoSession, new |-> NoSession]

SignInTypeOK ==
  /\ flow \in [Flows -> Flow]
  /\ session \in [Sessions -> BrowserSession]
  /\ cookie \in [Browsers -> Sessions \cup {NoSession}]
  /\ request \in [SignInRequests -> SignInRequest]
  /\ clock \in 0 .. LastTick

(* A browser is signed in: session 1, whose own flow is forgotten.            *)
SignInInit ==
  /\ flow = [f \in Flows |->
       [mode |-> "login", browser |-> NoBrowser, parent |-> NoSession, state |-> "none"]]
  /\ session = [s \in Sessions |->
       [state |-> IF s = 1 THEN "live" ELSE "none", flow |-> NoFlow, parent |-> NoSession,
        deadline |-> IF s = 1 THEN SessionTTL ELSE 0]]
  /\ \E b \in Browsers : cookie = [c \in Browsers |-> IF c = b THEN 1 ELSE NoSession]
  /\ request = [q \in SignInRequests |-> NotAsked]
  /\ clock = 0

Alive(s) == session[s].state = "live" /\ session[s].deadline > clock
SignedIn(b) == cookie[b] # NoSession /\ Alive(cookie[b])

(* The id the next session gets: uuids never collide. *)
NextSession == {s \in Sessions : /\ session[s].state = "none"
                                 /\ \A t \in 1 .. s - 1 : session[t].state # "none"}

Earlier(x, y) == IF x < y THEN x ELSE y

(* The response reaches the browser and sets its cookie, or is lost.          *)
Answer(b, s) == cookie' \in {cookie, [cookie EXCEPT ![b] = s]}

RequestDone(q) == request' = [request EXCEPT ![q] = NotAsked]

-----------------------------------------------------------------------------
(* Flows.  The response that starts one binds it to its browser by a cookie.  *)

Begin(f, mode, b, parent) ==
  /\ flow[f].state = "none"
  /\ flow' = [flow EXCEPT ![f] =
       [mode |-> mode, browser |-> b, parent |-> parent, state |-> "open"]]
  /\ UNCHANGED <<session, cookie, request, clock>>

BeginLogin(b, f) == Begin(f, "login", b, NoSession)

BeginStepUp(b, f) == SignedIn(b) /\ Begin(f, "step-up", b, cookie[b])

FlowExpires(f) ==
  /\ flow[f].state = "open"
  /\ flow' = [flow EXCEPT ![f].state = "expired"]
  /\ UNCHANGED <<session, cookie, request, clock>>

(* A faulty callback: the flow is trusted as it was read before the exchange. *)
FlowAsRead(f) == f \in Flows

(* _claim_transaction: a compare-and-set, on the row as it is committed now.  *)
FlowIsOpen(f) == flow[f].state = "open"

Spent(f) == flow' = [flow EXCEPT ![f].state = "used"]

(* The callback finds the flow, sees the browser's flow cookie and goes to    *)
(* exchange the code; nothing is claimed yet.                                 *)
FlowComesBack(q, f) ==
  /\ request[q].step = "idle"
  /\ flow[f].state = "open"
  /\ request' = [request EXCEPT ![q] =
       [NotAsked EXCEPT !.step = "exchanging", !.browser = flow[f].browser, !.flow = f]]
  /\ UNCHANGED <<flow, session, cookie, clock>>

(* A callback that reports an error spends the flow and makes no session.     *)
CallbackReportsError(f) ==
  /\ FlowIsOpen(f)
  /\ Spent(f)
  /\ UNCHANGED <<session, cookie, request, clock>>

(* The code was refused, or the process died: nothing was claimed.            *)
RequestIsLost(q) ==
  /\ request[q].step # "idle"
  /\ RequestDone(q)
  /\ UNCHANGED <<flow, session, cookie, clock>>

(* One transaction: the claim, the locked session of a step-up, the new       *)
(* session, the end of the old one.  A step-up whose session is gone rolls    *)
(* everything back, the claim too.                                            *)
CallbackCompletes(q) ==
  LET f == request[q].flow
      parent == flow[f].parent IN
  /\ request[q].step = "exchanging"
  /\ RequestDone(q)
  /\ IF FlowIsOpen(f) /\ (parent # NoSession => Alive(parent))
     THEN \E s \in NextSession :
            LET made == [state |-> "live", flow |-> f, parent |-> parent,
                         deadline |-> IF parent = NoSession THEN clock + SessionTTL
                                      ELSE Earlier(clock + SessionTTL, session[parent].deadline)]
            IN /\ Spent(f)
               /\ session' = [t \in Sessions |->
                    IF t = s THEN made
                    ELSE IF t = parent THEN [session[t] EXCEPT !.state = "revoked"]
                    ELSE session[t]]
               /\ Answer(request[q].browser, s)
     ELSE UNCHANGED <<flow, session, cookie>>
  /\ UNCHANGED clock

-----------------------------------------------------------------------------
(* Refresh and the switch of workspace: the session is revoked in one         *)
(* transaction and its successor made in two more, the first with the full    *)
(* lifetime and the second with the deadline of the session it replaces.      *)

RefreshArrives(q, b) ==
  /\ request[q].step = "idle" /\ SignedIn(b)
  /\ request' = [request EXCEPT ![q] =
       [NotAsked EXCEPT !.step = "refreshing", !.browser = b, !.session = cookie[b]]]
  /\ UNCHANGED <<flow, session, cookie, clock>>

Revoke(S) == session' = [s \in Sessions |->
  IF s \in S /\ session[s].state = "live"
  THEN [session[s] EXCEPT !.state = "revoked"] ELSE session[s]]

(* The provider answers the refresh, or refuses it; either way the session    *)
(* read before the call is revoked, whatever it has become.                   *)
RefreshIsAnswered(q) ==
  /\ request[q].step = "refreshing"
  /\ Revoke({request[q].session})
  /\ \/ request' = [request EXCEPT ![q].step = "revoked"]
     \/ RequestDone(q)
  /\ UNCHANGED <<flow, cookie, clock>>

(* The switch holds its session exclusively from the check to the revocation. *)
SwitchArrives(q, b) ==
  /\ request[q].step = "idle" /\ SignedIn(b)
  /\ Revoke({cookie[b]})
  /\ request' = [request EXCEPT ![q] =
       [NotAsked EXCEPT !.step = "revoked", !.browser = b, !.session = cookie[b]]]
  /\ UNCHANGED <<flow, cookie, clock>>

SuccessorIsIssued(q) ==
  /\ request[q].step = "revoked"
  /\ session[request[q].session].deadline > clock
  /\ \E s \in NextSession :
       /\ session' = [session EXCEPT ![s] =
            [state |-> "live", deadline |-> clock + SessionTTL,
             flow |-> NoFlow, parent |-> request[q].session]]
       /\ request' = [request EXCEPT ![q].step = "issued", ![q].new = s]
  /\ UNCHANGED <<flow, cookie, clock>>

SuccessorIsCapped(q) ==
  LET s == request[q].new IN
  /\ request[q].step = "issued"
  /\ session' = [session EXCEPT ![s].deadline =
                   Earlier(@, session[request[q].session].deadline)]
  /\ Answer(request[q].browser, s)
  /\ RequestDone(q)
  /\ UNCHANGED <<flow, clock>>

-----------------------------------------------------------------------------
(* logout, and revoke_user_session or logout-all from any session of the user *)
Logout(b) ==
  /\ SignedIn(b)
  /\ Revoke({cookie[b]})
  /\ cookie' = [cookie EXCEPT ![b] = NoSession]
  /\ UNCHANGED <<flow, request, clock>>

RevokeOthers(b) ==
  /\ SignedIn(b)
  /\ \E S \in {Sessions} \cup {{s} : s \in Sessions} :
       Revoke(S) /\ session' # session
  /\ UNCHANGED <<flow, cookie, request, clock>>

ClockTicks ==
  /\ clock < LastTick
  /\ clock' = clock + 1
  /\ UNCHANGED <<flow, session, cookie, request>>

SignInNext ==
  \/ \E f \in Flows : \/ FlowExpires(f) \/ CallbackReportsError(f)
                      \/ \E b \in Browsers : BeginLogin(b, f) \/ BeginStepUp(b, f)
                      \/ \E q \in SignInRequests : FlowComesBack(q, f)
  \/ \E q \in SignInRequests :
       \/ CallbackCompletes(q) \/ RequestIsLost(q)
       \/ RefreshIsAnswered(q) \/ SuccessorIsIssued(q) \/ SuccessorIsCapped(q)
       \/ \E b \in Browsers : RefreshArrives(q, b) \/ SwitchArrives(q, b)
  \/ \E b \in Browsers : Logout(b) \/ RevokeOthers(b)
  \/ ClockTicks

SignInSpec == SignInInit /\ [][SignInNext]_signInVars

-----------------------------------------------------------------------------
(* A flow yields at most one session, however often its callback is called;   *)
(* a step-up ends the session it renews, so that two step-ups of one session  *)
(* cannot both succeed; and no session a browser holds outlives the one it    *)
(* was renewed from (oidc_callback,                                           *)
(* _claim_transaction, stage_new_session_with_parent_deadline,                *)
(* _new_session_with_stable_csrf).                                            *)
FlowYieldsOneSession ==
  LET steppedUp == {s \in Sessions : session[s].flow # NoFlow /\ session[s].parent # NoSession} IN
  /\ \A f \in Flows : Cardinality({s \in Sessions : session[s].flow = f}) <= 1
  /\ \A s \in steppedUp : session[session[s].parent].state = "revoked"
  /\ \A s, t \in steppedUp : session[s].parent = session[t].parent => s = t
  /\ \A b \in Browsers : cookie[b] # NoSession =>
       LET held == session[cookie[b]] IN
       held.parent # NoSession => held.deadline <= session[held.parent].deadline
=============================================================================
