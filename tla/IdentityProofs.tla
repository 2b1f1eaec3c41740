---------------------------- MODULE IdentityProofs ----------------------------
(***************************************************************************)
(* Proofs about Accounts, for any browsers, flows, sessions, subjects,     *)
(* members, credentials and requests: what is made at a sign-in is made    *)
(* once, and members and credentials act with the authority they have now. *)
(***************************************************************************)
EXTENDS Accounts, FiniteSetTheorems, TLAPS

-------------------------------------------------------------------------------
(***************************************************************************)
(* Browser sessions. A browser knows only sessions that were made and have *)
(* got their deadline, and a flow is spent by the session that names it.   *)
(***************************************************************************)

\* A session that a browser may know of: it was made, and is not the successor
\* that a request has yet to give its deadline.
Shown(s) ==
    /\ session[s].state # "none"
    /\ \A q \in SignInRequests : request[q].step = "issued" => request[q].new # s

Capped(s) ==
    session[s].parent # NoSession => session[s].deadline <= session[session[s].parent].deadline

SteppedUp(s) == session[s].flow # NoFlow /\ session[s].parent # NoSession

CookiesAreRight ==
    \A b \in Browsers : cookie[b] # NoSession => Shown(cookie[b]) /\ Capped(cookie[b])

FlowsAreRight == \A f \in Flows : flow[f].parent # NoSession => Shown(flow[f].parent)

SessionsAreRight ==
    \A s \in Sessions :
        /\ session[s].parent # NoSession => Shown(session[s].parent)
        /\ session[s].flow # NoFlow => flow[session[s].flow].state = "used"
        /\ SteppedUp(s) => session[session[s].parent].state = "revoked"

FlowsAreSpentOnce ==
    \A s, t \in Sessions : session[s].flow # NoFlow /\ session[s].flow = session[t].flow => s = t

SessionsAreRenewedOnce ==
    \A s, t \in Sessions : SteppedUp(s) /\ SteppedUp(t) /\ session[s].parent = session[t].parent => s = t

\* What a request holds; the successor it makes is its own, and nobody's parent.
SignInRequestIsRight(q) ==
    LET me == request[q]
    IN /\ me.step = "exchanging" => me.flow \in Flows
       /\ me.step \in {"refreshing", "revoked", "issued"} => me.session \in Sessions /\ Shown(me.session)
       /\ me.step = "issued" =>
             /\ me.new \in Sessions /\ session[me.new].state # "none"
             /\ session[me.new].parent = me.session /\ session[me.new].flow = NoFlow

SignInRequestsAreRight == \A q \in SignInRequests : SignInRequestIsRight(q)

SuccessorsDiffer ==
    \A q, p \in SignInRequests :
        q # p /\ request[q].step = "issued" /\ request[p].step = "issued" =>
            request[q].new # request[p].new

SignInInv ==
    /\ SignInTypeOK /\ CookiesAreRight /\ FlowsAreRight /\ SessionsAreRight
    /\ FlowsAreSpentOnce /\ SessionsAreRenewedOnce /\ SignInRequestsAreRight /\ SuccessorsDiffer

-------------------------------------------------------------------------------
(* Steps that make no session. *)

\* No session is made: some are revoked, and keep what they stem from.
SessionKept(s) ==
    /\ session'[s].flow = session[s].flow /\ session'[s].parent = session[s].parent
    /\ session'[s].deadline = session[s].deadline
    /\ \/ session'[s].state = session[s].state
       \/ session[s].state = "live" /\ session'[s].state = "revoked"

\* A request goes on with what it had, or begins with a session it was shown.
GoesOn(q) ==
    \/ request'[q] = request[q]
    \/ request'[q].step = "idle"
    \/ request'[q].step = "exchanging" /\ request'[q].flow \in Flows
    \/ /\ request'[q].step \in {"refreshing", "revoked"}
       /\ request'[q].session \in Sessions /\ Shown(request'[q].session)

LEMMA NumberedSessions ==
  /\ Sessions \subseteq Nat /\ NoSession \notin Sessions /\ NoFlow \notin Flows
  /\ SessionTTL \in Nat /\ LastTick \in Nat /\ 1 \in Sessions
BY SessionsAreNumbered

LEMMA OldSessions ==
  ASSUME SignInInv, SignInTypeOK', \A s \in Sessions : SessionKept(s),
         \A q \in SignInRequests : GoesOn(q),
         \A b \in Browsers : cookie'[b] \in {cookie[b], NoSession},
         \A f \in Flows : /\ flow[f].state = "used" => flow'[f].state = "used"
                          /\ flow'[f].parent # NoSession =>
                                flow'[f].parent \in Sessions /\ Shown(flow'[f].parent)
  PROVE  SignInInv'
<1>1. SignInTypeOK
  BY DEF SignInInv
<1>2. ASSUME NEW s \in Sessions, Shown(s) PROVE Shown(s)'
  <2>1. session'[s].state # "none"
    BY <1>2 DEF SessionKept, Shown
  <2>2. ASSUME NEW q \in SignInRequests, request'[q].step = "issued"
        PROVE  request'[q].new # s
    BY <1>2, <2>2 DEF GoesOn, Shown
  <2>3. QED
    BY <2>1, <2>2 DEF Shown
<1>3. \A s \in Sessions : session[s].parent \in Sessions \cup {NoSession}
  BY <1>1 DEF SignInTypeOK, BrowserSession
<1>4. CookiesAreRight'
  <2> SUFFICES ASSUME NEW b \in Browsers, cookie'[b] # NoSession
               PROVE  Shown(cookie[b])' /\ Capped(cookie[b])'
    BY DEF CookiesAreRight
  <2>1. cookie'[b] = cookie[b] /\ cookie[b] \in Sessions /\ Shown(cookie[b]) /\ Capped(cookie[b])
    BY <1>1 DEF SignInInv, CookiesAreRight, SignInTypeOK
  <2>2. PICK s \in Sessions : s = cookie[b]
    BY <2>1
  <2>3. Shown(s)' /\ Shown(s) /\ Capped(s)
    BY <1>2, <2>1, <2>2
  <2>4. session[s].parent # NoSession => session[s].parent \in Sessions /\ SessionKept(session[s].parent)
    BY <1>3
  <2>5. Capped(s)'
    BY <2>3, <2>4 DEF Capped, SessionKept
  <2>6. QED
    BY <2>1, <2>2, <2>3, <2>5 DEF Shown, Capped
<1>5. FlowsAreRight'
  BY <1>2 DEF FlowsAreRight
<1>6. SessionsAreRight'
  <2> SUFFICES ASSUME NEW s \in Sessions
               PROVE  /\ session'[s].parent # NoSession => Shown(session[s].parent)'
                      /\ session'[s].flow # NoFlow => flow'[session'[s].flow].state = "used"
                      /\ SteppedUp(s)' => session'[session'[s].parent].state = "revoked"
    BY DEF SessionsAreRight
  <2>1. /\ session[s].parent # NoSession => Shown(session[s].parent)
        /\ session[s].flow # NoFlow => flow[session[s].flow].state = "used"
        /\ SteppedUp(s) => session[session[s].parent].state = "revoked"
        /\ session'[s].flow = session[s].flow /\ session'[s].parent = session[s].parent
        /\ session[s].flow \in Flows \cup {NoFlow}
    BY <1>1 DEF SignInInv, SessionsAreRight, SessionKept, SignInTypeOK, BrowserSession
  <2>2. session'[s].flow # NoFlow => flow'[session'[s].flow].state = "used"
    BY <2>1
  <2>3. session[s].parent # NoSession => session[s].parent \in Sessions /\ SessionKept(session[s].parent)
    BY <1>3
  <2>4. SteppedUp(s)' => session'[session'[s].parent].state = "revoked"
    BY <2>1, <2>3 DEF SteppedUp, SessionKept
  <2>5. session'[s].parent # NoSession => Shown(session[s].parent)'
    <3>1. CASE session[s].parent = NoSession
      BY <2>1, <3>1
    <3>2. CASE session[s].parent # NoSession
      <4>1. PICK p \in Sessions : p = session[s].parent
        BY <2>3, <3>2
      <4>2. Shown(p)'
        BY <1>2, <2>1, <3>2, <4>1
      <4>3. QED
        BY <2>1, <4>1, <4>2 DEF Shown
    <3>3. QED
      BY <3>1, <3>2
  <2>6. QED
    BY <2>2, <2>4, <2>5
<1>7. FlowsAreSpentOnce'
  BY DEF SignInInv, FlowsAreSpentOnce, SessionKept
<1>8. SessionsAreRenewedOnce'
  BY DEF SignInInv, SessionsAreRenewedOnce, SessionKept, SteppedUp
<1>9. SignInRequestsAreRight'
  <2> SUFFICES ASSUME NEW q \in SignInRequests PROVE SignInRequestIsRight(q)'
    BY DEF SignInRequestsAreRight
  <2>1. CASE request'[q] = request[q]
    <3>1. SignInRequestIsRight(q)
      BY DEF SignInInv, SignInRequestsAreRight
    <3>2. request[q].step = "issued" => session'[request[q].new].state # "none"
          /\ session'[request[q].new].parent = request[q].session
          /\ session'[request[q].new].flow = NoFlow
      BY <3>1 DEF SignInRequestIsRight, SessionKept
    <3>3. QED
      BY <1>2, <2>1, <3>1, <3>2 DEF SignInRequestIsRight
  <2>2. CASE request'[q] # request[q]
    BY <1>2, <2>2 DEF GoesOn, SignInRequestIsRight
  <2>3. QED
    BY <2>1, <2>2
<1>10. SuccessorsDiffer'
  BY DEF SignInInv, SuccessorsDiffer, GoesOn
<1>11. QED
  BY <1>4, <1>5, <1>6, <1>7, <1>8, <1>9, <1>10 DEF SignInInv

\* Nothing but the flows, or nothing but the requests, or the clock.
LEMMA FlowStep ==
  ASSUME SignInInv, UNCHANGED <<session, cookie, request, clock>>, NEW f \in Flows,
         flow' \in [Flows -> Flow], \A g \in Flows \ {f} : flow'[g] = flow[g],
         flow[f].state = "used" => flow'[f].state = "used",
         flow'[f].parent # NoSession => flow'[f].parent \in Sessions /\ Shown(flow'[f].parent)
  PROVE  SignInInv'
<1>1. SignInTypeOK /\ FlowsAreRight
  BY DEF SignInInv
<1>2. SignInTypeOK'
  BY <1>1 DEF SignInTypeOK
<1>3. \A s \in Sessions : SessionKept(s)
  BY DEF SessionKept
<1>4. \A q \in SignInRequests : GoesOn(q)
  BY DEF GoesOn
<1>5. \A g \in Flows : /\ flow[g].state = "used" => flow'[g].state = "used"
                       /\ flow'[g].parent # NoSession =>
                                flow'[g].parent \in Sessions /\ Shown(flow'[g].parent)
  <2>1. \A g \in Flows : flow[g].parent \in Sessions \cup {NoSession}
    BY <1>1 DEF SignInTypeOK, Flow
  <2>2. QED
    BY <1>1, <2>1 DEF FlowsAreRight
<1>6. QED
  BY <1>2, <1>3, <1>4, <1>5, OldSessions

LEMMA FlowsStep ==
  ASSUME SignInInv, NEW f \in Flows,
         \/ FlowExpires(f) \/ CallbackReportsError(f)
         \/ \E b \in Browsers : BeginLogin(b, f) \/ BeginStepUp(b, f)
  PROVE  SignInInv'
<1>1. SignInTypeOK /\ FlowsAreRight /\ flow[f] \in Flow
      /\ flow[f].parent \in Sessions \cup {NoSession}
  BY DEF SignInInv, SignInTypeOK, Flow
<1>2. ASSUME NEW state \in {"used", "expired"}, flow[f].state # "used",
             flow' = [flow EXCEPT ![f].state = state],
             UNCHANGED <<session, cookie, request, clock>>
      PROVE  SignInInv'
  <2>1. flow' = [flow EXCEPT ![f] = [flow[f] EXCEPT !.state = state]]
    BY <1>1, <1>2 DEF SignInTypeOK, SignInInv
  <2>2. [flow[f] EXCEPT !.state = state] \in Flow
        /\ [flow[f] EXCEPT !.state = state].parent = flow[f].parent
    BY <1>1 DEF Flow
  <2>3. flow' \in [Flows -> Flow] /\ flow'[f].parent = flow[f].parent
        /\ \A g \in Flows \ {f} : flow'[g] = flow[g]
    BY <1>1, <2>1, <2>2 DEF SignInTypeOK
  <2>4. QED
    BY <1>1, <1>2, <2>3, FlowStep DEF FlowsAreRight
<1>3. CASE FlowExpires(f) \/ CallbackReportsError(f)
  <2>1. flow[f].state = "open" /\ UNCHANGED <<session, cookie, request, clock>>
    BY <1>3 DEF FlowExpires, CallbackReportsError, FlowIsOpen
  <2>2. PICK state \in {"used", "expired"} : flow' = [flow EXCEPT ![f].state = state]
    BY <1>3 DEF FlowExpires, CallbackReportsError, Spent
  <2>3. QED
    BY <1>2, <2>1, <2>2
<1>4. ASSUME NEW b \in Browsers, BeginLogin(b, f) \/ BeginStepUp(b, f) PROVE SignInInv'
  <2>1. PICK mode \in {"login", "step-up"}, parent \in Sessions \cup {NoSession} :
          /\ parent # NoSession => parent = cookie[b] /\ cookie[b] # NoSession
          /\ Begin(f, mode, b, parent)
    <3>1. CASE BeginLogin(b, f)
      BY <3>1 DEF BeginLogin
    <3>2. CASE BeginStepUp(b, f)
      BY <1>1, <3>2 DEF BeginStepUp, SignedIn, SignInTypeOK
    <3>3. QED
      BY <1>4, <3>1, <3>2
  <2> DEFINE new == [mode |-> mode, browser |-> b, parent |-> parent, state |-> "open"]
  <2>2. new \in Flow /\ new.parent = parent
    BY DEF Flow
  <2>3. flow[f].state = "none" /\ flow' = [flow EXCEPT ![f] = new]
        /\ UNCHANGED <<session, cookie, request, clock>>
    BY <2>1 DEF Begin
  <2> HIDE DEF new
  <2>4. flow' \in [Flows -> Flow] /\ flow'[f].parent = parent
        /\ \A g \in Flows \ {f} : flow'[g] = flow[g]
    BY <1>1, <2>2, <2>3 DEF SignInTypeOK
  <2>5. parent # NoSession => parent \in Sessions /\ Shown(parent)
    BY <2>1 DEF SignInInv, CookiesAreRight
  <2>6. QED
    BY <2>3, <2>4, <2>5, FlowStep
<1>5. QED
  BY <1>3, <1>4

\* One request moves, and sessions may be revoked.
LEMMA SignInRequestStep ==
  ASSUME SignInInv, UNCHANGED <<flow, clock>>, cookie' \in [Browsers -> Sessions \cup {NoSession}],
         \A b \in Browsers : cookie'[b] \in {cookie[b], NoSession},
         session' \in [Sessions -> BrowserSession], \A s \in Sessions : SessionKept(s),
         request' \in [SignInRequests -> SignInRequest],
         \A q \in SignInRequests : GoesOn(q)
  PROVE  SignInInv'
<1>1. SignInTypeOK'
  BY DEF SignInInv, SignInTypeOK
<1>2. \A f \in Flows : /\ flow[f].state = "used" => flow'[f].state = "used"
                       /\ flow'[f].parent # NoSession =>
                                flow'[f].parent \in Sessions /\ Shown(flow'[f].parent)
  BY DEF SignInInv, FlowsAreRight, SignInTypeOK, Flow
<1>3. QED
  BY <1>1, <1>2, OldSessions

LEMMA RevokeKeeps ==
  ASSUME SignInInv, NEW S, Revoke(S)
  PROVE  session' \in [Sessions -> BrowserSession] /\ \A s \in Sessions : SessionKept(s)
<1>1. ASSUME NEW s \in Sessions
      PROVE  session'[s] \in BrowserSession /\ SessionKept(s)
  <2>1. session[s] \in BrowserSession
    BY DEF SignInInv, SignInTypeOK
  <2>2. CASE s \in S /\ session[s].state = "live"
    <3>1. session'[s] = [session[s] EXCEPT !.state = "revoked"]
      BY <2>2 DEF Revoke
    <3>2. QED
      BY <2>1, <2>2, <3>1 DEF BrowserSession, SessionKept
  <2>3. CASE ~ (s \in S /\ session[s].state = "live")
    BY <2>1, <2>3 DEF Revoke, SessionKept
  <2>4. QED
    BY <2>2, <2>3
<1>2. session' = [s \in Sessions |-> session'[s]]
  BY DEF Revoke
<1>3. QED
  BY <1>1, <1>2

LEMMA NotAskedType ==
  /\ NotAsked \in SignInRequest /\ NotAsked.step = "idle"
BY DEF NotAsked, SignInRequest

LEMMA NothingMoves ==
  ASSUME SignInInv
  PROVE  /\ session' = session => session' \in [Sessions -> BrowserSession] /\ \A s \in Sessions : SessionKept(s)
         /\ cookie' = cookie => /\ cookie' \in [Browsers -> Sessions \cup {NoSession}]
                               /\ \A b \in Browsers : cookie'[b] \in {cookie[b], NoSession}
         /\ request' = request => /\ request' \in [SignInRequests -> SignInRequest]
                                 /\ \A q \in SignInRequests : GoesOn(q)
BY DEF SignInInv, SignInTypeOK, SessionKept, GoesOn

LEMMA RequestsStep ==
  ASSUME SignInInv, NEW q \in SignInRequests, NEW new, request' = [request EXCEPT ![q] = new],
         new \in SignInRequest,
         \/ new.step = "idle"
         \/ new.step = "exchanging" /\ new.flow \in Flows
         \/ new.step \in {"refreshing", "revoked"} /\ new.session \in Sessions /\ Shown(new.session)
  PROVE  request' \in [SignInRequests -> SignInRequest] /\ \A p \in SignInRequests : GoesOn(p)
BY DEF SignInInv, SignInTypeOK, GoesOn

LEMMA RequestSteps ==
  ASSUME SignInInv, NEW q \in SignInRequests,
         \/ \E f \in Flows : FlowComesBack(q, f)
         \/ RequestIsLost(q) \/ RefreshIsAnswered(q)
         \/ \E b \in Browsers : RefreshArrives(q, b) \/ SwitchArrives(q, b)
  PROVE  SignInInv'
<1>1. SignInTypeOK /\ request[q] \in SignInRequest /\ SignInRequestIsRight(q)
  BY DEF SignInInv, SignInTypeOK, SignInRequestsAreRight
<1>2. ASSUME NEW f \in Flows, FlowComesBack(q, f) PROVE SignInInv'
  <2> DEFINE new == [NotAsked EXCEPT !.step = "exchanging", !.browser = flow[f].browser, !.flow = f]
  <2>1. request' = [request EXCEPT ![q] = new] /\ UNCHANGED <<flow, session, cookie, clock>>
    BY <1>2 DEF FlowComesBack
  <2>2. new \in SignInRequest /\ new.step = "exchanging" /\ new.flow = f
    BY <1>1, NotAskedType DEF SignInRequest, SignInTypeOK, Flow
  <2> HIDE DEF new
  <2>3. QED
    BY <2>1, <2>2, RequestsStep, NothingMoves, SignInRequestStep
<1>3. ASSUME RequestDone(q), UNCHANGED <<flow, cookie, clock>>,
             session' = session \/ \E S \in SUBSET Sessions : Revoke(S)
      PROVE  SignInInv'
  <2>1. request' \in [SignInRequests -> SignInRequest] /\ \A p \in SignInRequests : GoesOn(p)
    BY <1>3, NotAskedType, RequestsStep DEF RequestDone
  <2>2. QED
    BY <1>3, <2>1, NothingMoves, RevokeKeeps, SignInRequestStep
<1>4. CASE RequestIsLost(q)
  BY <1>3, <1>4 DEF RequestIsLost
<1>5. CASE RefreshIsAnswered(q)
  <2>1. /\ request[q].step = "refreshing" /\ UNCHANGED <<flow, cookie, clock>>
        /\ request[q].session \in Sessions /\ Shown(request[q].session)
        /\ Revoke({request[q].session}) /\ {request[q].session} \in SUBSET Sessions
    BY <1>1, <1>5 DEF RefreshIsAnswered, SignInRequestIsRight
  <2>2. CASE request' = [request EXCEPT ![q].step = "revoked"]
    <3> DEFINE new == [request[q] EXCEPT !.step = "revoked"]
    <3>1. request' = [request EXCEPT ![q] = new]
      BY <1>1, <2>2 DEF SignInTypeOK
    <3>2. /\ new \in SignInRequest /\ new.step = "revoked"
          /\ new.session = request[q].session
      BY <1>1 DEF SignInRequest
    <3> HIDE DEF new
    <3>3. request' \in [SignInRequests -> SignInRequest] /\ \A p \in SignInRequests : GoesOn(p)
      BY <2>1, <3>1, <3>2, RequestsStep
    <3>4. QED
      BY <2>1, <3>3, NothingMoves, RevokeKeeps, SignInRequestStep
  <2>3. CASE RequestDone(q)
    BY <1>3, <2>1, <2>3
  <2>4. QED
    BY <1>5, <2>2, <2>3 DEF RefreshIsAnswered
<1>6. ASSUME NEW b \in Browsers, RefreshArrives(q, b) \/ SwitchArrives(q, b) PROVE SignInInv'
  <2> DEFINE new(step) == [NotAsked EXCEPT !.step = step, !.browser = b, !.session = cookie[b]]
  <2>1. /\ UNCHANGED <<flow, cookie, clock>>
        /\ session' = session \/ Revoke({cookie[b]})
        /\ cookie[b] \in Sessions /\ Shown(cookie[b])
    BY <1>1, <1>6
    DEF RefreshArrives, SwitchArrives, SignedIn, SignInTypeOK, SignInInv, CookiesAreRight
  <2>2. PICK step \in {"refreshing", "revoked"} : request' = [request EXCEPT ![q] = new(step)]
    BY <1>6 DEF RefreshArrives, SwitchArrives
  <2>3. /\ new(step) \in SignInRequest /\ new(step).step = step
        /\ new(step).session = cookie[b]
    BY <2>1, NotAskedType DEF SignInRequest
  <2> HIDE DEF new
  <2>4. request' \in [SignInRequests -> SignInRequest] /\ \A p \in SignInRequests : GoesOn(p)
    BY <2>1, <2>2, <2>3, RequestsStep
  <2>5. QED
    BY <2>1, <2>4, NothingMoves, RevokeKeeps, SignInRequestStep
<1>7. QED
  BY <1>2, <1>4, <1>5, <1>6

LEMMA BrowserSteps ==
  ASSUME SignInInv,
         \/ \E b \in Browsers : Logout(b) \/ RevokeOthers(b)
         \/ ClockTicks \/ UNCHANGED signInVars
  PROVE  SignInInv'
<1>1. SignInTypeOK
  BY DEF SignInInv
<1>2. ASSUME NEW b \in Browsers, Logout(b) \/ RevokeOthers(b) PROVE SignInInv'
  <2>1. PICK S : Revoke(S)
    BY <1>2 DEF Logout, RevokeOthers
  <2>2. /\ UNCHANGED <<flow, request, clock>>
        /\ cookie' = cookie \/ cookie' = [cookie EXCEPT ![b] = NoSession]
    BY <1>2 DEF Logout, RevokeOthers
  <2>3. cookie' \in [Browsers -> Sessions \cup {NoSession}]
        /\ \A c \in Browsers : cookie'[c] \in {cookie[c], NoSession}
    BY <1>1, <2>2 DEF SignInTypeOK
  <2>4. QED
    BY <2>1, <2>2, <2>3, NothingMoves, RevokeKeeps, SignInRequestStep
<1>3. CASE ClockTicks \/ UNCHANGED signInVars
  <2>1. UNCHANGED <<flow, session, cookie, request>>
    BY <1>3 DEF ClockTicks, signInVars
  <2>2. SignInTypeOK'
    BY <1>1, <1>3, <2>1, NumberedSessions DEF ClockTicks, signInVars, SignInTypeOK
  <2>3. /\ \A s \in Sessions : SessionKept(s)
        /\ \A q \in SignInRequests : GoesOn(q)
        /\ \A b \in Browsers : cookie'[b] \in {cookie[b], NoSession}
    BY <2>1 DEF SessionKept, GoesOn
  <2>4. \A f \in Flows : /\ flow[f].state = "used" => flow'[f].state = "used"
                         /\ flow'[f].parent # NoSession =>
                                flow'[f].parent \in Sessions /\ Shown(flow'[f].parent)
    BY <1>1, <2>1 DEF SignInInv, FlowsAreRight, SignInTypeOK, Flow
  <2>5. QED
    BY <2>2, <2>3, <2>4, OldSessions
<1>4. QED
  BY <1>2, <1>3

-------------------------------------------------------------------------------
(* Steps that make a session. *)

\* A session is made, or given its deadline, that nobody was shown before.
LEMMA NewSessionStep ==
  ASSUME SignInInv, SignInTypeOK', NEW n \in Sessions, ~ Shown(n),
         \A t \in Sessions \ {n} : SessionKept(t),
         \A f \in Flows : /\ flow[f].state = "used" => flow'[f].state = "used"
                          /\ flow'[f].parent = flow[f].parent,
         session'[n].state # "none",
         session'[n].parent # NoSession =>
             session'[n].parent \in Sessions /\ Shown(session'[n].parent),
         session'[n].flow # NoFlow =>
             /\ flow'[session'[n].flow].state = "used"
             /\ \A t \in Sessions \ {n} : session[t].flow # session'[n].flow,
         SteppedUp(n)' =>
             /\ session'[session'[n].parent].state = "revoked"
             /\ \A t \in Sessions \ {n} : SteppedUp(t) => session[t].parent # session'[n].parent,
         \A b \in Browsers : cookie'[b] = cookie[b] \/ (cookie'[b] = n /\ Shown(n)' /\ Capped(n)'),
         NEW q \in SignInRequests,
         \A p \in SignInRequests \ {q} :
             request'[p] = request[p] /\ (request[p].step = "issued" => request[p].new # n),
         \/ request'[q].step = "idle"
         \/ /\ request'[q].step = "issued" /\ request'[q].new = n
            /\ request'[q].session \in Sessions /\ Shown(request'[q].session)
            /\ session'[n].parent = request'[q].session /\ session'[n].flow = NoFlow
  PROVE  SignInInv'
<1>1. SignInTypeOK
  BY DEF SignInInv
<1>2. ASSUME NEW t \in Sessions, Shown(t) PROVE Shown(t)' /\ t # n
  <2>1. t # n /\ session'[t].state # "none"
    BY <1>2 DEF Shown, SessionKept
  <2>2. ASSUME NEW p \in SignInRequests, request'[p].step = "issued"
        PROVE  request'[p].new # t
    <3>1. CASE p = q
      BY <2>1, <2>2, <3>1
    <3>2. CASE p # q
      BY <1>2, <2>2, <3>2 DEF Shown
    <3>3. QED
      BY <3>1, <3>2
  <2>3. QED
    BY <2>1, <2>2 DEF Shown
<1>3. ASSUME NEW t \in Sessions, t # n
      PROVE  /\ SessionKept(t) /\ session[t].flow \in Flows \cup {NoFlow}
             /\ session[t].parent # NoSession =>
                   /\ session[t].parent \in Sessions /\ session[t].parent # n
                   /\ SessionKept(session[t].parent) /\ Shown(session[t].parent)'
  <2>1. /\ session[t].parent \in Sessions \cup {NoSession} /\ session[t].flow \in Flows \cup {NoFlow}
        /\ session[t].parent # NoSession => Shown(session[t].parent)
    BY <1>1 DEF SignInTypeOK, BrowserSession, SignInInv, SessionsAreRight
  <2>2. CASE session[t].parent # NoSession
    <3>1. PICK p \in Sessions : p = session[t].parent
      BY <2>1, <2>2
    <3>2. Shown(p)' /\ p # n
      BY <1>2, <2>1, <2>2, <3>1
    <3>3. session'[t].parent = session[t].parent
      BY <1>3 DEF SessionKept
    <3>4. Shown(session[t].parent)'
      BY <3>1, <3>2, <3>3 DEF Shown
    <3>5. QED
      BY <1>3, <2>1, <3>1, <3>2, <3>4
  <2>3. CASE session[t].parent = NoSession
    BY <1>3, <2>1, <2>3
  <2>4. QED
    BY <2>2, <2>3
<1>4. CookiesAreRight'
  <2> SUFFICES ASSUME NEW b \in Browsers, cookie'[b] # NoSession
               PROVE  Shown(cookie[b])' /\ Capped(cookie[b])'
    BY DEF CookiesAreRight
  <2>1. CASE cookie'[b] = n /\ Shown(n)' /\ Capped(n)'
    BY <2>1 DEF Shown, Capped
  <2>2. CASE cookie'[b] = cookie[b]
    <3>1. PICK t \in Sessions : t = cookie[b]
      BY <1>1, <2>2 DEF SignInTypeOK
    <3>2. Shown(t) /\ Capped(t)
      BY <2>2, <3>1 DEF SignInInv, CookiesAreRight
    <3>3. Shown(t)' /\ t # n
      BY <1>2, <3>2
    <3>4. Capped(t)'
      BY <1>3, <3>2, <3>3 DEF Capped, SessionKept
    <3>5. QED
      BY <2>2, <3>1, <3>3, <3>4 DEF Shown, Capped
  <2>3. QED
    BY <2>1, <2>2
<1>5. FlowsAreRight'
  <2> SUFFICES ASSUME NEW f \in Flows, flow'[f].parent # NoSession
               PROVE  Shown(flow[f].parent)'
    BY DEF FlowsAreRight
  <2>1. PICK p \in Sessions : p = flow[f].parent
    BY <1>1 DEF SignInTypeOK, Flow
  <2>2. Shown(p)'
    BY <1>2, <2>1 DEF SignInInv, FlowsAreRight
  <2>3. QED
    BY <2>1, <2>2 DEF Shown
<1>6. SessionsAreRight'
  <2> SUFFICES ASSUME NEW t \in Sessions
               PROVE  /\ session'[t].parent # NoSession => Shown(session[t].parent)'
                      /\ session'[t].flow # NoFlow => flow'[session'[t].flow].state = "used"
                      /\ SteppedUp(t)' => session'[session'[t].parent].state = "revoked"
    BY DEF SessionsAreRight
  <2>1. CASE t = n
    <3>1. session'[n].parent # NoSession => Shown(session[n].parent)'
      <4>1. CASE session'[n].parent = NoSession
        BY <4>1
      <4>2. CASE session'[n].parent # NoSession
        <5>1. PICK p \in Sessions : p = session'[n].parent
          BY <4>2
        <5>2. Shown(p)'
          BY <1>2, <4>2, <5>1
        <5>3. QED
          BY <5>1, <5>2 DEF Shown
      <4>3. QED
        BY <4>1, <4>2
    <3>2. QED
      BY <2>1, <3>1
  <2>2. CASE t # n
    <3>1. /\ session[t].flow # NoFlow => flow[session[t].flow].state = "used"
          /\ SteppedUp(t) => session[session[t].parent].state = "revoked"
      BY DEF SignInInv, SessionsAreRight
    <3>2. session'[t].flow = session[t].flow /\ session'[t].parent = session[t].parent
      BY <1>3, <2>2 DEF SessionKept
    <3>3. SteppedUp(t)' => session'[session'[t].parent].state = "revoked"
      BY <1>3, <2>2, <3>1, <3>2 DEF SteppedUp, SessionKept
    <3>4. QED
      BY <1>3, <2>2, <3>1, <3>2, <3>3
  <2>3. QED
    BY <2>1, <2>2
<1>7. FlowsAreSpentOnce'
  <2>1. \A t \in Sessions \ {n} : session'[t].flow = session[t].flow
    BY <1>3 DEF SessionKept
  <2>2. QED
    BY <2>1 DEF SignInInv, FlowsAreSpentOnce
<1>8. SessionsAreRenewedOnce'
  <2>1. \A t \in Sessions \ {n} :
           /\ session'[t].parent = session[t].parent
           /\ SteppedUp(t)' <=> SteppedUp(t)
    BY <1>3 DEF SessionKept, SteppedUp
  <2>2. QED
    BY <2>1 DEF SignInInv, SessionsAreRenewedOnce
<1>9. SignInRequestsAreRight'
  <2> SUFFICES ASSUME NEW p \in SignInRequests PROVE SignInRequestIsRight(p)'
    BY DEF SignInRequestsAreRight
  <2>1. CASE p = q
    <3>1. CASE request'[q].step = "idle"
      BY <2>1, <3>1 DEF SignInRequestIsRight
    <3>2. CASE request'[q].step # "idle"
      <4>1. PICK t \in Sessions : t = request'[q].session
        BY <3>2
      <4>2. Shown(t)'
        BY <1>2, <3>2, <4>1
      <4>3. QED
        BY <2>1, <3>2, <4>1, <4>2 DEF SignInRequestIsRight, Shown
    <3>3. QED
      BY <3>1, <3>2
  <2>2. CASE p # q
    <3>1. request'[p] = request[p] /\ SignInRequestIsRight(p)
          /\ (request[p].step = "issued" => request[p].new # n)
      BY <2>2 DEF SignInInv, SignInRequestsAreRight
    <3>2. request[p].step \in {"refreshing", "revoked", "issued"} => Shown(request[p].session)'
      <4>1. CASE request[p].step \in {"refreshing", "revoked", "issued"}
        <5>1. PICK t \in Sessions : t = request[p].session
          BY <3>1, <4>1 DEF SignInRequestIsRight
        <5>2. Shown(t)'
          BY <1>2, <3>1, <4>1, <5>1 DEF SignInRequestIsRight
        <5>3. QED
          BY <3>1, <5>1, <5>2 DEF Shown
      <4>2. QED
        BY <4>1
    <3>3. request[p].step = "issued" =>
             /\ request[p].new \in Sessions /\ session'[request[p].new].state # "none"
             /\ session'[request[p].new].parent = request[p].session
             /\ session'[request[p].new].flow = NoFlow
      BY <1>3, <3>1 DEF SignInRequestIsRight, SessionKept
    <3>4. QED
      BY <3>1, <3>2, <3>3 DEF SignInRequestIsRight, Shown
  <2>3. QED
    BY <2>1, <2>2
<1>10. SuccessorsDiffer'
  BY DEF SignInInv, SuccessorsDiffer
<1>11. QED
  BY <1>4, <1>5, <1>6, <1>7, <1>8, <1>9, <1>10 DEF SignInInv

\* The row the next session gets was referred to by nobody.
LEMMA NextSessionIsNew ==
  ASSUME SignInInv, NEW s \in NextSession
  PROVE  /\ s \in Sessions /\ s # NoSession /\ session[s].state = "none" /\ ~ Shown(s)
         /\ \A q \in SignInRequests : request[q].step = "issued" => request[q].new # s
BY NumberedSessions
DEF NextSession, Shown, SignInInv, SignInRequestsAreRight, SignInRequestIsRight

LEMMA EarlierBounds ==
  ASSUME NEW x \in Nat, NEW y \in Nat
  PROVE  Earlier(x, y) \in Nat /\ Earlier(x, y) <= y /\ Earlier(x, y) <= x
BY DEF Earlier

LEMMA CompletesStep ==
  ASSUME SignInInv, NEW q \in SignInRequests, CallbackCompletes(q)
  PROVE  SignInInv'
<1> DEFINE f == request[q].flow
<1> DEFINE parent == flow[f].parent
<1>1. /\ SignInTypeOK /\ request[q].step = "exchanging" /\ RequestDone(q) /\ clock' = clock
      /\ f \in Flows
  BY DEF CallbackCompletes, SignInInv, SignInRequestsAreRight, SignInRequestIsRight
<1>2. /\ flow[f] \in Flow /\ parent \in Sessions \cup {NoSession}
      /\ clock \in Nat /\ SessionTTL \in Nat
  BY <1>1, NumberedSessions DEF SignInTypeOK, Flow
<1>3. /\ request' \in [SignInRequests -> SignInRequest] /\ request'[q].step = "idle"
      /\ \A p \in SignInRequests \ {q} : request'[p] = request[p]
  BY <1>1, NotAskedType DEF RequestDone, SignInTypeOK
<1>4. CASE UNCHANGED <<flow, session, cookie>>
  <2>1. request' \in [SignInRequests -> SignInRequest] /\ \A p \in SignInRequests : GoesOn(p)
    BY <1>3 DEF GoesOn
  <2>2. QED
    BY <1>1, <1>4, <2>1, NothingMoves, SignInRequestStep
<1>5. CASE FlowIsOpen(f) /\ (parent # NoSession => Alive(parent))
  <2> DEFINE made(s) == [state |-> "live", flow |-> f, parent |-> parent,
                         deadline |-> IF parent = NoSession THEN clock + SessionTTL
                                      ELSE Earlier(clock + SessionTTL, session[parent].deadline)]
  <2>1. PICK s \in NextSession :
            /\ Spent(f)
            /\ session' = [t \in Sessions |->
                    IF t = s THEN made(s)
                    ELSE IF t = parent THEN [session[t] EXCEPT !.state = "revoked"]
                    ELSE session[t]]
            /\ Answer(request[q].browser, s)
    BY <1>5 DEF CallbackCompletes
  <2>2. /\ s \in Sessions /\ s # NoSession /\ session[s].state = "none" /\ ~ Shown(s)
        /\ \A p \in SignInRequests : request[p].step = "issued" => request[p].new # s
    BY NextSessionIsNew
  <2>3. parent # NoSession => /\ parent \in Sessions /\ session[parent].state = "live"
                             /\ parent # s /\ Shown(parent)
                             /\ session[parent].deadline \in Nat
    BY <1>1, <1>2, <1>5, <2>2
    DEF Alive, SignInInv, FlowsAreRight, SignInTypeOK, BrowserSession
  <2>4. /\ made(s) \in BrowserSession /\ made(s).state = "live" /\ made(s).flow = f
        /\ made(s).parent = parent
        /\ parent # NoSession => made(s).deadline <= session[parent].deadline
    <3>1. CASE parent = NoSession
      BY <1>1, <1>2, <3>1 DEF BrowserSession
    <3>2. CASE parent # NoSession
      <4> DEFINE deadline == Earlier(clock + SessionTTL, session[parent].deadline)
      <4>1. deadline \in Nat /\ deadline <= session[parent].deadline
        <5>1. clock + SessionTTL \in Nat /\ session[parent].deadline \in Nat
          BY <1>2, <2>3, <3>2
        <5>2. QED
          BY ONLY <5>1, EarlierBounds
      <4> HIDE DEF deadline
      <4>2. made(s) = [state |-> "live", flow |-> f, parent |-> parent, deadline |-> deadline]
        BY <3>2 DEF deadline
      <4> HIDE DEF made
      <4>3. QED
        BY <1>1, <1>2, <4>1, <4>2 DEF BrowserSession
    <3>3. QED
      BY <3>1, <3>2
  <2> HIDE DEF made
  <2>5. /\ flow' \in [Flows -> Flow] /\ flow'[f].state = "used"
        /\ \A g \in Flows : /\ flow'[g].parent = flow[g].parent
                            /\ flow[g].state = "used" => flow'[g].state = "used"
    <3> DEFINE spent == [flow[f] EXCEPT !.state = "used"]
    <3>1. flow' = [flow EXCEPT ![f] = spent]
      BY <1>1, <2>1 DEF Spent, SignInTypeOK
    <3>2. spent \in Flow /\ spent.parent = flow[f].parent /\ spent.state = "used"
      BY <1>2 DEF Flow
    <3> HIDE DEF spent
    <3>3. QED
      BY <1>1, <3>1, <3>2 DEF SignInTypeOK
  <2>6. session'[s] = made(s)
    BY <2>1, <2>2
  <2>7. ASSUME NEW t \in Sessions \ {s}
        PROVE  /\ SessionKept(t) /\ session'[t] \in BrowserSession
               /\ t = parent => session'[t].state = "revoked"
    <3>1. session[t] \in BrowserSession
      BY <1>1 DEF SignInTypeOK
    <3>2. CASE t = parent
      <4>1. session'[t] = [session[t] EXCEPT !.state = "revoked"]
        BY <2>1, <3>2
      <4>2. session[t].state = "live"
        BY <2>3, <3>2, NumberedSessions
      <4>3. QED
        BY <3>1, <4>1, <4>2 DEF SessionKept, BrowserSession
    <3>3. CASE t # parent
      BY <2>1, <3>1, <3>3 DEF SessionKept
    <3>4. QED
      BY <3>2, <3>3
  <2>8. session' \in [Sessions -> BrowserSession]
    <3>1. \A t \in Sessions : session'[t] \in BrowserSession
      BY <2>4, <2>6, <2>7
    <3>2. session' = [t \in Sessions |-> session'[t]]
      BY <2>1
    <3>3. QED
      BY <3>1, <3>2
  <2>9. /\ cookie' \in [Browsers -> Sessions \cup {NoSession}]
        /\ \A b \in Browsers : cookie'[b] = cookie[b] \/ cookie'[b] = s
    BY <1>1, <2>1, <2>2 DEF Answer, SignInTypeOK
  <2>10. SignInTypeOK'
    BY <1>1, <1>3, <2>5, <2>8, <2>9 DEF SignInTypeOK
  <2>11. Shown(s)'
    BY <1>3, <2>2, <2>4, <2>6 DEF Shown
  <2>12. Capped(s)'
    <3>1. CASE parent = NoSession
      BY <2>4, <2>6, <3>1 DEF Capped
    <3>2. CASE parent # NoSession
      <4>1. SessionKept(parent)
        BY <2>3, <2>7, <3>2
      <4>2. QED
        BY <2>4, <2>6, <3>2, <4>1 DEF Capped, SessionKept
    <3>3. QED
      BY <3>1, <3>2
  <2>13. \A t \in Sessions \ {s} : session[t].flow # f
    BY <1>1, <1>5, NumberedSessions DEF SignInInv, SessionsAreRight, FlowIsOpen
  <2>14. SteppedUp(s)' =>
             /\ session'[parent].state = "revoked"
             /\ \A t \in Sessions \ {s} : SteppedUp(t) => session[t].parent # parent
    <3>1. parent # NoSession => session'[parent].state = "revoked"
      BY <2>3, <2>7
    <3>2. parent # NoSession =>
             \A t \in Sessions \ {s} : SteppedUp(t) => session[t].parent # parent
      BY <2>3 DEF SignInInv, SessionsAreRight
    <3>3. SteppedUp(s)' => parent # NoSession
      BY <2>4, <2>6 DEF SteppedUp
    <3>4. QED
      BY <3>1, <3>2, <3>3
  <2>15. \A t \in Sessions \ {s} : SessionKept(t)
    BY <2>7
  <2> HIDE DEF f, parent
  <2>16. /\ session'[s].state # "none" /\ session'[s].flow = f /\ session'[s].parent = parent
    BY <2>4, <2>6
  <2>17. QED
    BY <1>3, <2>2, <2>3, <2>5, <2>9, <2>10, <2>11, <2>12, <2>13, <2>14, <2>15, <2>16, NewSessionStep
<1>6. QED
  BY <1>4, <1>5 DEF CallbackCompletes

LEMMA IssuedStep ==
  ASSUME SignInInv, NEW q \in SignInRequests, SuccessorIsIssued(q)
  PROVE  SignInInv'
<1> DEFINE old == request[q].session
<1> DEFINE made == [state |-> "live", deadline |-> clock + SessionTTL,
                    flow |-> NoFlow, parent |-> request[q].session]
<1>1. PICK s \in NextSession : /\ session' = [session EXCEPT ![s] = made]
                              /\ request' = [request EXCEPT ![q].step = "issued", ![q].new = s]
  BY DEF SuccessorIsIssued
<1>2. /\ SignInTypeOK /\ request[q].step = "revoked" /\ request[q] \in SignInRequest
      /\ UNCHANGED <<flow, cookie, clock>> /\ old \in Sessions /\ Shown(old)
  BY DEF SuccessorIsIssued, SignInInv, SignInTypeOK, SignInRequestsAreRight, SignInRequestIsRight
<1>3. /\ s \in Sessions /\ s # NoSession /\ session[s].state = "none" /\ ~ Shown(s)
      /\ \A p \in SignInRequests : request[p].step = "issued" => request[p].new # s
  BY NextSessionIsNew
<1>4. /\ made \in BrowserSession /\ made.state = "live" /\ made.flow = NoFlow
      /\ made.parent = old
  <2>1. clock + SessionTTL \in Nat
    BY <1>2, NumberedSessions DEF SignInTypeOK
  <2>2. QED
    BY <1>2, <2>1 DEF BrowserSession
<1> HIDE DEF made
<1>5. /\ session' \in [Sessions -> BrowserSession] /\ session'[s] = made
      /\ \A t \in Sessions \ {s} : SessionKept(t)
  BY <1>1, <1>2, <1>3, <1>4 DEF SignInTypeOK, SessionKept
<1> DEFINE new == [request[q] EXCEPT !.step = "issued", !.new = s]
<1>6. request' = [request EXCEPT ![q] = new]
  BY <1>1, <1>2 DEF SignInTypeOK
<1>7. new \in SignInRequest /\ new.step = "issued" /\ new.new = s /\ new.session = old
  BY <1>2, <1>3 DEF SignInRequest
<1> HIDE DEF new
<1>8. /\ request' \in [SignInRequests -> SignInRequest] /\ request'[q] = new
      /\ \A p \in SignInRequests \ {q} : request'[p] = request[p]
  BY <1>2, <1>6, <1>7 DEF SignInTypeOK
<1>9. SignInTypeOK'
  BY <1>2, <1>5, <1>8 DEF SignInTypeOK
<1> HIDE DEF old
<1>10. ~ SteppedUp(s)'
  BY <1>4, <1>5 DEF SteppedUp
<1>11. QED
  BY <1>2, <1>3, <1>4, <1>5, <1>7, <1>8, <1>9, <1>10, NewSessionStep

LEMMA CappedStep ==
  ASSUME SignInInv, NEW q \in SignInRequests, SuccessorIsCapped(q)
  PROVE  SignInInv'
<1>0. PICK s \in Sessions, old \in Sessions : s = request[q].new /\ old = request[q].session
  BY DEF SuccessorIsCapped, SignInInv, SignInRequestsAreRight, SignInRequestIsRight
<1>1. /\ SignInTypeOK /\ request[q].step = "issued" /\ UNCHANGED <<flow, clock>>
      /\ session' = [session EXCEPT ![s].deadline = Earlier(session[s].deadline, session[old].deadline)]
      /\ Answer(request[q].browser, s) /\ RequestDone(q)
  BY <1>0 DEF SuccessorIsCapped, SignInInv
<1>2. /\ s \in Sessions /\ old \in Sessions /\ Shown(old) /\ s # old /\ ~ Shown(s)
      /\ session[s].parent = old /\ session[s].flow = NoFlow /\ session[s].state # "none"
      /\ session[s] \in BrowserSession /\ session[old] \in BrowserSession
      /\ \A p \in SignInRequests \ {q} : request[p].step = "issued" => request[p].new # s
  BY <1>0, <1>1
  DEF SignInInv, SignInRequestsAreRight, SignInRequestIsRight, SignInTypeOK, SuccessorsDiffer, Shown
<1> DEFINE deadline == Earlier(session[s].deadline, session[old].deadline)
<1>3. deadline \in Nat /\ deadline <= session[old].deadline
  BY <1>2, EarlierBounds DEF BrowserSession
<1> DEFINE capped == [session[s] EXCEPT !.deadline = deadline]
<1>4. session' = [session EXCEPT ![s] = capped]
  BY <1>1, <1>2 DEF SignInTypeOK
<1> HIDE DEF deadline
<1>5. /\ capped \in BrowserSession /\ capped.state # "none" /\ capped.flow = NoFlow
      /\ capped.parent = old /\ capped.deadline = deadline
  BY <1>2, <1>3 DEF BrowserSession
<1> HIDE DEF capped
<1>6. /\ session' \in [Sessions -> BrowserSession] /\ session'[s] = capped
      /\ \A t \in Sessions \ {s} : session'[t] = session[t]
  BY <1>1, <1>2, <1>4, <1>5 DEF SignInTypeOK
<1>7. \A t \in Sessions \ {s} : SessionKept(t)
  BY <1>6 DEF SessionKept
<1>8. /\ request' \in [SignInRequests -> SignInRequest] /\ request'[q].step = "idle"
      /\ \A p \in SignInRequests \ {q} : request'[p] = request[p]
  BY <1>1, NotAskedType DEF RequestDone, SignInTypeOK
<1>9. /\ cookie' \in [Browsers -> Sessions \cup {NoSession}]
      /\ \A b \in Browsers : cookie'[b] = cookie[b] \/ cookie'[b] = s
  BY <1>1, <1>2 DEF Answer, SignInTypeOK
<1>10. SignInTypeOK'
  BY <1>1, <1>6, <1>8, <1>9 DEF SignInTypeOK
<1>11. Shown(s)'
  BY <1>2, <1>5, <1>6, <1>8 DEF Shown
<1>12. Capped(s)'
  BY <1>2, <1>3, <1>5, <1>6 DEF Capped
<1>13. ~ SteppedUp(s)'
  BY <1>5, <1>6 DEF SteppedUp
<1>14. QED
  BY <1>1, <1>2, <1>5, <1>6, <1>7, <1>8, <1>9, <1>10, <1>11, <1>12, <1>13, NewSessionStep

LEMMA SignInStep ==
  ASSUME SignInInv, [SignInNext]_signInVars
  PROVE  SignInInv'
<1>1. ASSUME NEW f \in Flows, \/ FlowExpires(f) \/ CallbackReportsError(f)
                             \/ \E b \in Browsers : BeginLogin(b, f) \/ BeginStepUp(b, f)
      PROVE  SignInInv'
  BY <1>1, FlowsStep
<1>2. ASSUME NEW q \in SignInRequests,
             \/ \E f \in Flows : FlowComesBack(q, f)
             \/ RequestIsLost(q) \/ RefreshIsAnswered(q)
             \/ \E b \in Browsers : RefreshArrives(q, b) \/ SwitchArrives(q, b)
      PROVE  SignInInv'
  BY <1>2, RequestSteps
<1>3. ASSUME NEW q \in SignInRequests,
             CallbackCompletes(q) \/ SuccessorIsIssued(q) \/ SuccessorIsCapped(q)
      PROVE  SignInInv'
  BY <1>3, CompletesStep, IssuedStep, CappedStep
<1>4. QED
  BY <1>1, <1>2, <1>3, BrowserSteps DEF SignInNext

LEMMA SignInBegins == SignInInit => SignInInv
<1> SUFFICES ASSUME SignInInit PROVE SignInInv
  OBVIOUS
<1>1. \A s \in Sessions :
         /\ session[s].flow = NoFlow /\ session[s].parent = NoSession
         /\ session[s].state = (IF s = 1 THEN "live" ELSE "none")
  BY DEF SignInInit
<1>2. \A q \in SignInRequests : request[q] = NotAsked
  BY DEF SignInInit
<1>3. PICK b \in Browsers : cookie = [c \in Browsers |-> IF c = b THEN 1 ELSE NoSession]
  BY DEF SignInInit
<1>4. SignInTypeOK
  <2>1. flow \in [Flows -> Flow]
    BY DEF SignInInit, Flow
  <2>2. session \in [Sessions -> BrowserSession]
    <3>1. ASSUME NEW s \in Sessions
          PROVE  [state |-> IF s = 1 THEN "live" ELSE "none", flow |-> NoFlow, parent |-> NoSession,
                  deadline |-> IF s = 1 THEN SessionTTL ELSE 0] \in BrowserSession
      BY NumberedSessions DEF BrowserSession
    <3>2. QED
      BY <3>1 DEF SignInInit
  <2>3. cookie \in [Browsers -> Sessions \cup {NoSession}]
    BY <1>3, NumberedSessions
  <2>4. request \in [SignInRequests -> SignInRequest]
    BY NotAskedType DEF SignInInit
  <2>5. clock \in 0 .. LastTick
    BY NumberedSessions DEF SignInInit
  <2>6. QED
    BY <2>1, <2>2, <2>3, <2>4, <2>5 DEF SignInTypeOK
<1>5. CookiesAreRight
  <2>1. Shown(1) /\ Capped(1)
    BY <1>1, <1>2, NotAskedType, NumberedSessions DEF Shown, Capped
  <2>2. QED
    BY <1>3, <2>1 DEF CookiesAreRight
<1>6. FlowsAreRight
  BY DEF SignInInit, FlowsAreRight
<1>7. SessionsAreRight /\ FlowsAreSpentOnce /\ SessionsAreRenewedOnce
  BY <1>1 DEF SessionsAreRight, FlowsAreSpentOnce, SessionsAreRenewedOnce, SteppedUp
<1>8. SignInRequestsAreRight /\ SuccessorsDiffer
  BY <1>2, NotAskedType DEF SignInRequestsAreRight, SignInRequestIsRight, SuccessorsDiffer
<1>9. QED
  BY <1>4, <1>5, <1>6, <1>7, <1>8 DEF SignInInv

LEMMA SignInInvariant == SignInSpec => []SignInInv
<1>1. SignInInv /\ [SignInNext]_signInVars => SignInInv'
  BY SignInStep
<1>2. QED
  BY SignInBegins, <1>1, PTL DEF SignInSpec

LEMMA SignInIsSafe ==
  ASSUME SignInInv
  PROVE  FlowYieldsOneSession
<1>1. ASSUME NEW f \in Flows
      PROVE  Cardinality({s \in Sessions : session[s].flow = f}) <= 1
  <2> DEFINE yielded == {s \in Sessions : session[s].flow = f}
  <2>1. \A s, t \in yielded : s = t
    BY NumberedSessions DEF SignInInv, FlowsAreSpentOnce
  <2> HIDE DEF yielded
  <2>2. CASE yielded = {}
    BY <2>2, FS_EmptySet DEF yielded
  <2>3. CASE yielded # {}
    <3>1. PICK s \in yielded : TRUE
      BY <2>3
    <3>2. yielded = {s}
      BY <2>1, <3>1
    <3>3. Cardinality(yielded) = 1
      BY <3>2, FS_Singleton
    <3>4. QED
      BY <3>3 DEF yielded
  <2>4. QED
    BY <2>2, <2>3
<1>2. ASSUME NEW b \in Browsers, cookie[b] # NoSession, session[cookie[b]].parent # NoSession
      PROVE  session[cookie[b]].deadline <= session[session[cookie[b]].parent].deadline
  BY <1>2 DEF SignInInv, CookiesAreRight, Capped
<1>3. QED
  BY <1>1, <1>2
  DEF SignInInv, SessionsAreRight, SessionsAreRenewedOnce, SteppedUp, FlowYieldsOneSession

-------------------------------------------------------------------------------
(***************************************************************************)
(* The first login. What a callback has looked up holds until it commits,  *)
(* as the keys of the tables keep others from inserting it.                *)
(***************************************************************************)

\* What a callback has looked up or written holds until it commits: a user that
\* it inserts is nobody's yet, one that it knows is there; the home and the
\* invitation it has chosen are still its to take.
Takes(q) == arrival[q].step \in {"offered", "chosen"} /\ arrival[q].takes # NoInvite

ArrivalIsRight(q) ==
    LET me == arrival[q]
    IN /\ me.step # "idle" => me.subject \in Subjects /\ me.user \in Emails
       /\ me.step # "idle" /\ ~me.first =>
             identity[me.subject] = me.user /\ me.user \in users
       /\ Inserting(q) => identity[me.subject] = NoUser /\ me.user \notin users
       /\ me.step = "chosen" => me.home \in (IF me.first THEN {"own", "guest"} ELSE {"kept", "own", "guest"})
       /\ me.step = "chosen" /\ me.home = "own" /\ ~me.first => home[me.user].guest # "none"
       /\ me.step = "offered" => me.first /\ me.takes # NoInvite
       /\ me.step # "idle" /\ me.first => me.user = EmailOf[me.subject]
       /\ Takes(q) => /\ invite[me.takes].state # "none" /\ invite[me.takes].taken = 0
                      /\ invite[me.takes].email = EmailOf[me.subject]

ArrivalsAreRight == \A q \in Arrivals : ArrivalIsRight(q)

\* Two callbacks insert different users, and take different invitations.
ArrivalsDiffer ==
    \A q, p \in Arrivals : q # p =>
        /\ Inserting(q) /\ Inserting(p) => arrival[q].user # arrival[p].user
                                        /\ arrival[q].subject # arrival[p].subject
        /\ Takes(q) /\ Takes(p) => arrival[q].takes # arrival[p].takes

StrangersHaveNoHome == \A u \in Emails \ users : home[u].own = 0

InvitesAreTakenOnce ==
    \A i \in Invites : /\ invite[i].taken <= 1
                       /\ invite[i].state \in {"none", "open"} => invite[i].taken = 0

OnboardingInv ==
    /\ OnboardingTypeOK /\ ArrivalsAreRight /\ ArrivalsDiffer /\ StrangersHaveNoHome
    /\ InvitesAreTakenOnce /\ OnboardedOnce

-------------------------------------------------------------------------------
(* Types, and the steps. *)

HomeRow == [guest : {"none", "active", "removed"}, own : Nat]
InviteRow == [state : {"none", "open", "taken", "lapsed"}, email : Emails \cup {NoUser}, taken : Nat]
Arrival ==
    [step : {"idle", "looked", "inserted", "offered", "chosen"}, subject : Subjects \cup {NoUser},
     user : Emails \cup {NoUser}, first : BOOLEAN, selected : Invites \cup {NoInvite},
     home : {"none", "kept", "own", "guest"}, takes : Invites \cup {NoInvite}]

LEMMA OnboardingTypes ==
  OnboardingTypeOK <=>
      /\ identity \in [Subjects -> Emails \cup {NoUser}] /\ home \in [Emails -> HomeRow]
      /\ users \subseteq Emails /\ invite \in [Invites -> InviteRow]
      /\ arrival \in [Arrivals -> Arrival] /\ invited \in 0 .. MaxInvited
BY DEF OnboardingTypeOK, HomeRow, InviteRow, Arrival

LEMMA NextOnboardingTypes ==
  OnboardingTypeOK' <=>
      /\ identity' \in [Subjects -> Emails \cup {NoUser}] /\ home' \in [Emails -> HomeRow]
      /\ users' \subseteq Emails /\ invite' \in [Invites -> InviteRow]
      /\ arrival' \in [Arrivals -> Arrival] /\ invited' \in 0 .. MaxInvited
BY DEF OnboardingTypeOK, HomeRow, InviteRow, Arrival

LEMMA NoArrivalType ==
  /\ NoArrival \in Arrival /\ NoArrival.step = "idle" /\ NoArrival.home = "none"
  /\ NoArrival.takes = NoInvite
<1>1. PICK no \in BOOLEAN : no = FALSE
  OBVIOUS
<1>2. NoArrival = [step |-> "idle", subject |-> NoUser, user |-> NoUser, first |-> no,
                   selected |-> NoInvite, home |-> "none", takes |-> NoInvite]
  BY <1>1 DEF NoArrival
<1>3. QED
  BY <1>2 DEF Arrival

\* A callback goes on and the tables stay.
LEMMA ArrivalMoves ==
  ASSUME OnboardingInv, UNCHANGED <<identity, home, users, invite, invited>>, NEW q \in Arrivals,
         arrival' \in [Arrivals -> Arrival], \A p \in Arrivals \ {q} : arrival'[p] = arrival[p],
         ArrivalIsRight(q)',
         Inserting(q)' => \A p \in Arrivals \ {q} :
             Inserting(p) => arrival[p].user # arrival'[q].user /\ arrival[p].subject # arrival'[q].subject,
         Takes(q)' => \A p \in Arrivals \ {q} : Takes(p) => arrival[p].takes # arrival'[q].takes
  PROVE  OnboardingInv'
<1>1. OnboardingTypeOK'
  BY OnboardingTypes, NextOnboardingTypes DEF OnboardingInv
<1>2. \A p \in Arrivals \ {q} : ArrivalIsRight(p)' /\ (Inserting(p)' <=> Inserting(p))
  BY DEF OnboardingInv, ArrivalsAreRight, ArrivalIsRight, Inserting, Takes
<1>0. \A p \in Arrivals \ {q} : (Takes(p)' <=> Takes(p))
  BY DEF Takes
<1>3. ArrivalsAreRight'
  BY <1>2 DEF ArrivalsAreRight
<1>4. ArrivalsDiffer'
  <2> SUFFICES ASSUME NEW a \in Arrivals, NEW p \in Arrivals, a # p
               PROVE  /\ Inserting(a)' /\ Inserting(p)' =>
                            arrival'[a].user # arrival'[p].user /\ arrival'[a].subject # arrival'[p].subject
                      /\ Takes(a)' /\ Takes(p)' => arrival'[a].takes # arrival'[p].takes
    BY DEF ArrivalsDiffer
  <2>1. /\ Inserting(a) /\ Inserting(p) =>
              arrival[a].user # arrival[p].user /\ arrival[a].subject # arrival[p].subject
        /\ Takes(a) /\ Takes(p) => arrival[a].takes # arrival[p].takes
    BY DEF OnboardingInv, ArrivalsDiffer
  <2>2. CASE a # q /\ p # q
    BY <1>0, <1>2, <2>1, <2>2
  <2>3. CASE a = q
    BY <1>0, <1>2, <2>3
  <2>4. CASE p = q
    BY <1>0, <1>2, <2>4
  <2>5. QED
    BY <2>2, <2>3, <2>4
<1>5. StrangersHaveNoHome' /\ InvitesAreTakenOnce' /\ OnboardedOnce'
  BY DEF OnboardingInv, StrangersHaveNoHome, InvitesAreTakenOnce, OnboardedOnce
<1>6. QED
  BY <1>1, <1>3, <1>4, <1>5 DEF OnboardingInv

LEMMA RollsStep ==
  ASSUME OnboardingInv, NEW q \in Arrivals, Rolls(q)
  PROVE  /\ arrival' \in [Arrivals -> Arrival] /\ arrival'[q].step = "idle"
         /\ \A p \in Arrivals \ {q} : arrival'[p] = arrival[p]
BY OnboardingTypes, NoArrivalType DEF OnboardingInv, Rolls

LEMMA FailsStep ==
  ASSUME OnboardingInv, NEW q \in Arrivals, ArrivalFails(q)
  PROVE  OnboardingInv'
<1>1. Rolls(q) /\ UNCHANGED <<identity, home, users, invite, invited>>
  BY DEF ArrivalFails
<1>2. /\ arrival' \in [Arrivals -> Arrival] /\ arrival'[q].step = "idle"
      /\ \A p \in Arrivals \ {q} : arrival'[p] = arrival[p]
  BY <1>1, RollsStep
<1>3. ArrivalIsRight(q)' /\ ~ Inserting(q)' /\ ~ Takes(q)'
  BY <1>2 DEF ArrivalIsRight, Inserting, Takes
<1>4. QED
  BY <1>1, <1>2, <1>3, ArrivalMoves

LEMMA LooksUpStep ==
  ASSUME OnboardingInv, NEW q \in Arrivals, NEW s \in Subjects,
         NEW i \in Invites \cup {NoInvite}, ArrivalLooksUp(q, s, i)
  PROVE  OnboardingInv'
<1>1. PICK known \in BOOLEAN : known = (identity[s] # NoUser)
  OBVIOUS
<1> DEFINE user == IF known THEN identity[s] ELSE EmailOf[s]
<1> DEFINE new == [NoArrival EXCEPT !.step = "looked", !.subject = s, !.selected = i,
                                    !.first = ~known, !.user = user]
<1>2. /\ arrival' = [arrival EXCEPT ![q] = new]
      /\ UNCHANGED <<identity, home, users, invite, invited>>
  BY <1>1 DEF ArrivalLooksUp
<1>3. user \in Emails /\ (known => identity[s] = user /\ user \in users)
      /\ (~known => user = EmailOf[s])
  <2>1. EmailOf[s] \in Emails
    BY DEF Emails
  <2>2. known => identity[s] \in users /\ users \subseteq Emails
    BY <1>1, OnboardingTypes DEF OnboardingInv, OnboardedOnce
  <2>3. QED
    BY <2>1, <2>2
<1> HIDE DEF user
<1>4. /\ new \in Arrival /\ new.step = "looked" /\ new.subject = s /\ new.user = user
      /\ new.first = ~known
  BY <1>3, NoArrivalType DEF Arrival
<1> HIDE DEF new
<1>5. /\ arrival' \in [Arrivals -> Arrival] /\ arrival'[q] = new
      /\ \A p \in Arrivals \ {q} : arrival'[p] = arrival[p]
  BY <1>2, <1>4, OnboardingTypes DEF OnboardingInv
<1>6. ArrivalIsRight(q)' /\ ~ Inserting(q)' /\ ~ Takes(q)'
  BY <1>2, <1>3, <1>4, <1>5 DEF ArrivalIsRight, Inserting, Takes
<1>7. QED
  BY <1>2, <1>4, <1>5, <1>6, ArrivalMoves

LEMMA InsertedStep ==
  ASSUME OnboardingInv, NEW q \in Arrivals, AccountIsInserted(q)
  PROVE  OnboardingInv'
<1> DEFINE new == [arrival[q] EXCEPT !.step = "inserted"]
<1>1. /\ arrival[q].step = "looked" /\ arrival[q].first /\ KeysAreFree(q)
      /\ UNCHANGED <<identity, home, users, invite, invited>>
      /\ arrival \in [Arrivals -> Arrival] /\ arrival[q] \in Arrival /\ ArrivalIsRight(q)
  BY OnboardingTypes DEF AccountIsInserted, OnboardingInv, ArrivalsAreRight
<1>2. arrival' = [arrival EXCEPT ![q] = new]
  BY <1>1 DEF AccountIsInserted
<1>3. /\ new \in Arrival /\ new.step = "inserted" /\ new.subject = arrival[q].subject
      /\ new.user = arrival[q].user /\ new.first = arrival[q].first
  BY <1>1 DEF Arrival
<1> HIDE DEF new
<1>4. /\ arrival' \in [Arrivals -> Arrival] /\ arrival'[q] = new
      /\ \A p \in Arrivals \ {q} : arrival'[p] = arrival[p]
  BY <1>1, <1>2, <1>3
<1>5. ArrivalIsRight(q)' /\ ~ Takes(q)'
  BY <1>1, <1>3, <1>4 DEF ArrivalIsRight, Inserting, KeysAreFree, Takes
<1>6. QED
  BY <1>1, <1>3, <1>4, <1>5, ArrivalMoves DEF KeysAreFree

\* One who makes an account and one who has written an invitation for another
\* address do not meet.
LEMMA TakersDiffer ==
  ASSUME OnboardingInv, NEW q \in Arrivals, NEW p \in Arrivals, q # p, Takes(p),
         NEW i \in Invites, arrival[q].step # "idle",
         invite[i].email = EmailOf[arrival[q].subject],
         arrival[q].first => Inserting(q), Inserting(q) \/ Inserting(p)
  PROVE  arrival[p].takes # i
<1> SUFFICES ASSUME arrival[p].takes = i PROVE FALSE
  OBVIOUS
<1>1. ArrivalIsRight(q) /\ ArrivalIsRight(p) /\ users \subseteq Emails
  BY OnboardingTypes DEF OnboardingInv, ArrivalsAreRight
<1>2. arrival[q].subject \in Subjects /\ arrival[p].subject \in Subjects
  BY <1>1 DEF ArrivalIsRight, Takes
<1>3. EmailOf[arrival[p].subject] = EmailOf[arrival[q].subject]
  BY <1>1 DEF ArrivalIsRight
<1>4. arrival[p].subject = arrival[q].subject
  BY <1>2, <1>3, OnboardingAssumption
<1>5. ~(Inserting(q) /\ Inserting(p))
  BY <1>4 DEF OnboardingInv, ArrivalsDiffer
<1>6. CASE Inserting(q) /\ ~Inserting(p)
  <2>1. identity[arrival[q].subject] = NoUser
    BY <1>1, <1>6 DEF ArrivalIsRight
  <2>2. ~arrival[p].first /\ arrival[p].step # "idle"
    BY <1>6 DEF Takes, Inserting
  <2>3. identity[arrival[p].subject] \in Emails
    BY <1>1, <2>2 DEF ArrivalIsRight
  <2>4. QED
    BY <1>4, <2>1, <2>3, OnboardingAssumption
<1>7. CASE Inserting(p) /\ ~Inserting(q)
  <2>1. identity[arrival[p].subject] = NoUser
    BY <1>1, <1>7 DEF ArrivalIsRight
  <2>2. identity[arrival[q].subject] \in Emails
    BY <1>1, <1>7 DEF ArrivalIsRight
  <2>3. QED
    BY <1>4, <2>1, <2>2, OnboardingAssumption
<1>8. QED
  BY <1>5, <1>6, <1>7

LEMMA ProceedsStep ==
  ASSUME OnboardingInv, NEW q \in Arrivals, NEW step \in {"offered", "chosen"},
         NEW where \in {"kept", "own", "guest"}, NEW i \in Invites \cup {NoInvite},
         Proceeds(q, step, where, i), arrival[q].step # "idle", arrival[q].first => Inserting(q),
         where = "kept" => ~arrival[q].first,
         where = "own" /\ ~arrival[q].first => home[arrival[q].user].guest # "none",
         step = "offered" => arrival[q].first /\ i # NoInvite,
         i # NoInvite => /\ invite[i].state # "none" /\ invite[i].taken = 0
                         /\ invite[i].email = EmailOf[arrival[q].subject]
                         /\ \A p \in Arrivals \ {q} : Takes(p) => arrival[p].takes # i
  PROVE  OnboardingInv'
<1>1. /\ arrival \in [Arrivals -> Arrival] /\ arrival[q] \in Arrival /\ ArrivalIsRight(q)
  BY OnboardingTypes DEF OnboardingInv, ArrivalsAreRight
<1>2. /\ arrival[q].subject \in Subjects /\ arrival[q].user \in Emails
      /\ ~arrival[q].first =>
            identity[arrival[q].subject] = arrival[q].user /\ arrival[q].user \in users
      /\ arrival[q].first => /\ Inserting(q) /\ identity[arrival[q].subject] = NoUser
                             /\ arrival[q].user \notin users
                             /\ arrival[q].user = EmailOf[arrival[q].subject]
  BY <1>1 DEF ArrivalIsRight
<1> DEFINE new == [arrival[q] EXCEPT !.step = step, !.home = where, !.takes = i]
<1>3. arrival' = [arrival EXCEPT ![q] = new]
      /\ UNCHANGED <<identity, home, users, invite, invited>>
  BY <1>1 DEF Proceeds
<1>4. /\ new \in Arrival /\ new.step = step /\ new.subject = arrival[q].subject
      /\ new.user = arrival[q].user /\ new.first = arrival[q].first
      /\ new.home = where /\ new.takes = i
  BY <1>1 DEF Arrival
<1> HIDE DEF new
<1>5. /\ arrival' \in [Arrivals -> Arrival] /\ arrival'[q] = new
      /\ \A p \in Arrivals \ {q} : arrival'[p] = arrival[p]
  BY <1>1, <1>3, <1>4
<1>6. new.home \in (IF new.first THEN {"own", "guest"} ELSE {"kept", "own", "guest"})
  <2>1. CASE new.first
    BY <1>4, <2>1
  <2>2. CASE ~ new.first
    BY <1>4, <2>2
  <2>3. QED
    BY <2>1, <2>2
<1>7. Takes(q)' <=> i # NoInvite
  BY <1>4, <1>5 DEF Takes
<1>8. Inserting(q)' <=> arrival[q].first
  BY <1>4, <1>5 DEF Inserting
<1>9. ArrivalIsRight(q)'
  BY <1>2, <1>3, <1>4, <1>5, <1>6, <1>7, <1>8 DEF ArrivalIsRight
<1>10. Inserting(q)' => \A p \in Arrivals \ {q} :
           Inserting(p) => arrival[p].user # arrival'[q].user /\ arrival[p].subject # arrival'[q].subject
  BY <1>4, <1>5, <1>8 DEF OnboardingInv, ArrivalsDiffer
<1>11. Takes(q)' => \A p \in Arrivals \ {q} : Takes(p) => arrival[p].takes # arrival'[q].takes
  BY <1>4, <1>5, <1>7
<1>12. QED
  BY <1>3, <1>5, <1>9, <1>10, <1>11, ArrivalMoves

LEMMA ChosenStep ==
  ASSUME OnboardingInv, NEW q \in Arrivals, HomeIsChosen(q)
  PROVE  OnboardingInv'
<1>1. /\ arrival[q].step = IF arrival[q].first THEN "inserted" ELSE "looked"
      /\ arrival \in [Arrivals -> Arrival] /\ arrival[q] \in Arrival /\ ArrivalIsRight(q)
  BY OnboardingTypes DEF HomeIsChosen, OnboardingInv, ArrivalsAreRight
<1>2. arrival[q].step # "idle" /\ (arrival[q].first => Inserting(q))
  BY <1>1 DEF Inserting
<1>3. /\ arrival[q].subject \in Subjects /\ arrival[q].user \in Emails
      /\ ~arrival[q].first => arrival[q].user \in users
      /\ arrival[q].first => arrival[q].user = EmailOf[arrival[q].subject]
  BY <1>1, <1>2 DEF ArrivalIsRight
<1>4. \A i \in Invites : invite[i].state = "open" => invite[i].taken = 0
  BY DEF OnboardingInv, InvitesAreTakenOnce
<1>5. CASE SelectedIsTaken(q)
  <2>1. PICK i \in Invites : /\ i # NoInvite /\ i \in OpenFor(EmailOf[arrival[q].subject])
                            /\ InviteIsFree(i) /\ Proceeds(q, "chosen", "guest", i)
    BY <1>5 DEF SelectedIsTaken, OpenFor, Chooses
  <2>2. invite[i].state = "open" /\ invite[i].email = EmailOf[arrival[q].subject]
    BY <2>1 DEF OpenFor
  <2>3. ASSUME NEW p \in Arrivals \ {q}, Takes(p) PROVE arrival[p].takes # i
    <3>1. CASE Inserting(q) \/ Inserting(p)
      BY <1>2, <2>2, <2>3, <3>1, TakersDiffer
    <3>2. CASE ~Inserting(p)
      <4>1. ArrivalIsRight(p)
        BY DEF OnboardingInv, ArrivalsAreRight
      <4>2. arrival[p].step = "chosen"
        BY <2>3, <3>2, <4>1 DEF Takes, Inserting, ArrivalIsRight
      <4>3. QED
        BY <2>1, <4>2 DEF InviteIsFree
    <3>3. QED
      BY <3>1, <3>2
  <2>4. QED
    BY <1>2, <1>4, <2>1, <2>2, <2>3, ProceedsStep
<1>6. CASE FirstHomeIsFound(q)
  <2>1. arrival[q].first /\ Inserting(q)
    BY <1>2, <1>6 DEF FirstHomeIsFound
  <2>2. ASSUME NEW i \in OpenFor(arrival[q].user), Proceeds(q, "offered", "guest", i)
        PROVE  OnboardingInv'
    <3>1. /\ i \in Invites /\ i # NoInvite /\ invite[i].state = "open"
          /\ invite[i].email = EmailOf[arrival[q].subject]
      BY <1>3, <2>1, OnboardingAssumption DEF OpenFor
    <3>2. \A p \in Arrivals \ {q} : Takes(p) => arrival[p].takes # i
      BY <1>2, <2>1, <3>1, TakersDiffer
    <3>3. QED
      BY <1>2, <1>4, <2>1, <2>2, <3>1, <3>2, ProceedsStep
  <2>3. CASE Proceeds(q, "chosen", "own", NoInvite)
    BY <1>2, <2>1, <2>3, ProceedsStep
  <2>4. QED
    BY <1>6, <2>2, <2>3 DEF FirstHomeIsFound, Chooses
<1>7. CASE KnownHomeIsFound(q)
  <2> DEFINE where == IF home[arrival[q].user].guest = "active" \/ home[arrival[q].user].own > 0
                      THEN "kept" ELSE "own"
  <2>1. ~arrival[q].first /\ Proceeds(q, "chosen", where, NoInvite)
    BY <1>7 DEF KnownHomeIsFound, Chooses
  <2>2. where = "own" => home[arrival[q].user].guest # "none"
    BY <1>3, <2>1 DEF OnboardingInv, OnboardedOnce
  <2>3. where \in {"kept", "own", "guest"}
    OBVIOUS
  <2> HIDE DEF where
  <2>4. QED
    BY <1>2, <2>1, <2>2, <2>3, ProceedsStep
<1>8. QED
  BY <1>5, <1>6, <1>7 DEF HomeIsChosen

LEMMA OfferStep ==
  ASSUME OnboardingInv, NEW q \in Arrivals, OfferIsTaken(q)
  PROVE  OnboardingInv'
<1>1. /\ arrival[q].step = "offered" /\ ArrivalIsRight(q) /\ arrival[q] \in Arrival
      /\ Proceeds(q, "chosen", "guest", arrival[q].takes)
  BY OnboardingTypes DEF OfferIsTaken, Chooses, OnboardingInv, ArrivalsAreRight
<1>2. arrival[q].first /\ Inserting(q) /\ Takes(q) /\ arrival[q].takes \in Invites \cup {NoInvite}
  BY <1>1 DEF ArrivalIsRight, Inserting, Takes, Arrival
<1>3. /\ invite[arrival[q].takes].state # "none" /\ invite[arrival[q].takes].taken = 0
      /\ invite[arrival[q].takes].email = EmailOf[arrival[q].subject]
  BY <1>1, <1>2 DEF ArrivalIsRight
<1>4. \A p \in Arrivals \ {q} : Takes(p) => arrival[p].takes # arrival[q].takes
  BY <1>2 DEF OnboardingInv, ArrivalsDiffer
<1>5. QED
  BY <1>1, <1>2, <1>3, <1>4, ProceedsStep

LEMMA CommitsStepOnb ==
  ASSUME OnboardingInv, NEW q \in Arrivals, ArrivalCommits(q)
  PROVE  OnboardingInv'
<1> DEFINE me == arrival[q]
<1>1. /\ me.step = "chosen" /\ Rolls(q) /\ invited' = invited /\ users' = users \cup {me.user}
      /\ identity' = [identity EXCEPT ![me.subject] = me.user]
      /\ home' = [home EXCEPT
             ![me.user].guest = IF me.home = "guest" THEN "active" ELSE @,
             ![me.user].own = IF me.home = "own" THEN @ + 1 ELSE @]
      /\ invite' = IF me.takes = NoInvite THEN invite
                   ELSE [invite EXCEPT ![me.takes].state = "taken", ![me.takes].taken = @ + 1]
  BY DEF ArrivalCommits
<1>2. /\ identity \in [Subjects -> Emails \cup {NoUser}] /\ home \in [Emails -> HomeRow]
      /\ users \subseteq Emails /\ invite \in [Invites -> InviteRow]
      /\ arrival \in [Arrivals -> Arrival] /\ invited \in 0 .. MaxInvited /\ me \in Arrival
      /\ ArrivalIsRight(q)
  BY OnboardingTypes DEF OnboardingInv, ArrivalsAreRight
<1>3. /\ me.subject \in Subjects /\ me.user \in Emails /\ me.takes \in Invites \cup {NoInvite}
      /\ me.home \in {"kept", "own", "guest"} /\ me.first \in BOOLEAN
      /\ me.home = "kept" => ~me.first
      /\ ~me.first => identity[me.subject] = me.user /\ me.user \in users
      /\ me.first => Inserting(q) /\ identity[me.subject] = NoUser /\ me.user \notin users
      /\ me.home = "own" /\ ~me.first => home[me.user].guest # "none"
      /\ me.takes # NoInvite => invite[me.takes].state # "none" /\ invite[me.takes].taken = 0
  BY <1>1, <1>2 DEF ArrivalIsRight, Inserting, Arrival, Takes
<1>4. /\ arrival' \in [Arrivals -> Arrival] /\ arrival'[q].step = "idle"
      /\ \A p \in Arrivals \ {q} : arrival'[p] = arrival[p]
  BY <1>1, RollsStep
<1> HIDE DEF me
<1>5. /\ home' \in [Emails -> HomeRow]
      /\ \A u \in Emails \ {me.user} : home'[u] = home[u]
      /\ home'[me.user].guest = (IF me.home = "guest" THEN "active" ELSE home[me.user].guest)
      /\ home'[me.user].own = (IF me.home = "own" THEN home[me.user].own + 1 ELSE home[me.user].own)
  <2> DEFINE guest == IF me.home = "guest" THEN "active" ELSE home[me.user].guest
  <2> DEFINE own == IF me.home = "own" THEN home[me.user].own + 1 ELSE home[me.user].own
  <2> DEFINE new == [home[me.user] EXCEPT !.guest = guest, !.own = own]
  <2>1. home' = [home EXCEPT ![me.user] = new]
    BY <1>1, <1>2, <1>3 DEF HomeRow
  <2>2. home[me.user] \in HomeRow
    BY <1>2, <1>3
  <2>3. guest \in {"none", "active", "removed"} /\ own \in Nat
    BY <2>2 DEF HomeRow
  <2> HIDE DEF guest, own
  <2>4. new \in HomeRow /\ new.guest = guest /\ new.own = own
    BY <2>2, <2>3 DEF HomeRow
  <2> HIDE DEF new
  <2>5. QED
    BY <1>2, <1>3, <2>1, <2>4 DEF guest, own
<1>6. /\ invite' \in [Invites -> InviteRow]
      /\ \A i \in Invites : i # me.takes => invite'[i] = invite[i]
      /\ \A i \in Invites : invite'[i].email = invite[i].email
      /\ \A i \in Invites : i = me.takes /\ i # NoInvite =>
            invite'[i].state = "taken" /\ invite'[i].taken = 1
  <2>1. CASE me.takes = NoInvite
    BY <1>1, <1>2, <2>1
  <2>2. CASE me.takes # NoInvite
    <3>1. me.takes \in Invites /\ invite[me.takes] \in InviteRow /\ invite[me.takes].taken = 0
      BY <1>2, <1>3, <2>2
    <3> DEFINE new == [invite[me.takes] EXCEPT !.state = "taken", !.taken = 1]
    <3>2. invite' = [invite EXCEPT ![me.takes] = new]
      BY <1>1, <1>2, <2>2, <3>1 DEF InviteRow
    <3>3. new \in InviteRow /\ new.state = "taken" /\ new.taken = 1 /\ new.email = invite[me.takes].email
      BY <3>1 DEF InviteRow
    <3> HIDE DEF new
    <3>4. QED
      BY <1>2, <3>1, <3>2, <3>3
  <2>3. QED
    BY <2>1, <2>2
<1>7. OnboardingTypeOK'
  <2>1. identity' \in [Subjects -> Emails \cup {NoUser}] /\ users' \subseteq Emails
    BY <1>1, <1>2, <1>3
  <2>2. QED
    BY <1>1, <1>2, <1>4, <1>5, <1>6, <2>1, NextOnboardingTypes
<1>8. \A p \in Arrivals \ {q} :
         /\ Inserting(p)' <=> Inserting(p)
         /\ Inserting(p) => arrival[p].user # me.user /\ arrival[p].subject # me.subject
  <2> SUFFICES ASSUME NEW p \in Arrivals \ {q}, Inserting(p)
               PROVE  arrival[p].user # me.user /\ arrival[p].subject # me.subject
    BY <1>4 DEF Inserting
  <2>1. identity[arrival[p].subject] = NoUser /\ arrival[p].user \notin users
    BY DEF OnboardingInv, ArrivalsAreRight, ArrivalIsRight
  <2>2. CASE me.first
    BY <1>3, <2>2 DEF OnboardingInv, ArrivalsDiffer, me
  <2>3. CASE ~ me.first
    BY <1>3, <2>1, <2>3, OnboardingAssumption
  <2>4. QED
    BY <1>3, <2>2, <2>3
<1>9. \A s \in Subjects : identity'[s] = (IF s = me.subject THEN me.user ELSE identity[s])
  BY <1>1, <1>2, <1>3
<1>10. ArrivalsAreRight'
  <2> SUFFICES ASSUME NEW p \in Arrivals, p # q PROVE ArrivalIsRight(p)'
    BY <1>4 DEF ArrivalsAreRight, ArrivalIsRight, Inserting, Takes
  <2>0. p \in Arrivals \ {q}
    OBVIOUS
  <2>1. /\ arrival'[p] = arrival[p] /\ ArrivalIsRight(p) /\ arrival[p] \in Arrival
        /\ Inserting(p)' <=> Inserting(p)
    <3>1. arrival'[p] = arrival[p]
      BY <1>4, <2>0
    <3>2. ArrivalIsRight(p) /\ arrival[p] \in Arrival
      BY <1>2 DEF OnboardingInv, ArrivalsAreRight
    <3>3. Inserting(p)' <=> Inserting(p)
      BY <3>1 DEF Inserting
    <3>4. QED
      BY <3>1, <3>2, <3>3
  <2>2. arrival[p].step # "idle" => arrival[p].subject \in Subjects /\ arrival[p].user \in Emails
    BY <2>1 DEF ArrivalIsRight
  <2>3. arrival[p].step # "idle" /\ ~arrival[p].first =>
             identity'[arrival[p].subject] = arrival[p].user /\ arrival[p].user \in users'
    <3> SUFFICES ASSUME arrival[p].step # "idle", ~arrival[p].first
                 PROVE  identity'[arrival[p].subject] = arrival[p].user /\ arrival[p].user \in users'
      OBVIOUS
    <3>1. identity[arrival[p].subject] = arrival[p].user /\ arrival[p].user \in users
      BY <2>1 DEF ArrivalIsRight
    <3>2. arrival[p].subject = me.subject => arrival[p].user = me.user
      <4>1. CASE me.first
        BY <1>3, <2>2, <3>1, <4>1, OnboardingAssumption
      <4>2. CASE ~ me.first
        BY <1>3, <3>1, <4>2
      <4>3. QED
        BY <4>1, <4>2
    <3>3. QED
      BY <1>1, <1>9, <2>2, <3>1, <3>2
  <2>4. Inserting(p) => identity'[arrival[p].subject] = NoUser /\ arrival[p].user \notin users'
    <3>1. Inserting(p) => arrival[p].subject \in Subjects
      BY <2>2 DEF Inserting
    <3>2. Inserting(p) => identity[arrival[p].subject] = NoUser /\ arrival[p].user \notin users
      BY <2>1 DEF ArrivalIsRight
    <3>3. Inserting(p) => arrival[p].user # me.user /\ arrival[p].subject # me.subject
      BY <1>8, <2>0
    <3>4. ASSUME Inserting(p)
          PROVE  identity'[arrival[p].subject] = NoUser /\ arrival[p].user \notin users'
      <4>1. arrival[p].subject \in Subjects /\ arrival[p].subject # me.subject
        BY <3>1, <3>3, <3>4
      <4>2. identity'[arrival[p].subject] = NoUser
        BY <1>9, <3>2, <3>4, <4>1
      <4>3. arrival[p].user \notin users'
        BY <1>1, <3>2, <3>3, <3>4
      <4>4. QED
        BY <4>2, <4>3
    <3>5. QED
      BY <3>4
  <2>5. arrival[p].step = "chosen" /\ arrival[p].home = "own" /\ ~arrival[p].first =>
             home'[arrival[p].user].guest # "none"
    BY <1>5, <2>1, <2>2 DEF ArrivalIsRight
  <2>6. Takes(p) => /\ invite'[arrival[p].takes].state # "none" /\ invite'[arrival[p].takes].taken = 0
                    /\ invite'[arrival[p].takes].email = EmailOf[arrival[p].subject]
    <3> SUFFICES ASSUME Takes(p)
                 PROVE  /\ invite'[arrival[p].takes].state # "none" /\ invite'[arrival[p].takes].taken = 0
                        /\ invite'[arrival[p].takes].email = EmailOf[arrival[p].subject]
      OBVIOUS
    <3>1. arrival[p].takes # me.takes
      <4>1. me.takes # NoInvite => Takes(q)
        BY <1>1 DEF Takes, me
      <4>2. QED
        BY <4>1 DEF OnboardingInv, ArrivalsDiffer, Takes, me
    <3>2. arrival[p].takes \in Invites
      BY <2>1 DEF Arrival, Takes
    <3>3. QED
      BY <1>6, <2>1, <3>1, <3>2 DEF ArrivalIsRight
  <2>7. Takes(p)' <=> Takes(p)
    BY <2>1 DEF Takes
  <2>8. QED
    BY <2>1, <2>2, <2>3, <2>4, <2>5, <2>6, <2>7 DEF ArrivalIsRight
<1>11. ArrivalsDiffer'
  <2>1. ~ Inserting(q)' /\ ~ Takes(q)'
    BY <1>4 DEF Inserting, Takes
  <2>2. ASSUME NEW a \in Arrivals, NEW p \in Arrivals, a # p, Inserting(a)', Inserting(p)'
        PROVE  arrival'[a].user # arrival'[p].user /\ arrival'[a].subject # arrival'[p].subject
    <3>1. a \in Arrivals \ {q} /\ p \in Arrivals \ {q}
      BY <2>1, <2>2
    <3>2. arrival'[a] = arrival[a] /\ arrival'[p] = arrival[p]
      BY <1>4, <3>1
    <3>3. Inserting(a) /\ Inserting(p)
      BY <2>2, <3>2 DEF Inserting
    <3>4. QED
      BY <2>2, <3>2, <3>3 DEF OnboardingInv, ArrivalsDiffer
  <2>3. ASSUME NEW a \in Arrivals, NEW p \in Arrivals, a # p, Takes(a)', Takes(p)'
        PROVE  arrival'[a].takes # arrival'[p].takes
    <3>1. a \in Arrivals \ {q} /\ p \in Arrivals \ {q}
      BY <2>1, <2>3
    <3>2. arrival'[a] = arrival[a] /\ arrival'[p] = arrival[p]
      BY <1>4, <3>1
    <3>3. Takes(a) /\ Takes(p)
      BY <2>3, <3>2 DEF Takes
    <3>4. QED
      BY <2>3, <3>2, <3>3 DEF OnboardingInv, ArrivalsDiffer
  <2>4. QED
    BY <2>2, <2>3 DEF ArrivalsDiffer
<1>12. StrangersHaveNoHome'
  BY <1>1, <1>5 DEF OnboardingInv, StrangersHaveNoHome
<1>13. InvitesAreTakenOnce'
  <2> SUFFICES ASSUME NEW i \in Invites
               PROVE  /\ invite'[i].taken <= 1
                      /\ invite'[i].state \in {"none", "open"} => invite'[i].taken = 0
    BY DEF InvitesAreTakenOnce
  <2>1. CASE i = me.takes
    BY <1>6, <2>1, OnboardingAssumption
  <2>2. CASE i # me.takes
    BY <1>6, <2>2 DEF OnboardingInv, InvitesAreTakenOnce
  <2>3. QED
    BY <2>1, <2>2
<1>14. OnboardedOnce'
  <2>1. ASSUME NEW u \in users'
        PROVE  home'[u].own > 0 \/ home'[u].guest # "none"
    <3>1. CASE u # me.user
      BY <1>1, <1>2, <1>5, <2>1, <3>1 DEF OnboardingInv, OnboardedOnce
    <3>2. CASE u = me.user
      <4>1. home[u] \in HomeRow /\ home[u].own \in Nat
        BY <1>2, <1>3, <3>2 DEF HomeRow
      <4>2. CASE me.home = "guest"
        BY <1>5, <3>2, <4>2
      <4>3. CASE me.home = "own"
        BY <1>5, <3>2, <4>1, <4>3
      <4>4. CASE me.home = "kept"
        <5>1. home[u].own > 0 \/ home[u].guest # "none"
          BY <1>3, <3>2, <4>4 DEF OnboardingInv, OnboardedOnce
        <5>2. QED
          BY <1>5, <3>2, <4>4, <5>1
      <4>5. QED
        BY <1>3, <4>2, <4>3, <4>4
    <3>3. QED
      BY <3>1, <3>2
  <2>2. \A s \in Subjects : identity'[s] # NoUser => identity'[s] \in users'
    BY <1>1, <1>9 DEF OnboardingInv, OnboardedOnce
  <2>3. ASSUME NEW u \in Emails, home'[u].own > 1
        PROVE  home'[u].guest # "none"
    <3>1. CASE u # me.user
      BY <1>5, <2>3, <3>1 DEF OnboardingInv, OnboardedOnce
    <3>2. CASE u = me.user
      <4>1. home[u] \in HomeRow /\ home[u].own \in Nat
        BY <1>2, <1>3, <3>2 DEF HomeRow
      <4>2. CASE me.home = "guest"
        BY <1>5, <3>2, <4>2
      <4>3. CASE me.home = "own" /\ me.first
        <5>1. home[u].own = 0
          BY <1>3, <3>2, <4>3 DEF OnboardingInv, StrangersHaveNoHome
        <5>2. QED
          BY <1>5, <2>3, <3>2, <4>3, <5>1
      <4>4. CASE me.home = "own" /\ ~ me.first
        BY <1>3, <1>5, <3>2, <4>4
      <4>5. CASE me.home = "kept"
        BY <1>5, <2>3, <3>2, <4>5 DEF OnboardingInv, OnboardedOnce
      <4>6. QED
        BY <1>3, <4>2, <4>3, <4>4, <4>5
    <3>3. QED
      BY <3>1, <3>2
  <2>4. QED
    BY <1>13, <2>1, <2>2, <2>3 DEF OnboardedOnce, InvitesAreTakenOnce
<1>15. QED
  BY <1>7, <1>10, <1>11, <1>12, <1>13, <1>14 DEF OnboardingInv

\* Others change the invitations, the memberships and the links.
LEMMA OthersMove ==
  ASSUME OnboardingInv, OnboardingTypeOK', UNCHANGED <<arrival, users>>,
         \A s \in Subjects :
            \/ identity'[s] = identity[s]
            \/ /\ identity[s] = NoUser /\ identity'[s] \in users
               /\ \A p \in Arrivals : Inserting(p) => arrival[p].subject # s,
         \A u \in Emails : /\ home'[u].own = home[u].own
                           /\ home[u].guest # "none" => home'[u].guest # "none",
         \A i \in Invites :
            /\ invite[i].state # "none" =>
                  invite'[i].state # "none" /\ invite'[i].email = invite[i].email
            /\ \/ /\ invite'[i].taken = invite[i].taken
                  /\ invite'[i].state \in {"none", "open"} => invite'[i].taken = 0
               \/ /\ invite[i].taken = 0 /\ invite'[i].taken = 1 /\ invite'[i].state = "taken"
                  /\ InviteIsFree(i) /\ invite[i].email \in users
  PROVE  OnboardingInv'
<1>1. ArrivalsAreRight'
  <2> SUFFICES ASSUME NEW p \in Arrivals PROVE ArrivalIsRight(p)'
    BY DEF ArrivalsAreRight
  <2>1. ArrivalIsRight(p) /\ arrival[p] \in Arrival /\ users \subseteq Emails
    BY OnboardingTypes DEF OnboardingInv, ArrivalsAreRight
  <2>2. arrival[p].step # "idle" /\ ~arrival[p].first =>
            identity'[arrival[p].subject] = arrival[p].user
    BY <2>1, OnboardingAssumption DEF ArrivalIsRight
  <2>3. Inserting(p) => identity'[arrival[p].subject] = NoUser
    BY <2>1 DEF ArrivalIsRight, Inserting
  <2>4. Takes(p) => /\ invite'[arrival[p].takes].state # "none" /\ invite'[arrival[p].takes].taken = 0
                    /\ invite'[arrival[p].takes].email = EmailOf[arrival[p].subject]
    <3> SUFFICES ASSUME Takes(p)
                 PROVE  /\ invite'[arrival[p].takes].state # "none" /\ invite'[arrival[p].takes].taken = 0
                        /\ invite'[arrival[p].takes].email = EmailOf[arrival[p].subject]
      OBVIOUS
    <3>1. PICK i \in Invites : i = arrival[p].takes
      BY <2>1 DEF Arrival, Takes
    <3>2. /\ invite[i].state # "none" /\ invite[i].taken = 0
          /\ invite[i].email = EmailOf[arrival[p].subject]
      BY <2>1, <3>1 DEF ArrivalIsRight
    <3>3. ~(InviteIsFree(i) /\ invite[i].email \in users)
      <4>1. CASE arrival[p].step = "chosen"
        BY <3>1, <4>1 DEF InviteIsFree
      <4>2. CASE arrival[p].step = "offered"
        BY <2>1, <3>2, <4>2 DEF ArrivalIsRight, Inserting
      <4>3. QED
        BY <4>1, <4>2 DEF Takes
    <3>4. QED
      BY <3>1, <3>2, <3>3
  <2>5. arrival[p].step = "chosen" /\ arrival[p].home = "own" /\ ~arrival[p].first =>
            home'[arrival[p].user].guest # "none"
    BY <2>1 DEF ArrivalIsRight
  <2>6. (Inserting(p)' <=> Inserting(p)) /\ (Takes(p)' <=> Takes(p))
    BY DEF Inserting, Takes
  <2>7. QED
    BY <2>1, <2>2, <2>3, <2>4, <2>5, <2>6 DEF ArrivalIsRight
<1>2. ArrivalsDiffer' /\ StrangersHaveNoHome'
  BY DEF OnboardingInv, ArrivalsDiffer, Inserting, Takes, StrangersHaveNoHome
<1>3. InvitesAreTakenOnce'
  BY DEF OnboardingInv, InvitesAreTakenOnce
<1>4. users \subseteq Emails
  BY OnboardingTypes DEF OnboardingInv
<1>5. OnboardedOnce'
  BY <1>3, <1>4 DEF OnboardingInv, OnboardedOnce, InvitesAreTakenOnce
<1>6. QED
  BY <1>1, <1>2, <1>3, <1>5 DEF OnboardingInv

LEMMA OthersStep ==
  ASSUME OnboardingInv,
         \/ \E i \in Invites : \/ InviteLapses(i) \/ LegacyAcceptance(i)
                              \/ \E u \in Emails : IsInvited(i, u)
         \/ \E u \in Emails : GuestIsRemoved(u) \/ \E s \in Subjects : SubjectIsLinked(s, u)
         \/ UNCHANGED onboardingVars
  PROVE  OnboardingInv'
<1>1. /\ identity \in [Subjects -> Emails \cup {NoUser}] /\ home \in [Emails -> HomeRow]
      /\ users \subseteq Emails /\ invite \in [Invites -> InviteRow]
      /\ arrival \in [Arrivals -> Arrival] /\ invited \in 0 .. MaxInvited
      /\ InvitesAreTakenOnce
  BY OnboardingTypes DEF OnboardingInv
<1>2. \A i \in Invites : invite[i].state \in {"none", "open"} => invite[i].taken = 0
  BY <1>1 DEF InvitesAreTakenOnce
<1>3. CASE UNCHANGED onboardingVars
  <2>1. UNCHANGED <<identity, home, users, invite, arrival, invited>>
    BY <1>3 DEF onboardingVars
  <2>2. QED
    BY <1>1, <1>2, <2>1, NextOnboardingTypes, OthersMove
<1>4. ASSUME NEW i \in Invites, InviteLapses(i) PROVE OnboardingInv'
  <2> DEFINE new == [invite[i] EXCEPT !.state = "lapsed"]
  <2>1. /\ invite[i].state = "open" /\ UNCHANGED <<identity, home, users, arrival, invited>>
        /\ invite' = [invite EXCEPT ![i] = new]
    BY <1>1, <1>4 DEF InviteLapses
  <2>2. /\ new \in InviteRow /\ new.state = "lapsed" /\ new.taken = invite[i].taken
        /\ new.email = invite[i].email
    BY <1>1 DEF InviteRow
  <2> HIDE DEF new
  <2>3. /\ invite' \in [Invites -> InviteRow] /\ invite'[i] = new
        /\ \A j \in Invites \ {i} : invite'[j] = invite[j]
    BY <1>1, <2>1, <2>2
  <2>4. QED
    BY <1>1, <1>2, <2>1, <2>2, <2>3, NextOnboardingTypes, OthersMove
<1>5. ASSUME NEW i \in Invites, NEW u \in Emails, IsInvited(i, u) PROVE OnboardingInv'
  <2> DEFINE new == [state |-> "open", email |-> u, taken |-> 0]
  <2>1. /\ invite[i].state = "none" /\ UNCHANGED <<identity, home, users, arrival>>
        /\ invite' = [invite EXCEPT ![i] = new] /\ invited' \in 0 .. MaxInvited
    BY <1>1, <1>5, OnboardingAssumption DEF IsInvited
  <2>2. new \in InviteRow /\ new.state = "open" /\ new.taken = 0
    BY DEF InviteRow
  <2> HIDE DEF new
  <2>3. /\ invite' \in [Invites -> InviteRow] /\ invite'[i] = new
        /\ \A j \in Invites \ {i} : invite'[j] = invite[j]
    BY <1>1, <2>1, <2>2
  <2>4. QED
    BY <1>1, <1>2, <2>1, <2>2, <2>3, NextOnboardingTypes, OthersMove
<1>6. ASSUME NEW i \in Invites, LegacyAcceptance(i) PROVE OnboardingInv'
  <2> DEFINE u == invite[i].email
  <2> DEFINE new == [invite[i] EXCEPT !.state = "taken", !.taken = 1]
  <2> DEFINE guest == [home[u] EXCEPT !.guest = "active"]
  <2>1. /\ invite[i].state = "open" /\ u \in users /\ InviteIsFree(i)
        /\ UNCHANGED <<identity, users, arrival, invited>>
        /\ invite[i].taken = 0 /\ u \in Emails /\ invite[i].email \in users
    BY <1>1, <1>2, <1>6 DEF LegacyAcceptance
  <2>2. invite' = [invite EXCEPT ![i] = new]
    BY <1>1, <1>6, <2>1 DEF LegacyAcceptance, InviteRow
  <2>3. home' = [home EXCEPT ![u] = guest]
    BY <1>1, <1>6, <2>1 DEF LegacyAcceptance
  <2> HIDE DEF u
  <2>4. new \in InviteRow /\ new.state = "taken" /\ new.taken = 1 /\ new.email = invite[i].email
    BY <1>1 DEF InviteRow
  <2>5. guest \in HomeRow /\ guest.guest = "active" /\ guest.own = home[u].own
    BY <1>1, <2>1 DEF HomeRow
  <2> HIDE DEF new, guest
  <2>6. /\ invite' \in [Invites -> InviteRow] /\ invite'[i] = new
        /\ \A j \in Invites \ {i} : invite'[j] = invite[j]
    BY <1>1, <2>2, <2>4
  <2>7. /\ home' \in [Emails -> HomeRow] /\ home'[u] = guest
        /\ \A v \in Emails \ {u} : home'[v] = home[v]
    BY <1>1, <2>1, <2>3, <2>5
  <2>8. \A v \in Emails : /\ home'[v].own = home[v].own
                          /\ home[v].guest # "none" => home'[v].guest # "none"
    BY <2>5, <2>7
  <2>9. QED
    BY <1>1, <1>2, <2>1, <2>4, <2>6, <2>7, <2>8, NextOnboardingTypes, OthersMove
<1>7. ASSUME NEW u \in Emails, GuestIsRemoved(u) PROVE OnboardingInv'
  <2> DEFINE guest == [home[u] EXCEPT !.guest = "removed"]
  <2>1. /\ UNCHANGED <<identity, users, invite, arrival>> /\ invited' \in 0 .. MaxInvited
        /\ home' = [home EXCEPT ![u] = guest]
    BY <1>1, <1>7, OnboardingAssumption DEF GuestIsRemoved
  <2>2. guest \in HomeRow /\ guest.guest = "removed" /\ guest.own = home[u].own
    BY <1>1 DEF HomeRow
  <2> HIDE DEF guest
  <2>3. /\ home' \in [Emails -> HomeRow] /\ home'[u] = guest
        /\ \A v \in Emails \ {u} : home'[v] = home[v]
    BY <1>1, <2>1, <2>2
  <2>4. \A v \in Emails : /\ home'[v].own = home[v].own
                          /\ home[v].guest # "none" => home'[v].guest # "none"
    BY <2>2, <2>3
  <2>5. QED
    BY <1>1, <1>2, <2>1, <2>3, <2>4, NextOnboardingTypes, OthersMove
<1>8. ASSUME NEW u \in Emails, NEW s \in Subjects, SubjectIsLinked(s, u) PROVE OnboardingInv'
  <2>1. /\ identity[s] = NoUser /\ u \in users
        /\ \A p \in Arrivals : Inserting(p) => arrival[p].subject # s
        /\ identity' = [identity EXCEPT ![s] = u]
        /\ UNCHANGED <<home, users, invite, arrival, invited>>
    BY <1>8 DEF SubjectIsLinked
  <2>2. identity' \in [Subjects -> Emails \cup {NoUser}] /\ identity'[s] = u
        /\ \A t \in Subjects \ {s} : identity'[t] = identity[t]
    BY <1>1, <2>1
  <2>3. QED
    BY <1>1, <1>2, <2>1, <2>2, NextOnboardingTypes, OthersMove
<1>9. QED
  BY <1>3, <1>4, <1>5, <1>6, <1>7, <1>8

LEMMA OnboardingStep ==
  ASSUME OnboardingInv, [OnboardingNext]_onboardingVars
  PROVE  OnboardingInv'
<1>1. ASSUME NEW q \in Arrivals,
             \/ AccountIsInserted(q) \/ HomeIsChosen(q) \/ OfferIsTaken(q)
             \/ ArrivalCommits(q) \/ ArrivalFails(q)
             \/ \E s \in Subjects, i \in Invites \cup {NoInvite} : ArrivalLooksUp(q, s, i)
      PROVE  OnboardingInv'
  BY <1>1, InsertedStep, ChosenStep, OfferStep, CommitsStepOnb, FailsStep, LooksUpStep
<1>2. QED
  BY <1>1, OthersStep DEF OnboardingNext

LEMMA OnboardingBegins == OnboardingInit => OnboardingInv
<1> SUFFICES ASSUME OnboardingInit PROVE OnboardingInv
  OBVIOUS
<1>1. OnboardingTypeOK
  <2>1. identity \in [Subjects -> Emails \cup {NoUser}] /\ users \subseteq Emails
        /\ invited \in 0 .. MaxInvited
    BY OnboardingAssumption DEF OnboardingInit
  <2>2. home \in [Emails -> HomeRow] /\ invite \in [Invites -> InviteRow]
    BY DEF OnboardingInit, HomeRow, InviteRow
  <2>3. arrival \in [Arrivals -> Arrival]
    BY NoArrivalType DEF OnboardingInit
  <2>4. QED
    BY <2>1, <2>2, <2>3, OnboardingTypes
<1>2. \A q \in Arrivals : arrival[q] = NoArrival
  BY DEF OnboardingInit
<1>3. ArrivalsAreRight /\ ArrivalsDiffer
  BY <1>2, NoArrivalType DEF ArrivalsAreRight, ArrivalIsRight, ArrivalsDiffer, Inserting, Takes
<1>4. StrangersHaveNoHome /\ InvitesAreTakenOnce /\ OnboardedOnce
  BY DEF OnboardingInit, StrangersHaveNoHome, InvitesAreTakenOnce, OnboardedOnce
<1>5. QED
  BY <1>1, <1>3, <1>4 DEF OnboardingInv

LEMMA OnboardingInvariant == OnboardingSpec => []OnboardingInv
<1>1. OnboardingInv /\ [OnboardingNext]_onboardingVars => OnboardingInv'
  BY OnboardingStep
<1>2. QED
  BY OnboardingBegins, <1>1, PTL DEF OnboardingSpec

\* However the requests of one browser, the callbacks of the identity provider
\* and first logins of one subject or address overlap: a flow yields at most one
\* session, at most one step-up renews a session and ends it, and no session
\* that a browser holds outlives the one it was renewed from (oidc_callback,
\* stage_new_session_with_parent_deadline); a user is made with a home, and
\* with no second one of their own unless they were a guest, and an invitation
\* is taken at most once (_resolve_identity_context_uncommitted).
THEOREM SignInsAreOnceAlways == SignInSpec /\ OnboardingSpec => []SignInsAreOnce
<1>1. SignInInv /\ OnboardingInv => SignInsAreOnce
  BY SignInIsSafe DEF OnboardingInv, SignInsAreOnce
<1>2. QED
  BY SignInInvariant, OnboardingInvariant, <1>1, PTL

-------------------------------------------------------------------------------
(***************************************************************************)
(* The members of a tenant. A request under locks acts with what the       *)
(* locked rows say.                                                        *)
(***************************************************************************)

\* A request under locks has them from the guard, and what it acts with is what
\* the locked rows say.
RequestIsRight(h) ==
    /\ handler[h].step # "idle" => handler[h].user \in Members
    /\ handler[h].step \in {"idle", "entered"} => ~handler[h].locks
    /\ handler[h].step = "locked" => handler[h].locks
    /\ handler[h].locks =>
         /\ signedIn[handler[h].user].live
         /\ member[handler[h].user].state = "active"
         /\ handler[h].role = member[handler[h].user].role

RequestsAreRight == \A h \in Handlers : RequestIsRight(h)

\* What a change has read makes it keep away from the founder.
ChangesAreRight ==
    \A c \in Changes :
        /\ change[c].kind # "none" => change[c].user \in Members
        /\ change[c].kind = "remove" => change[c].user # Founder
        /\ change[c].kind = "role" /\ change[c].user = Founder => change[c].new = "OWNER"

InvitationsAreRight ==
    \A i \in Invitations : invitation[i].state = "open" => invitation[i].user \in Members

FounderStands == member[Founder] = [state |-> "active", role |-> "OWNER"]

TeamInv ==
    /\ TeamTypeOK /\ RequestsAreRight /\ ChangesAreRight /\ InvitationsAreRight
    /\ FounderStands

-------------------------------------------------------------------------------
(* Types, and the steps. *)

MemberRow == [state : {"none", "active", "removed"}, role : MemberRoles]
SessionRow == [live : BOOLEAN, role : MemberRoles]
Request == [step : {"idle", "entered", "locked", "acting"},
            user : Members \cup {NoMember}, role : MemberRoles, locks : BOOLEAN]
TeamChange == [kind : {"none", "role", "remove"}, user : Members \cup {NoMember},
               read : MemberRoles, new : MemberRoles]
InvitationRow == [state : {"none", "open", "accepted", "expired"},
                  user : Members \cup {NoMember}, role : MemberRoles]

LEMMA TeamTypes ==
  TeamTypeOK <=> /\ member \in [Members -> MemberRow] /\ signedIn \in [Members -> SessionRow]
                 /\ handler \in [Handlers -> Request] /\ change \in [Changes -> TeamChange]
                 /\ invitation \in [Invitations -> InvitationRow]
BY DEF TeamTypeOK, MemberRow, SessionRow, Request, TeamChange, InvitationRow

LEMMA NextTeamTypes ==
  TeamTypeOK' <=> /\ member' \in [Members -> MemberRow] /\ signedIn' \in [Members -> SessionRow]
                  /\ handler' \in [Handlers -> Request] /\ change' \in [Changes -> TeamChange]
                  /\ invitation' \in [Invitations -> InvitationRow]
BY DEF TeamTypeOK, MemberRow, SessionRow, Request, TeamChange, InvitationRow

LEMMA IdleRequest ==
  /\ Idle \in Request /\ Idle.step = "idle" /\ ~Idle.locks
  /\ NoChange \in TeamChange /\ NoChange.kind = "none"
<1>1. PICK b \in BOOLEAN : b = FALSE
  OBVIOUS
<1>2. Idle = [step |-> "idle", user |-> NoMember, role |-> "VIEWER", locks |-> b]
  BY <1>1 DEF Idle
<1>3. QED
  BY <1>1, <1>2 DEF Request, NoChange, TeamChange, MemberRoles

\* A step in which only requests move.
LEMMA RequestsMove ==
  ASSUME TeamInv, UNCHANGED <<member, change, invitation>>,
         signedIn' \in [Members -> SessionRow], handler' \in [Handlers -> Request],
         \A h \in Handlers : RequestIsRight(h)'
  PROVE  TeamInv'
<1>1. TeamTypeOK'
  BY TeamTypes, NextTeamTypes DEF TeamInv
<1>2. QED
  BY <1>1 DEF TeamInv, RequestsAreRight, ChangesAreRight, InvitationsAreRight, FounderStands

\* A request that moves, the rows of the others being as they were but for the
\* role on a session.
LEMMA RequestMoves ==
  ASSUME TeamInv, NEW h \in Handlers, NEW new, new \in Request,
         UNCHANGED <<member, change, invitation>>,
         signedIn' \in [Members -> SessionRow],
         \A u \in Members : signedIn'[u].live = signedIn[u].live,
         handler' = [handler EXCEPT ![h] = new],
         new.step # "idle" => new.user \in Members,
         new.step \in {"idle", "entered"} => ~new.locks,
         new.step = "locked" => new.locks,
         new.locks => /\ signedIn[new.user].live /\ member[new.user].state = "active"
                      /\ new.role = member[new.user].role
  PROVE  TeamInv'
<1>1. handler \in [Handlers -> Request]
  BY TeamTypes DEF TeamInv
<1>2. handler' \in [Handlers -> Request] /\ handler'[h] = new
      /\ \A g \in Handlers \ {h} : handler'[g] = handler[g]
  BY <1>1
<1>3. ASSUME NEW g \in Handlers PROVE RequestIsRight(g)'
  <2>1. CASE g = h
    <3>1. new.step = "acting" /\ new.locks => new.user \in Members
      OBVIOUS
    <3>2. new.step \in {"idle", "entered", "locked", "acting"}
      BY DEF Request
    <3>3. new.locks => new.user \in Members
      BY <3>1, <3>2
    <3>4. QED
      BY <2>1, <1>2, <3>3 DEF RequestIsRight
  <2>2. CASE g # h
    <3>1. g \in Handlers \ {h}
      BY <2>2
    <3>2. handler'[g] = handler[g] /\ RequestIsRight(g)
      BY <3>1, <1>2 DEF TeamInv, RequestsAreRight
    <3>3. handler[g].step \in {"idle", "entered", "locked", "acting"}
      BY <1>1 DEF Request
    <3>4. handler[g].locks => handler[g].user \in Members
      BY <3>2, <3>3 DEF RequestIsRight
    <3>5. QED
      BY <3>2, <3>4 DEF RequestIsRight
  <2>3. QED
    BY <2>1, <2>2
<1>4. QED
  BY <1>2, <1>3, RequestsMove

LEMMA EntersStep ==
  ASSUME TeamInv, NEW h \in Handlers, NEW u \in Members, RequestEnters(h, u)
  PROVE  TeamInv'
<1>1. PICK b \in BOOLEAN : b = FALSE
  OBVIOUS
<1> DEFINE new == [step |-> "entered", user |-> u, role |-> member[u].role, locks |-> b]
<1>2. member \in [Members -> MemberRow] /\ signedIn \in [Members -> SessionRow]
  BY TeamTypes DEF TeamInv
<1>3. member[u].role \in MemberRoles
  BY <1>2 DEF MemberRow
<1>4. new \in Request /\ new.step = "entered" /\ new.user = u /\ ~new.locks
  BY <1>1, <1>3 DEF Request
<1>5. handler' = [handler EXCEPT ![h] = new] /\ UNCHANGED <<member, change, invitation>>
      /\ signedIn' = [signedIn EXCEPT ![u].role = member[u].role]
  BY <1>1 DEF RequestEnters
<1>6. signedIn' \in [Members -> SessionRow]
      /\ \A v \in Members : signedIn'[v].live = signedIn[v].live
  BY <1>2, <1>3, <1>5 DEF SessionRow
<1> HIDE DEF new
<1>7. QED
  BY <1>4, <1>5, <1>6, RequestMoves

LEMMA LocksStep ==
  ASSUME TeamInv, NEW h \in Handlers, RequestLocks(h)
  PROVE  TeamInv'
<1> DEFINE u == handler[h].user
<1>1. PICK b \in BOOLEAN : b = TRUE
  OBVIOUS
<1>2. /\ member \in [Members -> MemberRow] /\ signedIn \in [Members -> SessionRow]
      /\ handler \in [Handlers -> Request] /\ RequestIsRight(h)
  BY TeamTypes DEF TeamInv, RequestsAreRight
<1>3. handler[h] \in Request /\ handler[h].step = "entered" /\ u \in Members
  BY <1>2 DEF RequestLocks, RequestIsRight
<1>4. UNCHANGED <<member, signedIn, change, invitation>>
      /\ \A v \in Members : signedIn'[v].live = signedIn[v].live
  BY DEF RequestLocks
<1>5. CASE signedIn[u].live /\ member[u].state = "active"
  <2> DEFINE new == [handler[h] EXCEPT !.step = "locked", !.role = member[u].role, !.locks = b]
  <2>3. member[u].role \in MemberRoles
    BY <1>2, <1>3 DEF MemberRow
  <2>4. new \in Request /\ new.step = "locked" /\ new.locks /\ new.user = u
        /\ new.role = member[u].role
    BY <1>1, <1>3, <2>3 DEF Request
  <2>5. handler' = [handler EXCEPT ![h] = new]
    BY <1>1, <1>5 DEF RequestLocks, LockedRole
  <2> HIDE DEF new
  <2>6. QED
    BY <1>2, <1>3, <1>4, <1>5, <2>4, <2>5, RequestMoves
<1>6. CASE ~(signedIn[u].live /\ member[u].state = "active")
  <2>1. handler' = [handler EXCEPT ![h] = Idle]
    BY <1>6 DEF RequestLocks
  <2>2. QED
    BY <1>2, <1>4, <2>1, IdleRequest, RequestMoves
<1>7. QED
  BY <1>5, <1>6

LEMMA GuardedStep ==
  ASSUME TeamInv, NEW h \in Handlers, RequestIsGuarded(h)
  PROVE  TeamInv'
<1> DEFINE u == handler[h].user
<1>1. PICK b \in BOOLEAN : b = ~(signedIn[u].role # member[u].role)
  OBVIOUS
<1>2. /\ member \in [Members -> MemberRow] /\ signedIn \in [Members -> SessionRow]
      /\ handler \in [Handlers -> Request] /\ RequestIsRight(h)
  BY TeamTypes DEF TeamInv, RequestsAreRight
<1>3. handler[h] \in Request /\ handler[h].step = "locked" /\ u \in Members
      /\ signedIn[u].live /\ member[u].state = "active" /\ handler[h].role = member[u].role
  BY <1>2 DEF RequestIsGuarded, RequestIsRight
<1> DEFINE new == [[handler[h] EXCEPT !.step = "acting"] EXCEPT !.locks = b]
<1>4. /\ handler' = [handler EXCEPT ![h].step = "acting", ![h].locks = b]
      /\ signedIn' = [signedIn EXCEPT ![u].role = member[u].role]
      /\ UNCHANGED <<member, change, invitation>>
  BY <1>1 DEF RequestIsGuarded
<1>5. [handler EXCEPT ![h].step = "acting", ![h].locks = b] = [handler EXCEPT ![h] = new]
  BY ONLY <1>2, h \in Handlers
<1>6. new \in Request /\ new.step = "acting" /\ new.user = u /\ new.role = handler[h].role
  BY <1>1, <1>3 DEF Request
<1>7. member[u].role \in MemberRoles
  BY <1>2, <1>3 DEF MemberRow
<1>8. signedIn' \in [Members -> SessionRow]
      /\ \A v \in Members : signedIn'[v].live = signedIn[v].live
  BY <1>2, <1>3, <1>4, <1>7 DEF SessionRow
<1>9. handler' = [handler EXCEPT ![h] = new]
  BY <1>4, <1>5
<1>10. /\ signedIn[new.user].live /\ member[new.user].state = "active"
       /\ new.role = member[new.user].role /\ new.user \in Members
  BY <1>3, <1>6
<1> HIDE DEF new, u
<1>11. QED
  BY <1>4, <1>6, <1>8, <1>9, <1>10, RequestMoves

LEMMA EndsStep ==
  ASSUME TeamInv, NEW h \in Handlers, RequestEnds(h)
  PROVE  TeamInv'
<1>1. signedIn' \in [Members -> SessionRow]
      /\ \A v \in Members : signedIn'[v].live = signedIn[v].live
  BY TeamTypes DEF TeamInv, RequestEnds
<1>2. QED
  BY <1>1, IdleRequest, RequestMoves DEF RequestEnds

LEMMA SessionEndsStep ==
  ASSUME TeamInv, NEW u \in Members, SessionEnds(u)
  PROVE  TeamInv'
<1>1. signedIn \in [Members -> SessionRow] /\ handler \in [Handlers -> Request]
  BY TeamTypes DEF TeamInv
<1>2. PICK b \in BOOLEAN : b = FALSE
  OBVIOUS
<1>3. /\ signedIn' = [signedIn EXCEPT ![u].live = b]
      /\ UNCHANGED <<member, handler, change, invitation>>
      /\ \A h \in Handlers : handler[h].user = u => ~handler[h].locks
  BY <1>2 DEF SessionEnds, Locked
<1>4. signedIn' \in [Members -> SessionRow]
      /\ \A v \in Members \ {u} : signedIn'[v] = signedIn[v]
  BY <1>1, <1>3 DEF SessionRow
<1>5. ASSUME NEW h \in Handlers PROVE RequestIsRight(h)'
  <2>1. RequestIsRight(h) /\ handler[h] \in Request
    BY <1>1 DEF TeamInv, RequestsAreRight
  <2>2. handler[h].locks => handler[h].user \in Members \ {u}
    BY <1>3, <2>1 DEF RequestIsRight, Request
  <2>3. handler[h].locks => signedIn'[handler[h].user] = signedIn[handler[h].user]
    BY <1>4, <2>2
  <2>4. QED
    BY <1>3, <2>1, <2>3 DEF RequestIsRight
<1>6. QED
  BY <1>1, <1>3, <1>4, <1>5, RequestsMove

\* A row of a member is written that no request has locked.
LEMMA MemberIsWritten ==
  ASSUME TeamInv, NEW u \in Members, NEW new, new \in MemberRow, ~Locked(u),
         member' = [member EXCEPT ![u] = new],
         u = Founder => new = [state |-> "active", role |-> "OWNER"],
         UNCHANGED <<signedIn, handler>>
  PROVE  member' \in [Members -> MemberRow] /\ RequestsAreRight' /\ FounderStands'
<1>1. /\ member \in [Members -> MemberRow] /\ handler \in [Handlers -> Request]
  BY TeamTypes DEF TeamInv
<1>2. member' \in [Members -> MemberRow] /\ member'[u] = new
      /\ \A v \in Members \ {u} : member'[v] = member[v]
  BY <1>1
<1>3. ASSUME NEW h \in Handlers PROVE RequestIsRight(h)'
  <2>1. RequestIsRight(h) /\ handler[h] \in Request
    BY <1>1 DEF TeamInv, RequestsAreRight
  <2>2. handler[h].locks => handler[h].user \in Members \ {u}
    BY <2>1 DEF RequestIsRight, Request, Locked
  <2>3. handler[h].locks => member'[handler[h].user] = member[handler[h].user]
    BY <1>2, <2>2
  <2>4. QED
    BY <2>1, <2>3 DEF RequestIsRight
<1>4. FounderStands'
  BY <1>2, FounderIsAMember DEF FounderStands, TeamInv
<1>5. QED
  BY <1>2, <1>3, <1>4 DEF RequestsAreRight

LEMMA ChangeReadsStep ==
  ASSUME TeamInv, NEW c \in Changes, NEW u \in Members,
         RemovalReads(c, u) \/ \E r \in MemberRoles : RoleChangeReads(c, u, r)
  PROVE  TeamInv'
<1>1. /\ member \in [Members -> MemberRow] /\ change \in [Changes -> TeamChange]
  BY TeamTypes DEF TeamInv
<1>2. member[u].role \in MemberRoles /\ (u = Founder => member[u].role = "OWNER")
  BY <1>1 DEF MemberRow, TeamInv, FounderStands
<1>3. \E read \in MemberRoles, r \in MemberRoles, kind \in {"role", "remove"} :
        /\ change' = [change EXCEPT ![c] = [kind |-> kind, user |-> u, read |-> read, new |-> r]]
        /\ kind = "remove" => u # Founder
        /\ u = Founder => r = "OWNER"
        /\ UNCHANGED <<member, signedIn, handler, invitation>>
  <2>1. CASE RemovalReads(c, u)
    BY <2>1, <1>2 DEF RemovalReads
  <2>2. CASE \E r \in MemberRoles : RoleChangeReads(c, u, r)
    BY <2>2, <1>2 DEF RoleChangeReads
  <2>3. QED
    BY <2>1, <2>2
<1>4. PICK read \in MemberRoles, r \in MemberRoles, kind \in {"role", "remove"} :
        /\ change' = [change EXCEPT ![c] = [kind |-> kind, user |-> u, read |-> read, new |-> r]]
        /\ kind = "remove" => u # Founder
        /\ u = Founder => r = "OWNER"
        /\ UNCHANGED <<member, signedIn, handler, invitation>>
  BY <1>3
<1> DEFINE new == [kind |-> kind, user |-> u, read |-> read, new |-> r]
<1>5. new \in TeamChange /\ new.kind = kind /\ new.user = u /\ new.new = r
  BY DEF TeamChange
<1>6. change' = [change EXCEPT ![c] = new]
  BY <1>4
<1> HIDE DEF new
<1>7. change' \in [Changes -> TeamChange] /\ change'[c] = new
      /\ \A d \in Changes \ {c} : change'[d] = change[d]
  BY <1>1, <1>5, <1>6
<1>8. ChangesAreRight'
  BY <1>4, <1>5, <1>7 DEF ChangesAreRight, TeamInv
<1>9. TeamTypeOK'
  BY <1>4, <1>7, TeamTypes, NextTeamTypes DEF TeamInv
<1>10. RequestsAreRight' /\ InvitationsAreRight' /\ FounderStands'
  BY <1>4 DEF TeamInv, RequestsAreRight, RequestIsRight, InvitationsAreRight, FounderStands
<1>11. QED
  BY <1>8, <1>9, <1>10 DEF TeamInv

LEMMA ChangeWritesStep ==
  ASSUME TeamInv, NEW c \in Changes, ChangeWrites(c)
  PROVE  TeamInv'
<1> DEFINE u == change[c].user
<1>1. /\ member \in [Members -> MemberRow] /\ change \in [Changes -> TeamChange]
  BY TeamTypes DEF TeamInv
<1>2. /\ change' = [change EXCEPT ![c] = NoChange] /\ UNCHANGED <<signedIn, handler, invitation>>
      /\ change[c].kind # "none"
  BY DEF ChangeWrites
<1>3. u \in Members /\ (u = Founder => change[c].kind = "role" /\ change[c].new = "OWNER")
      /\ change[c].new \in MemberRoles
  BY <1>1, <1>2 DEF TeamInv, ChangesAreRight, TeamChange
<1>4. member[u] \in MemberRow /\ (u = Founder => member[u] = [state |-> "active", role |-> "OWNER"])
  BY <1>1, <1>3 DEF TeamInv, FounderStands
<1>5. member' \in [Members -> MemberRow] /\ RequestsAreRight' /\ FounderStands'
  <2>1. CASE UNCHANGED member
    BY <2>1, <1>1, <1>2 DEF TeamInv, RequestsAreRight, RequestIsRight, FounderStands
  <2>2. CASE change[c].kind = "remove" /\ member' # member
    <3> DEFINE new == [member[u] EXCEPT !.state = "removed"]
    <3>1. ~Locked(u) /\ member' = [member EXCEPT ![u] = new]
      BY <2>2, <1>1, <1>3 DEF ChangeWrites
    <3>2. new \in MemberRow /\ u # Founder
      BY <2>2, <1>3, <1>4 DEF MemberRow
    <3> HIDE DEF new
    <3>3. QED
      BY <1>2, <1>3, <3>1, <3>2, MemberIsWritten
  <2>3. CASE change[c].kind # "remove" /\ member' # member
    <3> DEFINE new == [member[u] EXCEPT !.role = change[c].new]
    <3>1. ~Locked(u) /\ member' = [member EXCEPT ![u] = new]
      BY <2>3, <1>1, <1>3 DEF ChangeWrites
    <3>2. new \in MemberRow
      BY <1>3, <1>4 DEF MemberRow
    <3>3. u = Founder => new = [state |-> "active", role |-> "OWNER"]
      BY <1>3, <1>4
    <3> HIDE DEF new
    <3>4. QED
      BY <1>2, <1>3, <3>1, <3>2, <3>3, MemberIsWritten
  <2>4. QED
    BY <2>1, <2>2, <2>3
<1>6. change' \in [Changes -> TeamChange] /\ change'[c] = NoChange
      /\ \A d \in Changes \ {c} : change'[d] = change[d]
  BY <1>1, <1>2, IdleRequest
<1>7. ChangesAreRight'
  BY <1>6, IdleRequest DEF ChangesAreRight, TeamInv
<1>8. TeamTypeOK'
  BY <1>2, <1>5, <1>6, TeamTypes, NextTeamTypes DEF TeamInv
<1>9. InvitationsAreRight'
  BY <1>2 DEF TeamInv, InvitationsAreRight
<1>10. QED
  BY <1>5, <1>7, <1>8, <1>9 DEF TeamInv

\* One invitation is written.
LEMMA InvitationIsWritten ==
  ASSUME TeamInv, NEW i \in Invitations, NEW new, new \in InvitationRow,
         new.state = "open" => new.user \in Members,
         invitation' = [invitation EXCEPT ![i] = new], UNCHANGED <<signedIn, handler, change>>,
         member' \in [Members -> MemberRow] /\ RequestsAreRight' /\ FounderStands'
  PROVE  TeamInv'
<1>1. invitation \in [Invitations -> InvitationRow]
  BY TeamTypes DEF TeamInv
<1>2. invitation' \in [Invitations -> InvitationRow] /\ invitation'[i] = new
      /\ \A j \in Invitations \ {i} : invitation'[j] = invitation[j]
  BY <1>1
<1>3. InvitationsAreRight'
  BY <1>2 DEF InvitationsAreRight, TeamInv
<1>4. TeamTypeOK'
  BY <1>2, TeamTypes, NextTeamTypes DEF TeamInv
<1>5. ChangesAreRight'
  BY DEF TeamInv, ChangesAreRight
<1>6. QED
  BY <1>3, <1>4, <1>5 DEF TeamInv

LEMMA InvitationStep ==
  ASSUME TeamInv, NEW i \in Invitations,
         \/ InvitationExpires(i) \/ InvitationIsAccepted(i)
         \/ \E u \in Members, role \in MemberRoles : Invite(i, u, role)
  PROVE  TeamInv'
<1> DEFINE row == invitation[i]
<1>1. /\ member \in [Members -> MemberRow] /\ invitation \in [Invitations -> InvitationRow]
  BY TeamTypes DEF TeamInv
<1>2. row \in InvitationRow
  BY <1>1
<1>3. UNCHANGED <<member, signedIn, handler>> =>
        member' \in [Members -> MemberRow] /\ RequestsAreRight' /\ FounderStands'
  BY <1>1 DEF TeamInv, RequestsAreRight, RequestIsRight, FounderStands
<1>4. CASE InvitationExpires(i)
  <2> DEFINE new == [row EXCEPT !.state = "expired"]
  <2>1. invitation' = [invitation EXCEPT ![i] = new] /\ UNCHANGED <<member, signedIn, handler, change>>
    BY <1>4, <1>1 DEF InvitationExpires
  <2>2. new \in InvitationRow /\ new.state = "expired"
    BY <1>2 DEF InvitationRow
  <2> HIDE DEF new
  <2>3. QED
    BY <1>3, <2>1, <2>2, InvitationIsWritten
<1>5. CASE InvitationIsAccepted(i)
  <2> DEFINE new == [row EXCEPT !.state = "accepted"]
             u == row.user
             there == [state |-> "active", role |-> row.role]
  <2>1. /\ invitation' = [invitation EXCEPT ![i] = new] /\ UNCHANGED <<signedIn, handler, change>>
        /\ row.state = "open" /\ ~Locked(u)
        /\ member[u].state = "active" => member[u].role = row.role
        /\ member' = [member EXCEPT ![u] = there]
    BY <1>5, <1>1 DEF InvitationIsAccepted
  <2>2. new \in InvitationRow /\ new.state = "accepted"
    BY <1>2 DEF InvitationRow
  <2>3. there \in MemberRow /\ u \in Members
    BY <1>2, <2>1 DEF InvitationRow, MemberRow, TeamInv, InvitationsAreRight
  <2>4. u = Founder => there = [state |-> "active", role |-> "OWNER"]
    <3>1. u = Founder => member[u] = [state |-> "active", role |-> "OWNER"]
      BY DEF TeamInv, FounderStands
    <3>2. u = Founder => row.role = "OWNER"
      BY <3>1, <2>1
    <3>3. QED
      BY <3>2
  <2> HIDE DEF new, there, u
  <2>5. member' \in [Members -> MemberRow] /\ RequestsAreRight' /\ FounderStands'
    BY <2>1, <2>3, <2>4, MemberIsWritten
  <2>6. QED
    BY <2>1, <2>2, <2>5, InvitationIsWritten
<1>6. CASE \E v \in Members, role \in MemberRoles : Invite(i, v, role)
  <2>1. PICK v \in Members, role \in MemberRoles : Invite(i, v, role)
    BY <1>6
  <2> DEFINE new == [state |-> "open", user |-> v, role |-> role]
  <2>2. invitation' = [invitation EXCEPT ![i] = new] /\ UNCHANGED <<member, signedIn, handler, change>>
    BY <2>1 DEF Invite
  <2>3. new \in InvitationRow /\ new.user \in Members
    BY DEF InvitationRow
  <2> HIDE DEF new
  <2>4. QED
    BY <1>3, <2>2, <2>3, InvitationIsWritten
<1>7. QED
  BY <1>4, <1>5, <1>6

LEMMA TeamStep ==
  ASSUME TeamInv, [TeamNext]_teamVars
  PROVE  TeamInv'
<1>1. CASE UNCHANGED teamVars
  BY <1>1, TeamTypes, NextTeamTypes DEF teamVars, TeamInv, RequestsAreRight, RequestIsRight,
     ChangesAreRight, InvitationsAreRight, FounderStands
<1>2. CASE TeamNext
  BY <1>2, EntersStep, LocksStep, GuardedStep, EndsStep, SessionEndsStep, ChangeReadsStep,
     ChangeWritesStep, InvitationStep DEF TeamNext
<1>3. QED
  BY <1>1, <1>2

LEMMA TeamBegins == TeamInit => TeamInv
<1> SUFFICES ASSUME TeamInit PROVE TeamInv
  OBVIOUS
<1>1. PICK b \in BOOLEAN : b = TRUE
  OBVIOUS
<1>2. member \in [Members -> MemberRow] /\ invitation \in [Invitations -> InvitationRow]
  BY DEF TeamInit, MemberRow, InvitationRow, MemberRoles
<1>3. signedIn = [u \in Members |-> [live |-> b, role |-> member[u].role]]
  BY <1>1 DEF TeamInit
<1>4. signedIn \in [Members -> SessionRow]
  BY <1>2, <1>3 DEF MemberRow, SessionRow
<1>5. handler \in [Handlers -> Request] /\ change \in [Changes -> TeamChange]
  BY IdleRequest DEF TeamInit
<1>6. TeamTypeOK
  BY <1>2, <1>4, <1>5, TeamTypes
<1>7. RequestsAreRight /\ ChangesAreRight
  BY IdleRequest DEF TeamInit, RequestsAreRight, RequestIsRight, ChangesAreRight
<1>8. InvitationsAreRight /\ FounderStands
  BY FounderIsAMember DEF TeamInit, InvitationsAreRight, FounderStands
<1>9. QED
  BY <1>6, <1>7, <1>8 DEF TeamInv

LEMMA TeamIsSafe == TeamInv => AuthorityStands
BY DEF TeamInv, RequestsAreRight, RequestIsRight, FounderStands, AuthorityStands

LEMMA TeamInvariant == TeamSpec => []TeamInv
<1>1. TeamInv /\ [TeamNext]_teamVars => TeamInv'
  BY TeamStep
<1>2. QED
  BY TeamBegins, <1>1, PTL DEF TeamSpec

-------------------------------------------------------------------------------
(***************************************************************************)
(* SMTP credentials. A secret that a rotation is about to write is known   *)
(* to it alone and was never withdrawn, and a session that is in used what *)
(* was valid.                                                              *)
(***************************************************************************)

\* A secret can be fetched, or could until its time was over.
Fetchable(v) ==
    \/ secretAnswer[v].state = "held"
    \/ secretAnswer[v].state = "redacted" /\ secretAnswer[v].expired

Unrecorded(v) == secretAnswer[v].state = "none" /\ ~secretAnswer[v].expired

\* Secrets are handed out in order; one that is not yet made has no answer.
SecretsAreMade ==
    /\ credential.status = "none" => secretsMade = 0 /\ ~withdrawn.revoked
    /\ credential.status = "none" <=> credential.secret = NoSecret
    /\ credential.secret <= secretsMade
    /\ \A q \in Rotators : rotator[q] <= secretsMade
    /\ \A v \in withdrawn.secrets : v <= secretsMade
    /\ \A v \in Secrets : v > secretsMade => Unrecorded(v)

\* What a rotation is about to write is known to it alone.
RotationsAreRight ==
    \A q \in Rotators : rotator[q] # NoSecret =>
        /\ rotator[q] # credential.secret /\ rotator[q] \notin withdrawn.secrets
        /\ Unrecorded(rotator[q])
        /\ \A p \in Rotators \ {q} : rotator[p] # rotator[q]

CurrentSecret ==
    /\ credential.secret \notin withdrawn.secrets
    /\ withdrawn.revoked => credential.status = "REVOKED"
    /\ credential.secret # NoSecret => Fetchable(credential.secret)

\* A session that got in used what was valid then, and its message too.
InSession == {"in", "mail", "rcpt", "data", "queued"}
SessionsAreValid == \A x \in Submitters : relay[x].step \in InSession => ~relay[x].void

CredentialsInv ==
    /\ CredentialsTypeOK /\ SecretsAreMade /\ RotationsAreRight /\ CurrentSecret
    /\ SessionsAreValid

-------------------------------------------------------------------------------
(* Types, and the steps. *)

CredentialRow == [status : {"none", "ACTIVE", "REVOKED"},
                  secret : Secrets \union {NoSecret}, expired : BOOLEAN]
AnswerRow == [state : {"none", "held", "redacted"}, expired : BOOLEAN, fetched : BOOLEAN]
RelaySession == [step : {"out", "in", "mail", "rcpt", "data", "queued", "closed"},
                 secret : Secrets \union {NoSecret}, void : BOOLEAN]
Withdrawn == [revoked : BOOLEAN, secrets : SUBSET Secrets]

LEMMA CredentialTypes ==
  CredentialsTypeOK <=>
    /\ credential \in CredentialRow /\ rotator \in [Rotators -> Secrets \union {NoSecret}]
    /\ secretAnswer \in [Secrets -> AnswerRow] /\ secretsMade \in 0..MaxSecret
    /\ relay \in [Submitters -> RelaySession] /\ withdrawn \in Withdrawn
BY DEF CredentialsTypeOK, CredentialRow, AnswerRow, RelaySession, Withdrawn

LEMMA NextCredentialTypes ==
  CredentialsTypeOK' <=>
    /\ credential' \in CredentialRow /\ rotator' \in [Rotators -> Secrets \union {NoSecret}]
    /\ secretAnswer' \in [Secrets -> AnswerRow] /\ secretsMade' \in 0..MaxSecret
    /\ relay' \in [Submitters -> RelaySession] /\ withdrawn' \in Withdrawn
BY DEF CredentialsTypeOK, CredentialRow, AnswerRow, RelaySession, Withdrawn

LEMMA SecretNumbers == Secrets \subseteq Nat \ {0} /\ NoSecret = 0 /\ NoSecret \notin Secrets
BY SecretsAssumption DEF Secrets, NoSecret

LEMMA NumbersOfSecrets ==
  ASSUME CredentialsInv
  PROVE  /\ credential.secret \in Nat /\ secretsMade \in Nat
         /\ \A v \in withdrawn.secrets : v \in Nat
         /\ \A q \in Rotators : rotator[q] \in Nat
<1>1. /\ credential \in CredentialRow /\ withdrawn \in Withdrawn /\ secretsMade \in 0..MaxSecret
      /\ rotator \in [Rotators -> Secrets \union {NoSecret}]
  BY CredentialTypes DEF CredentialsInv
<1>2. credential.secret \in Secrets \union {NoSecret} /\ withdrawn.secrets \subseteq Secrets
  BY <1>1 DEF CredentialRow, Withdrawn
<1>3. \A n \in Secrets \union {NoSecret} : n \in Nat
  BY SecretNumbers
<1>4. \A q \in Rotators : rotator[q] \in Secrets \union {NoSecret}
  BY <1>1
<1>5. secretsMade \in Nat
  BY <1>1, SecretsAssumption
<1>6. QED
  BY <1>2, <1>3, <1>4, <1>5

\* What a step does to the answers of the secrets that matter to a rotation.
AnswersGoOn ==
    /\ secretAnswer' \in [Secrets -> AnswerRow]
    /\ \A v \in Secrets : /\ Unrecorded(v) => Unrecorded(v)'
                          /\ Fetchable(v) => Fetchable(v)'

LEMMA OneAnswer ==
  ASSUME secretAnswer \in [Secrets -> AnswerRow], NEW v \in Secrets, NEW new, new \in AnswerRow,
         secretAnswer[v].state # "none",
         Fetchable(v) => new.state = "held" \/ (new.state = "redacted" /\ new.expired),
         secretAnswer' = [secretAnswer EXCEPT ![v] = new]
  PROVE  AnswersGoOn
<1>1. secretAnswer' \in [Secrets -> AnswerRow] /\ secretAnswer'[v] = new
      /\ \A w \in Secrets \ {v} : secretAnswer'[w] = secretAnswer[w]
  OBVIOUS
<1>2. QED
  BY <1>1 DEF AnswersGoOn, Unrecorded, Fetchable

LEMMA RestsWithAnswers ==
  ASSUME CredentialsInv, AnswersGoOn,
         UNCHANGED <<credential, rotator, secretsMade, relay, withdrawn>>
  PROVE  CredentialsInv'
<1>1. CredentialsTypeOK'
  BY CredentialTypes, NextCredentialTypes DEF CredentialsInv, AnswersGoOn
<1>2. /\ credential \in CredentialRow /\ rotator \in [Rotators -> Secrets \union {NoSecret}]
  BY CredentialTypes DEF CredentialsInv
<1>3. SecretsAreMade' /\ SessionsAreValid'
  BY <1>2 DEF CredentialsInv, AnswersGoOn, SecretsAreMade, SessionsAreValid
<1>4. RotationsAreRight'
  BY <1>2 DEF CredentialsInv, AnswersGoOn, RotationsAreRight
<1>5. CurrentSecret'
  BY <1>2 DEF CredentialsInv, AnswersGoOn, CurrentSecret, CredentialRow
<1>6. QED
  BY <1>1, <1>3, <1>4, <1>5 DEF CredentialsInv

LEMMA AnswerStep ==
  ASSUME CredentialsInv,
         AnswersAreRedacted \/ \E v \in Secrets : AnswerExpires(v) \/ AnswerIsFetched(v)
  PROVE  CredentialsInv'
<1>1. secretAnswer \in [Secrets -> AnswerRow]
  BY CredentialTypes DEF CredentialsInv
<1>2. PICK t \in BOOLEAN : t = TRUE
  OBVIOUS
<1>3. UNCHANGED <<credential, rotator, secretsMade, relay, withdrawn>>
  BY DEF AnswersAreRedacted, AnswerExpires, AnswerIsFetched
<1>4. CASE AnswersAreRedacted
  <2>1. PICK S \in SUBSET {v \in Secrets : secretAnswer[v].state = "held" /\ secretAnswer[v].expired} :
          secretAnswer' = [v \in Secrets |->
             IF v \in S THEN [secretAnswer[v] EXCEPT !.state = "redacted"] ELSE secretAnswer[v]]
    BY <1>4 DEF AnswersAreRedacted
  <2>2. ASSUME NEW v \in S
        PROVE  /\ secretAnswer'[v] = [secretAnswer[v] EXCEPT !.state = "redacted"]
               /\ secretAnswer[v].state = "held" /\ secretAnswer[v].expired /\ v \in Secrets
    BY <2>1
  <2>3. ASSUME NEW v \in S
        PROVE  secretAnswer'[v] \in AnswerRow /\ secretAnswer'[v].state = "redacted"
               /\ secretAnswer'[v].expired
    <3>1. PICK row \in AnswerRow : row = secretAnswer[v]
      BY <1>1, <2>2
    <3>2. secretAnswer'[v] = [row EXCEPT !.state = "redacted"] /\ row.expired
      BY <2>2, <3>1
    <3>3. [row EXCEPT !.state = "redacted"] \in AnswerRow
      BY ONLY row \in AnswerRow DEF AnswerRow
    <3>4. [row EXCEPT !.state = "redacted"].state = "redacted"
          /\ [row EXCEPT !.state = "redacted"].expired = row.expired
      BY ONLY row \in AnswerRow DEF AnswerRow
    <3>5. QED
      BY <3>2, <3>3, <3>4
  <2>4. \A v \in Secrets \ S : secretAnswer'[v] = secretAnswer[v]
    BY <2>1
  <2>5. secretAnswer' \in [Secrets -> AnswerRow]
    <3>1. \A v \in Secrets : secretAnswer'[v] \in AnswerRow
      BY <1>1, <2>3, <2>4
    <3>2. secretAnswer' = [v \in Secrets |-> secretAnswer'[v]]
      BY <2>1
    <3>3. QED
      BY <3>1, <3>2
  <2>6. AnswersGoOn
    BY <2>2, <2>3, <2>4, <2>5 DEF AnswersGoOn, Unrecorded, Fetchable
  <2>7. QED
    BY <1>3, <2>6, RestsWithAnswers
<1>5. ASSUME NEW v \in Secrets, AnswerExpires(v) PROVE CredentialsInv'
  <2> DEFINE new == [secretAnswer[v] EXCEPT !.expired = t]
  <2>1. secretAnswer[v] \in AnswerRow
    BY <1>1
  <2>2. new \in AnswerRow /\ new.state = secretAnswer[v].state
    BY <2>1 DEF AnswerRow
  <2>3. secretAnswer[v].state = "held" /\ secretAnswer' = [secretAnswer EXCEPT ![v] = new]
    BY <1>1, <1>2, <1>5 DEF AnswerExpires
  <2> HIDE DEF new
  <2>4. AnswersGoOn
    BY <1>1, <2>2, <2>3, OneAnswer
  <2>5. QED
    BY <1>3, <2>4, RestsWithAnswers
<1>6. ASSUME NEW v \in Secrets, AnswerIsFetched(v) PROVE CredentialsInv'
  <2>1. secretAnswer[v] \in AnswerRow
    BY <1>1
  <2>2. CASE secretAnswer[v].expired
    <3> DEFINE new == [secretAnswer[v] EXCEPT !.state = "redacted"]
    <3>1. new \in AnswerRow /\ new.state = "redacted" /\ new.expired
      BY <2>1, <2>2 DEF AnswerRow
    <3>2. secretAnswer[v].state = "held" /\ secretAnswer' = [secretAnswer EXCEPT ![v] = new]
      BY <1>1, <1>6, <2>2 DEF AnswerIsFetched
    <3> HIDE DEF new
    <3>3. AnswersGoOn
      BY <1>1, <3>1, <3>2, OneAnswer
    <3>4. QED
      BY <1>3, <3>3, RestsWithAnswers
  <2>3. CASE ~secretAnswer[v].expired
    <3> DEFINE new == [secretAnswer[v] EXCEPT !.fetched = t]
    <3>1. new \in AnswerRow /\ new.state = secretAnswer[v].state
      BY <2>1 DEF AnswerRow
    <3>2. secretAnswer[v].state = "held" /\ secretAnswer' = [secretAnswer EXCEPT ![v] = new]
      BY <1>1, <1>2, <1>6, <2>3 DEF AnswerIsFetched
    <3> HIDE DEF new
    <3>3. AnswersGoOn
      BY <1>1, <3>1, <3>2, OneAnswer
    <3>4. QED
      BY <1>3, <3>3, RestsWithAnswers
  <2>4. QED
    BY <2>2, <2>3
<1>7. QED
  BY <1>4, <1>5, <1>6

\* The answer of a new secret is recorded.
LEMMA SecretIsRecorded ==
  ASSUME CredentialsInv, NEW v \in Secrets, IsRecorded(v)
  PROVE  /\ secretAnswer' \in [Secrets -> AnswerRow] /\ Fetchable(v)'
         /\ \A w \in Secrets \ {v} : secretAnswer'[w] = secretAnswer[w]
<1>1. secretAnswer \in [Secrets -> AnswerRow]
  BY CredentialTypes DEF CredentialsInv
<1> DEFINE new == [secretAnswer[v] EXCEPT !.state = "held"]
<1>2. secretAnswer[v] \in AnswerRow
  BY <1>1
<1>3. new \in AnswerRow /\ new.state = "held"
  BY <1>2 DEF AnswerRow
<1>4. secretAnswer' = [secretAnswer EXCEPT ![v] = new]
  BY <1>1 DEF IsRecorded
<1> HIDE DEF new
<1>5. QED
  BY <1>1, <1>3, <1>4 DEF Fetchable

LEMMA CreatedStep ==
  ASSUME CredentialsInv, CredentialIsCreated
  PROVE  CredentialsInv'
<1>1. /\ credential \in CredentialRow /\ rotator \in [Rotators -> Secrets \union {NoSecret}]
      /\ secretAnswer \in [Secrets -> AnswerRow] /\ secretsMade \in 0..MaxSecret
      /\ relay \in [Submitters -> RelaySession] /\ withdrawn \in Withdrawn
  BY CredentialTypes DEF CredentialsInv
<1>2. PICK b \in BOOLEAN : b = FALSE
  OBVIOUS
<1>3. /\ credential.status = "none" /\ secretsMade = 0 /\ secretsMade' = 1 /\ IsRecorded(1)
      /\ credential' = [status |-> "ACTIVE", secret |-> 1, expired |-> b]
      /\ UNCHANGED <<rotator, relay, withdrawn>> /\ ~withdrawn.revoked
  BY <1>2 DEF CredentialIsCreated, CredentialsInv, SecretsAreMade
<1>4. 1 \in Secrets
  BY SecretsAssumption DEF Secrets
<1>5. /\ secretAnswer' \in [Secrets -> AnswerRow] /\ Fetchable(1)'
      /\ \A w \in Secrets \ {1} : secretAnswer'[w] = secretAnswer[w]
  BY <1>3, <1>4, SecretIsRecorded
<1>6. credential' \in CredentialRow /\ credential'.status = "ACTIVE" /\ credential'.secret = 1
  BY <1>3, <1>4 DEF CredentialRow
<1>7. CredentialsTypeOK'
  BY <1>1, <1>3, <1>5, <1>6, SecretsAssumption, NextCredentialTypes
<1>8. \A q \in Rotators : rotator[q] = NoSecret
  BY <1>3, NumbersOfSecrets DEF NoSecret, CredentialsInv, SecretsAreMade
<1>9. \A v \in Secrets : v \notin withdrawn.secrets
  BY <1>3, SecretNumbers DEF CredentialsInv, SecretsAreMade
<1>10. \A v \in Secrets \ {1} : Unrecorded(v)'
  BY <1>3, <1>5, SecretNumbers DEF CredentialsInv, SecretsAreMade, Unrecorded
<1>11. withdrawn.secrets \subseteq Secrets
  BY <1>1 DEF Withdrawn
<1>12. SecretsAreMade'
  <2>1. credential'.status # "none" /\ credential'.secret # NoSecret
        /\ credential'.secret <= secretsMade'
    BY <1>3, <1>6, SecretNumbers
  <2>2. \A q \in Rotators : rotator'[q] <= secretsMade'
    BY <1>3, <1>8, SecretNumbers
  <2>3. \A v \in withdrawn'.secrets : v <= secretsMade'
    BY <1>3, <1>9, <1>11
  <2>4. \A v \in Secrets : v > secretsMade' => Unrecorded(v)'
    BY <1>3, <1>10
  <2>5. QED
    BY <2>1, <2>2, <2>3, <2>4 DEF SecretsAreMade
<1>13. RotationsAreRight' /\ SessionsAreValid'
  BY <1>3, <1>8 DEF RotationsAreRight, SessionsAreValid, CredentialsInv
<1>14. CurrentSecret'
  BY <1>3, <1>4, <1>5, <1>6, <1>9 DEF CurrentSecret
<1>15. QED
  BY <1>7, <1>12, <1>13, <1>14 DEF CredentialsInv

LEMMA RotationReadsStep ==
  ASSUME CredentialsInv, NEW q \in Rotators, RotationReads(q)
  PROVE  CredentialsInv'
<1>1. /\ credential \in CredentialRow /\ rotator \in [Rotators -> Secrets \union {NoSecret}]
      /\ secretAnswer \in [Secrets -> AnswerRow] /\ secretsMade \in 0..MaxSecret
      /\ relay \in [Submitters -> RelaySession] /\ withdrawn \in Withdrawn
  BY CredentialTypes DEF CredentialsInv
<1>0. PICK v \in Nat : v = secretsMade + 1
  BY NumbersOfSecrets
<1>2. /\ credential.status = "ACTIVE" /\ secretsMade < MaxSecret /\ secretsMade' = v
      /\ rotator' = [rotator EXCEPT ![q] = v]
      /\ UNCHANGED <<credential, secretAnswer, relay, withdrawn>>
  BY <1>0 DEF RotationReads
<1>3. v \in Secrets /\ secretsMade' \in 0..MaxSecret /\ secretsMade \in Nat
  BY <1>0, <1>1, <1>2, SecretsAssumption DEF Secrets
<1>4. rotator' \in [Rotators -> Secrets \union {NoSecret}] /\ rotator'[q] = v
      /\ \A p \in Rotators \ {q} : rotator'[p] = rotator[p]
  BY <1>1, <1>2, <1>3
<1>5. CredentialsTypeOK'
  BY <1>1, <1>2, <1>3, <1>4, NextCredentialTypes
<1>6. credential.secret \in Nat /\ (\A w \in withdrawn.secrets : w \in Nat)
      /\ \A p \in Rotators : rotator[p] \in Nat
  BY NumbersOfSecrets
<1>7. SecretsAreMade'
  <2>1. credential.secret <= secretsMade' /\ \A w \in withdrawn.secrets : w <= secretsMade'
    BY <1>0, <1>2, <1>3, <1>6 DEF CredentialsInv, SecretsAreMade
  <2>2. \A p \in Rotators : rotator'[p] <= secretsMade'
    <3>1. \A p \in Rotators : rotator[p] <= secretsMade
      BY DEF CredentialsInv, SecretsAreMade
    <3>2. QED
      BY <1>0, <1>2, <1>3, <1>4, <1>6, <3>1
  <2>3. ASSUME NEW w \in Secrets, w > secretsMade' PROVE Unrecorded(w)'
    <3>1. w \in Nat /\ w > secretsMade
      BY <1>0, <1>2, <1>3, <2>3, SecretNumbers
    <3>2. Unrecorded(w)
      BY <3>1 DEF CredentialsInv, SecretsAreMade
    <3>3. QED
      BY <1>2, <3>2 DEF Unrecorded
  <2>4. /\ credential'.status = "none" => secretsMade' = 0 /\ ~withdrawn'.revoked
        /\ credential'.status = "none" <=> credential'.secret = NoSecret
    BY <1>2 DEF CredentialsInv, SecretsAreMade
  <2>5. QED
    BY <1>2, <2>1, <2>2, <2>3, <2>4 DEF SecretsAreMade
<1>8. /\ v # credential.secret /\ v \notin withdrawn.secrets
      /\ \A p \in Rotators : rotator[p] # v
  BY <1>0, <1>3, <1>6 DEF CredentialsInv, SecretsAreMade
<1>9. Unrecorded(v)'
  BY <1>0, <1>2, <1>3 DEF CredentialsInv, SecretsAreMade, Unrecorded
<1>10. RotationsAreRight'
  <2> SUFFICES ASSUME NEW p \in Rotators, rotator'[p] # NoSecret
               PROVE  /\ rotator'[p] # credential.secret /\ rotator'[p] \notin withdrawn.secrets
                      /\ Unrecorded(rotator[p])'
                      /\ \A r \in Rotators \ {p} : rotator'[r] # rotator'[p]
    BY <1>2 DEF RotationsAreRight
  <2>1. CASE p = q
    BY <2>1, <1>4, <1>8, <1>9 DEF Unrecorded
  <2>2. CASE p # q
    <3>1. rotator'[p] = rotator[p] /\ rotator[p] # NoSecret
      BY <2>2, <1>4
    <3>2. /\ rotator[p] # credential.secret /\ rotator[p] \notin withdrawn.secrets
          /\ Unrecorded(rotator[p]) /\ \A r \in Rotators \ {p} : rotator[r] # rotator[p]
      BY <3>1 DEF CredentialsInv, RotationsAreRight
    <3>3. Unrecorded(rotator[p])'
      BY <1>2, <3>1, <3>2 DEF Unrecorded
    <3>4. \A r \in Rotators \ {p} : rotator'[r] # rotator'[p]
      BY <1>4, <1>8, <3>1, <3>2
    <3>5. QED
      BY <3>1, <3>2, <3>3, <3>4
  <2>3. QED
    BY <2>1, <2>2
<1>11. CurrentSecret' /\ SessionsAreValid'
  BY <1>2 DEF CredentialsInv, CurrentSecret, SessionsAreValid, Fetchable
<1>12. QED
  BY <1>5, <1>7, <1>10, <1>11 DEF CredentialsInv

LEMMA RotationCommitsStep ==
  ASSUME CredentialsInv, NEW q \in Rotators, RotationCommits(q)
  PROVE  CredentialsInv'
<1>1. /\ credential \in CredentialRow /\ rotator \in [Rotators -> Secrets \union {NoSecret}]
      /\ secretAnswer \in [Secrets -> AnswerRow] /\ secretsMade \in 0..MaxSecret
      /\ relay \in [Submitters -> RelaySession] /\ withdrawn \in Withdrawn
  BY CredentialTypes DEF CredentialsInv
<1> DEFINE v == rotator[q]
           old == credential.secret
<1>2. /\ v # NoSecret /\ credential' = [credential EXCEPT !.secret = v] /\ IsRecorded(v)
      /\ withdrawn' = [withdrawn EXCEPT !.secrets = withdrawn.secrets \union {old}]
      /\ rotator' = [rotator EXCEPT ![q] = NoSecret]
      /\ UNCHANGED <<secretsMade, relay>>
  BY <1>1 DEF RotationCommits, Rehashed, Withdrawn
<1>3. v \in Secrets /\ v <= secretsMade /\ secretsMade \in Nat
  BY <1>1, <1>2 DEF CredentialsInv, SecretsAreMade
<1>4. credential.status # "none" /\ old \in Secrets /\ old <= secretsMade
  BY <1>1, <1>2, <1>3, SecretNumbers DEF CredentialsInv, SecretsAreMade, CredentialRow
<1>6. PICK w \in Secrets : w = v
  BY <1>3
<1>7. /\ secretAnswer' \in [Secrets -> AnswerRow] /\ Fetchable(w)'
      /\ \A u \in Secrets \ {w} : secretAnswer'[u] = secretAnswer[u]
  BY <1>2, <1>6, SecretIsRecorded
<1>8. credential' \in CredentialRow /\ credential'.status = credential.status
      /\ credential'.secret = w
  BY <1>1, <1>2, <1>6 DEF CredentialRow
<1>9. withdrawn' \in Withdrawn /\ withdrawn'.revoked = withdrawn.revoked
      /\ withdrawn'.secrets = withdrawn.secrets \union {old}
  BY <1>1, <1>2, <1>4 DEF Withdrawn
<1>10. rotator' \in [Rotators -> Secrets \union {NoSecret}] /\ rotator'[q] = NoSecret
       /\ \A p \in Rotators \ {q} : rotator'[p] = rotator[p]
  BY <1>1, <1>2
<1>11. CredentialsTypeOK'
  BY <1>1, <1>2, <1>7, <1>8, <1>9, <1>10, NextCredentialTypes
<1>12. /\ w # old /\ w \notin withdrawn.secrets
       /\ \A p \in Rotators \ {q} : rotator[p] # w
  BY <1>2, <1>6 DEF CredentialsInv, RotationsAreRight
<1>13. SecretsAreMade'
  <2>1. credential'.status # "none" /\ credential'.secret # NoSecret
        /\ credential'.secret <= secretsMade'
    BY <1>2, <1>3, <1>4, <1>6, <1>8
  <2>2. \A p \in Rotators : rotator'[p] <= secretsMade'
    BY <1>2, <1>3, <1>10, SecretNumbers DEF CredentialsInv, SecretsAreMade
  <2>3. \A u \in withdrawn'.secrets : u <= secretsMade'
    BY <1>2, <1>4, <1>9 DEF CredentialsInv, SecretsAreMade
  <2>4. ASSUME NEW u \in Secrets, u > secretsMade' PROVE Unrecorded(u)'
    <3>1. u # w /\ Unrecorded(u)
      BY <1>2, <1>3, <1>6, <2>4, SecretNumbers DEF CredentialsInv, SecretsAreMade
    <3>2. QED
      BY <1>7, <3>1 DEF Unrecorded
  <2>5. QED
    BY <2>1, <2>2, <2>3, <2>4 DEF SecretsAreMade
<1>14. RotationsAreRight'
  <2> SUFFICES ASSUME NEW p \in Rotators, rotator'[p] # NoSecret
               PROVE  /\ rotator'[p] # credential'.secret /\ rotator'[p] \notin withdrawn'.secrets
                      /\ Unrecorded(rotator[p])'
                      /\ \A r \in Rotators \ {p} : rotator'[r] # rotator'[p]
    BY DEF RotationsAreRight
  <2>1. p # q /\ rotator'[p] = rotator[p]
    BY <1>10
  <2>2. /\ rotator[p] # old /\ rotator[p] \notin withdrawn.secrets
        /\ Unrecorded(rotator[p]) /\ \A r \in Rotators \ {p} : rotator[r] # rotator[p]
    BY <2>1 DEF CredentialsInv, RotationsAreRight
  <2>3. rotator[p] \in Secrets \ {w}
    BY <1>1, <1>12, <2>1
  <2>4. Unrecorded(rotator[p])'
    BY <1>7, <2>1, <2>2, <2>3 DEF Unrecorded
  <2>5. \A r \in Rotators \ {p} : rotator'[r] # rotator'[p]
    BY <1>10, <2>1, <2>2
  <2>6. QED
    BY <1>8, <1>9, <2>1, <2>2, <2>3, <2>4, <2>5
<1>15. CurrentSecret'
  BY <1>7, <1>8, <1>9, <1>12 DEF CredentialsInv, CurrentSecret
<1>16. SessionsAreValid'
  BY <1>2 DEF CredentialsInv, SessionsAreValid
<1>17. QED
  BY <1>11, <1>13, <1>14, <1>15, <1>16 DEF CredentialsInv

LEMMA RotationFailsStep ==
  ASSUME CredentialsInv, NEW q \in Rotators, RotationFails(q)
  PROVE  CredentialsInv'
<1>1. /\ credential \in CredentialRow /\ rotator \in [Rotators -> Secrets \union {NoSecret}]
      /\ secretsMade \in Nat
  BY CredentialTypes, SecretsAssumption DEF CredentialsInv
<1>2. /\ rotator' = [rotator EXCEPT ![q] = NoSecret]
      /\ UNCHANGED <<credential, secretAnswer, secretsMade, relay, withdrawn>>
  BY DEF RotationFails
<1>3. rotator' \in [Rotators -> Secrets \union {NoSecret}] /\ rotator'[q] = NoSecret
      /\ \A p \in Rotators \ {q} : rotator'[p] = rotator[p]
  BY <1>1, <1>2
<1>4. CredentialsTypeOK'
  BY <1>2, <1>3, CredentialTypes, NextCredentialTypes DEF CredentialsInv
<1>5. SecretsAreMade'
  BY <1>1, <1>2, <1>3, SecretNumbers DEF CredentialsInv, SecretsAreMade, Unrecorded
<1>6. RotationsAreRight'
  BY <1>2, <1>3 DEF CredentialsInv, RotationsAreRight, Unrecorded
<1>7. CurrentSecret' /\ SessionsAreValid'
  BY <1>2 DEF CredentialsInv, CurrentSecret, SessionsAreValid, Fetchable
<1>8. QED
  BY <1>4, <1>5, <1>6, <1>7 DEF CredentialsInv

LEMMA CredentialEndsStep ==
  ASSUME CredentialsInv, CredentialIsRevoked \/ CredentialExpires
  PROVE  CredentialsInv'
<1>1. credential \in CredentialRow /\ withdrawn \in Withdrawn
  BY CredentialTypes DEF CredentialsInv
<1>2. PICK t \in BOOLEAN : t = TRUE
  OBVIOUS
<1>3. /\ UNCHANGED <<rotator, secretAnswer, secretsMade, relay>> /\ credential.status # "none"
      /\ \/ /\ credential' = [credential EXCEPT !.status = "REVOKED"]
            /\ withdrawn' = [withdrawn EXCEPT !.revoked = t]
         \/ credential' = [credential EXCEPT !.expired = t] /\ withdrawn' = withdrawn
  BY <1>2 DEF CredentialIsRevoked, CredentialExpires
<1>4. /\ credential' \in CredentialRow /\ credential'.secret = credential.secret
      /\ credential'.status # "none" /\ withdrawn' \in Withdrawn
      /\ withdrawn'.secrets = withdrawn.secrets
      /\ withdrawn'.revoked => credential'.status = "REVOKED"
  BY <1>1, <1>3 DEF CredentialRow, Withdrawn, CredentialsInv, CurrentSecret
<1>5. CredentialsTypeOK'
  BY <1>3, <1>4, CredentialTypes, NextCredentialTypes DEF CredentialsInv
<1>6. SecretsAreMade'
  BY <1>3, <1>4 DEF CredentialsInv, SecretsAreMade, Unrecorded
<1>7. RotationsAreRight'
  BY <1>3, <1>4 DEF CredentialsInv, RotationsAreRight, Unrecorded
<1>8. CurrentSecret' /\ SessionsAreValid'
  BY <1>3, <1>4 DEF CredentialsInv, CurrentSecret, SessionsAreValid, Fetchable
<1>9. QED
  BY <1>5, <1>6, <1>7, <1>8 DEF CredentialsInv

\* A session of the relay takes a step.
LEMMA RelayMoves ==
  ASSUME CredentialsInv, NEW x \in Submitters, NEW new, new \in RelaySession,
         relay' = [relay EXCEPT ![x] = new],
         UNCHANGED <<credential, rotator, secretAnswer, secretsMade, withdrawn>>,
         new.step \in InSession => ~new.void
  PROVE  CredentialsInv'
<1>1. relay \in [Submitters -> RelaySession]
  BY CredentialTypes DEF CredentialsInv
<1>2. relay' \in [Submitters -> RelaySession] /\ relay'[x] = new
      /\ \A y \in Submitters \ {x} : relay'[y] = relay[y]
  BY <1>1
<1>3. SessionsAreValid'
  BY <1>2 DEF CredentialsInv, SessionsAreValid
<1>4. CredentialsTypeOK'
  BY <1>2, CredentialTypes, NextCredentialTypes DEF CredentialsInv
<1>5. SecretsAreMade' /\ RotationsAreRight' /\ CurrentSecret'
  BY DEF CredentialsInv, SecretsAreMade, RotationsAreRight, CurrentSecret, Unrecorded, Fetchable
<1>6. QED
  BY <1>3, <1>4, <1>5 DEF CredentialsInv

LEMMA RelayGoesOn ==
  ASSUME CredentialsInv, NEW x \in Submitters, NEW from, NEW to, RelayGoes(x, from, to),
         from \in InSession, to \in InSession \cup {"closed"}
  PROVE  CredentialsInv'
<1> DEFINE new == [relay[x] EXCEPT !.step = to]
<1>1. relay \in [Submitters -> RelaySession] /\ relay[x] \in RelaySession
  BY CredentialTypes DEF CredentialsInv
<1>2. relay[x].step = from /\ relay' = [relay EXCEPT ![x] = new]
      /\ UNCHANGED <<credential, rotator, secretAnswer, secretsMade, withdrawn>>
  BY <1>1 DEF RelayGoes
<1>3. new \in RelaySession /\ new.void = relay[x].void
  BY <1>1 DEF RelaySession, InSession
<1>4. ~new.void
  BY <1>2, <1>3 DEF CredentialsInv, SessionsAreValid
<1> HIDE DEF new
<1>5. QED
  BY <1>2, <1>3, <1>4, RelayMoves

LEMMA RelayStep ==
  ASSUME CredentialsInv, NEW x \in Submitters,
         \/ RelayTakesSender(x) \/ RelayTakesRecipient(x) \/ RelayTakesData(x)
         \/ RelayQueues(x) \/ RelayRefuses(x)
         \/ \E v \in Secrets : v <= secretsMade /\ RelayLogsIn(x, v)
  PROVE  CredentialsInv'
<1>1. relay \in [Submitters -> RelaySession] /\ relay[x] \in RelaySession
      /\ withdrawn \in Withdrawn
  BY CredentialTypes DEF CredentialsInv
<1>2. CASE RelayTakesSender(x)
  BY <1>2, RelayGoesOn DEF RelayTakesSender, InSession
<1>3. CASE RelayTakesRecipient(x)
  BY <1>3, RelayGoesOn DEF RelayTakesRecipient, InSession
<1>4. CASE RelayQueues(x)
  BY <1>4, RelayGoesOn DEF RelayQueues, InSession
<1>5. CASE RelayRefuses(x)
  BY <1>5, RelayGoesOn DEF RelayRefuses, InSession
<1>6. CASE RelayTakesData(x)
  <2>1. PICK b \in BOOLEAN : b = (relay[x].void \/ withdrawn.revoked)
    BY <1>1 DEF RelaySession, Withdrawn
  <2> DEFINE new == [[relay[x] EXCEPT !.step = "data"] EXCEPT !.void = b]
  <2>2. /\ relay[x].step = "rcpt" /\ credential.status = "ACTIVE"
        /\ relay' = [relay EXCEPT ![x].step = "data", ![x].void = b]
        /\ UNCHANGED <<credential, rotator, secretAnswer, secretsMade, withdrawn>>
    <3>1. relay' = [relay EXCEPT ![x].step = "data", ![x].void = relay[x].void \/ withdrawn.revoked]
      BY <1>1, <1>6 DEF RelayTakesData
    <3>2. QED
      BY <1>6, <2>1, <3>1 DEF RelayTakesData, StillValid
  <2>3. [relay EXCEPT ![x].step = "data", ![x].void = b] = [relay EXCEPT ![x] = new]
    BY ONLY <1>1, x \in Submitters
  <2>4. new \in RelaySession /\ new.void = b
    BY <1>1, <2>1 DEF RelaySession
  <2>5. ~b
    BY <2>1, <2>2 DEF CredentialsInv, SessionsAreValid, CurrentSecret, InSession
  <2>6. relay' = [relay EXCEPT ![x] = new]
    BY <2>2, <2>3
  <2> HIDE DEF new
  <2>7. QED
    BY <2>2, <2>4, <2>5, <2>6, RelayMoves
<1>7. ASSUME NEW v \in Secrets, RelayLogsIn(x, v) PROVE CredentialsInv'
  <2>1. PICK b \in BOOLEAN : b = (withdrawn.revoked \/ v \in withdrawn.secrets)
    OBVIOUS
  <2>2. PICK s \in {"in", "closed"} : s = IF Accepts(v) THEN "in" ELSE "closed"
    OBVIOUS
  <2> DEFINE new == [step |-> s, secret |-> v, void |-> b]
  <2>3. relay' = [relay EXCEPT ![x] = new]
        /\ UNCHANGED <<credential, rotator, secretAnswer, secretsMade, withdrawn>>
    BY <1>7, <2>1, <2>2 DEF RelayLogsIn
  <2>4. new \in RelaySession /\ new.step = s /\ new.void = b
    BY <2>1, <2>2 DEF RelaySession
  <2>5. s \in InSession => ~b
    <3>1. s \in InSession => credential.status = "ACTIVE" /\ credential.secret = v
      BY <2>2 DEF Accepts, InSession
    <3>2. QED
      BY <2>1, <3>1 DEF CredentialsInv, CurrentSecret
  <2> HIDE DEF new
  <2>6. QED
    BY <2>3, <2>4, <2>5, RelayMoves
<1>8. QED
  BY <1>2, <1>3, <1>4, <1>5, <1>6, <1>7

LEMMA CredentialsStep ==
  ASSUME CredentialsInv, [CredentialsNext]_credentialVars
  PROVE  CredentialsInv'
<1>1. CASE UNCHANGED credentialVars
  <2>1. CredentialsTypeOK'
    BY <1>1, CredentialTypes, NextCredentialTypes DEF CredentialsInv, credentialVars
  <2>2. QED
    BY <1>1, <2>1 DEF credentialVars, CredentialsInv, SecretsAreMade, RotationsAreRight,
       CurrentSecret, SessionsAreValid, Unrecorded, Fetchable
<1>2. CASE CredentialsNext
  BY <1>2, AnswerStep, CreatedStep, RotationReadsStep, RotationCommitsStep, RotationFailsStep,
     CredentialEndsStep, RelayStep DEF CredentialsNext
<1>3. QED
  BY <1>1, <1>2

LEMMA CredentialsBegin == CredentialsInit => CredentialsInv
<1> SUFFICES ASSUME CredentialsInit PROVE CredentialsInv
  OBVIOUS
<1>1. PICK b \in BOOLEAN : b = FALSE
  OBVIOUS
<1>2. PICK S \in SUBSET Secrets : S = {}
  OBVIOUS
<1>3. /\ credential = [status |-> "none", secret |-> NoSecret, expired |-> b]
      /\ rotator = [q \in Rotators |-> NoSecret] /\ secretsMade = 0
      /\ secretAnswer = [v \in Secrets |-> [state |-> "none", expired |-> b, fetched |-> b]]
      /\ relay = [x \in Submitters |-> [step |-> "out", secret |-> NoSecret, void |-> b]]
      /\ withdrawn = [revoked |-> b, secrets |-> S]
  BY <1>1, <1>2 DEF CredentialsInit
<1>4. credential \in CredentialRow /\ withdrawn \in Withdrawn
  BY <1>3 DEF CredentialRow, Withdrawn
<1>5. secretAnswer \in [Secrets -> AnswerRow] /\ relay \in [Submitters -> RelaySession]
  BY <1>3 DEF AnswerRow, RelaySession
<1>6. rotator \in [Rotators -> Secrets \union {NoSecret}] /\ secretsMade \in 0..MaxSecret
  BY <1>3, SecretsAssumption
<1>7. CredentialsTypeOK
  BY <1>4, <1>5, <1>6, CredentialTypes
<1>8. SecretsAreMade /\ CurrentSecret
  BY <1>1, <1>2, <1>3 DEF SecretsAreMade, CurrentSecret, NoSecret, Unrecorded
<1>9. RotationsAreRight /\ SessionsAreValid
  BY <1>3 DEF RotationsAreRight, SessionsAreValid, InSession
<1>10. QED
  BY <1>7, <1>8, <1>9 DEF CredentialsInv

LEMMA CredentialsAreSafe == CredentialsInv => CredentialsHold
BY DEF CredentialsInv, CurrentSecret, SessionsAreValid, InSession, Fetchable, CredentialsHold

LEMMA CredentialsInvariant == CredentialsSpec => []CredentialsInv
<1>1. CredentialsInv /\ [CredentialsNext]_credentialVars => CredentialsInv'
  BY CredentialsStep
<1>2. QED
  BY CredentialsBegin, <1>1, PTL DEF CredentialsSpec

\* For any members, requests, changes, secrets and SMTP sessions: a request
\* that holds its locks acts on a live session with the role that its member has
\* now, the founder stays an active owner, no message is queued on a credential
\* or a secret that was withdrawn before, a revocation stays, and the secret
\* that works can be fetched until its time is over
\* (platform_owner_role_stability_guard, smtp_credential_rotate, GovernedRelay).
THEOREM AuthorityIsCurrentAlways == TeamSpec /\ CredentialsSpec => []AuthorityIsCurrent
<1>1. TeamInv /\ CredentialsInv => AuthorityIsCurrent
  BY TeamIsSafe, CredentialsAreSafe DEF AuthorityIsCurrent
<1>2. QED
  BY TeamInvariant, CredentialsInvariant, <1>1, PTL
===============================================================================
