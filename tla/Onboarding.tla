----------------------------- MODULE Onboarding -----------------------------
(* Who a browser that comes back from the identity provider is: the first     *)
(* login of a subject, which makes a user and gives them a home, the logins   *)
(* after it, and the acceptance of an invitation (browser_security_fixes.py,  *)
(* tenancy_onboarding.py, tenancy.py).                                        *)
(*                                                                            *)
(* The callback is one transaction.  It looks the identity up, inserts what a *)
(* first login needs, chooses the home and commits; between these steps other *)
(* callbacks go on.  The workspace an invitation is to is the same for all;   *)
(* a workspace of one's own is never taken away, its owner cannot be removed. *)
EXTENDS Naturals

CONSTANTS
  Subjects,       \* subjects of the identity provider
  EmailOf,        \* the verified address of each; users are known by it
  NoUser,
  Arrivals,       \* callbacks under way
  Invites,        \* rows of tenant_invitations
  NoInvite,
  MaxInvited      \* invitations and removals (bound)

Emails == {EmailOf[s] : s \in Subjects}

(* The identity provider verifies an address for one subject.                 *)
ASSUME OnboardingAssumption ==
  /\ NoUser \notin Emails /\ NoInvite \notin Invites /\ MaxInvited \in Nat
  /\ \A s, t \in Subjects : EmailOf[s] = EmailOf[t] => s = t

VARIABLES
  identity,   \* the user each subject is linked to
  home,       \* each user's membership by invitation, and workspaces of their own
  users,      \* the users there are
  invite,     \* the invitations: for whom, and how often they were taken
  arrival,    \* the callbacks: the step, the subject and what was decided
  invited     \* invitations and removals so far

onboardingVars == <<identity, home, users, invite, arrival, invited>>

OnboardingTypeOK ==
  /\ identity \in [Subjects -> Emails \cup {NoUser}]
  /\ home \in [Emails -> [guest : {"none", "active", "removed"}, own : Nat]]
  /\ users \subseteq Emails
  /\ invite \in [Invites -> [state : {"none", "open", "taken", "lapsed"},
                             email : Emails \cup {NoUser}, taken : Nat]]
  /\ arrival \in [Arrivals ->
       [step : {"idle", "looked", "inserted", "offered", "chosen"}, subject : Subjects \cup {NoUser},
        user : Emails \cup {NoUser}, first : BOOLEAN, selected : Invites \cup {NoInvite},
        home : {"none", "kept", "own", "guest"}, takes : Invites \cup {NoInvite}]]
  /\ invited \in 0 .. MaxInvited

NoArrival == [step |-> "idle", subject |-> NoUser, user |-> NoUser, first |-> FALSE,
                  selected |-> NoInvite, home |-> "none", takes |-> NoInvite]

OnboardingInit ==
  /\ identity = [s \in Subjects |-> NoUser]
  /\ home = [u \in Emails |-> [guest |-> "none", own |-> 0]]
  /\ users = {}
  /\ invite = [i \in Invites |-> [state |-> "none", email |-> NoUser, taken |-> 0]]
  /\ arrival = [q \in Arrivals |-> NoArrival]
  /\ invited = 0

Rolls(q) == arrival' = [arrival EXCEPT ![q] = NoArrival]

-----------------------------------------------------------------------------
(* The callback *)

(* The identity is looked up, and for a first login the user of that address: *)
(* one that exists is another subject's, and has to be linked by an operator. *)
ArrivalLooksUp(q, s, i) ==
  LET known == identity[s] # NoUser IN
  /\ arrival[q].step = "idle"
  /\ i # NoInvite => invite[i].state # "none"
  /\ known \/ EmailOf[s] \notin users
  /\ arrival' = [arrival EXCEPT ![q] =
       [NoArrival EXCEPT !.step = "looked", !.subject = s, !.selected = i,
        !.first = ~known, !.user = IF known THEN identity[s] ELSE EmailOf[s]]]
  /\ UNCHANGED <<identity, home, users, invite, invited>>

(* Inserted and not yet committed *)
Inserting(q) == arrival[q].first /\ arrival[q].step \in {"inserted", "offered", "chosen"}

(* A faulty schema, in which neither identities nor users are unique.         *)
NothingIsUnique(q) == q \in Arrivals

(* The flush waits for a transaction that has inserted the same subject or    *)
(* address and fails if it has committed.                                     *)
KeysAreFree(q) ==
  LET me == arrival[q] IN
  /\ identity[me.subject] = NoUser /\ me.user \notin users
  /\ \A p \in Arrivals \ {q} :
       Inserting(p) => arrival[p].subject # me.subject /\ arrival[p].user # me.user

AccountIsInserted(q) ==
  /\ arrival[q].step = "looked" /\ arrival[q].first
  /\ KeysAreFree(q)
  /\ arrival' = [arrival EXCEPT ![q].step = "inserted"]
  /\ UNCHANGED <<identity, home, users, invite, invited>>

OpenFor(email) == {i \in Invites : invite[i].state = "open" /\ invite[i].email = email}

(* A callback holds the lock of the invitation it has selected or written,    *)
(* and has written or locked its user's membership.                           *)
InviteIsFree(i) ==
  \A p \in Arrivals : arrival[p].step = "chosen" => arrival[p].takes # i
GuestIsFree(u) ==
  \A p \in Arrivals :
    arrival[p].step = "chosen" /\ arrival[p].user = u => arrival[p].home # "guest"

Proceeds(q, step, where, i) ==
  /\ arrival' = [arrival EXCEPT ![q].step = step, ![q].home = where, ![q].takes = i]
  /\ UNCHANGED <<identity, home, users, invite, invited>>

Chooses(q, where, i) == Proceeds(q, "chosen", where, i)

(* accept_selected_invitation, under the lock of the invitation: it must be   *)
(* open and for the address of the claims, whoever the identity belongs to.   *)
SelectedIsTaken(q) ==
  LET i == arrival[q].selected IN
  /\ i # NoInvite
  /\ i \in OpenFor(EmailOf[arrival[q].subject])
  /\ InviteIsFree(i) /\ GuestIsFree(arrival[q].user)
  /\ Chooses(q, "guest", i)

(* _invited_workspace, at a first login: the only open invitation, which is   *)
(* read without a lock; otherwise a workspace of one's own.                   *)
FirstHomeIsFound(q) ==
  LET offers == OpenFor(arrival[q].user) IN
  /\ arrival[q].selected = NoInvite /\ arrival[q].first
  /\ \/ \E i \in offers : offers = {i} /\ Proceeds(q, "offered", "guest", i)
     \/ (\A i \in offers : offers # {i}) /\ Chooses(q, "own", NoInvite)

(* Of a known user an active membership, else a workspace of their own. *)
KnownHomeIsFound(q) ==
  LET has == home[arrival[q].user] IN
  /\ arrival[q].selected = NoInvite /\ ~arrival[q].first
  /\ Chooses(q, IF has.guest = "active" \/ has.own > 0 THEN "kept" ELSE "own", NoInvite)

HomeIsChosen(q) ==
  /\ arrival[q].step = IF arrival[q].first THEN "inserted" ELSE "looked"
  /\ SelectedIsTaken(q) \/ FirstHomeIsFound(q) \/ KnownHomeIsFound(q)

(* The flush writes it as taken, whatever has become of it, once nobody else  *)
(* holds its lock.                                                            *)
OfferIsTaken(q) ==
  /\ arrival[q].step = "offered" /\ InviteIsFree(arrival[q].takes)
  /\ Chooses(q, "guest", arrival[q].takes)

(* The commit writes what was decided, the invitation as it was read.         *)
ArrivalCommits(q) ==
  LET me == arrival[q] IN
  /\ me.step = "chosen"
  /\ identity' = [identity EXCEPT ![me.subject] = me.user]
  /\ users' = users \cup {me.user}
  /\ home' = [home EXCEPT
       ![me.user].guest = IF me.home = "guest" THEN "active" ELSE @,
       ![me.user].own = IF me.home = "own" THEN @ + 1 ELSE @]
  /\ invite' = IF me.takes = NoInvite THEN invite
               ELSE [invite EXCEPT ![me.takes].state = "taken", ![me.takes].taken = @ + 1]
  /\ Rolls(q)
  /\ UNCHANGED invited

(* A refusal, a violated constraint or a crash: all is rolled back. *)
ArrivalFails(q) ==
  /\ arrival[q].step # "idle"
  /\ Rolls(q)
  /\ UNCHANGED <<identity, home, users, invite, invited>>

-----------------------------------------------------------------------------
(* What others do *)

IsInvited(i, u) ==
  /\ invite[i].state = "none" /\ invited < MaxInvited
  /\ invite' = [invite EXCEPT ![i] = [state |-> "open", email |-> u, taken |-> 0]]
  /\ invited' = invited + 1
  /\ UNCHANGED <<identity, home, users, arrival>>

InviteLapses(i) ==
  /\ invite[i].state = "open"
  /\ invite' = [invite EXCEPT ![i].state = "lapsed"]
  /\ UNCHANGED <<identity, home, users, arrival, invited>>

(* accept_legacy_invitation, for a user that exists, under both locks *)
LegacyAcceptance(i) ==
  LET u == invite[i].email IN
  /\ invite[i].state = "open" /\ u \in users
  /\ InviteIsFree(i) /\ GuestIsFree(u)
  /\ home' = [home EXCEPT ![u].guest = "active"]
  /\ invite' = [invite EXCEPT ![i].state = "taken", ![i].taken = @ + 1]
  /\ UNCHANGED <<identity, users, arrival, invited>>

GuestIsRemoved(u) ==
  /\ home[u].guest = "active" /\ GuestIsFree(u) /\ invited < MaxInvited
  /\ home' = [home EXCEPT ![u].guest = "removed"]
  /\ invited' = invited + 1
  /\ UNCHANGED <<identity, users, invite, arrival>>

(* An administrator links another subject to a user: the same constraint.     *)
SubjectIsLinked(s, u) ==
  /\ identity[s] = NoUser /\ u \in users
  /\ \A p \in Arrivals : Inserting(p) => arrival[p].subject # s
  /\ identity' = [identity EXCEPT ![s] = u]
  /\ UNCHANGED <<home, users, invite, arrival, invited>>

OnboardingNext ==
  \/ \E q \in Arrivals :
       \/ AccountIsInserted(q) \/ HomeIsChosen(q) \/ OfferIsTaken(q)
       \/ ArrivalCommits(q) \/ ArrivalFails(q)
       \/ \E s \in Subjects, i \in Invites \cup {NoInvite} : ArrivalLooksUp(q, s, i)
  \/ \E i \in Invites : \/ InviteLapses(i) \/ LegacyAcceptance(i)
                        \/ \E u \in Emails : IsInvited(i, u)
  \/ \E u \in Emails : GuestIsRemoved(u) \/ \E s \in Subjects : SubjectIsLinked(s, u)

OnboardingSpec == OnboardingInit /\ [][OnboardingNext]_onboardingVars

-----------------------------------------------------------------------------
(* A user is made with a home or not at all, in one of which they are signed  *)
(* in; two first logins at once leave one user with one workspace of their    *)
(* own, unless they had been invited elsewhere; and an invitation, which a    *)
(* first login takes without a lock, is taken once ("Mirror canonical         *)
(* onboarding while retaining one callback transaction",                      *)
(* _resolve_identity_context_uncommitted).                                    *)
OnboardedOnce ==
  /\ \A u \in users : home[u].own > 0 \/ home[u].guest # "none"
  /\ \A s \in Subjects : identity[s] # NoUser => identity[s] \in users
  /\ \A u \in Emails : home[u].own > 1 => home[u].guest # "none"
  /\ \A i \in Invites : invite[i].taken <= 1
=============================================================================
