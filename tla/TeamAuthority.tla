--------------------------- MODULE TeamAuthority ----------------------------
(* The members of a workspace, their invitations, and the authority a browser *)
(* request acts with (tenancy.py, invitation_flow.py, tenancy_onboarding.py,  *)
(* browser_security_fixes.py, platform_owner.py, browser_auth_actions.py).    *)
(*                                                                            *)
(* A browser request reads its session and role, and commits; then the        *)
(* role-stability guard takes share locks on the session and the membership   *)
(* and reads the role again, and the handler acts in that transaction.        *)
(* Updates of a locked row wait.  The administrators' handlers lock nothing:  *)
(* they read a member and write it in a later statement.                      *)
EXTENDS Naturals

CONSTANTS
  Members,        \* users, with one browser session each
  Founder,        \* the user whose workspace it is
  Handlers,       \* browser requests under way
  Changes,        \* role changes and removals under way
  Invitations,    \* rows of tenant_invitations
  NoMember

ASSUME FounderIsAMember == Founder \in Members /\ NoMember \notin Members

(* Two roles that manage the workspace and one that does not.                 *)
MemberRoles == {"OWNER", "ADMIN", "VIEWER"}

VARIABLES
  member,      \* rows of tenant_members
  signedIn,    \* the users' sessions: whether they are live, the role on the row
  handler,     \* the requests: step, user, role they act with, locks they hold
  change,      \* the changes: user, role as it was read, what is to be written
  invitation   \* the invitations: whom they are for, the role, how often accepted

teamVars == <<member, signedIn, handler, change, invitation>>

TeamTypeOK ==
  /\ member \in [Members -> [state : {"none", "active", "removed"}, role : MemberRoles]]
  /\ signedIn \in [Members -> [live : BOOLEAN, role : MemberRoles]]
  /\ handler \in [Handlers -> [step : {"idle", "entered", "locked", "acting"},
                               user : Members \cup {NoMember}, role : MemberRoles,
                               locks : BOOLEAN]]
  /\ change \in [Changes -> [kind : {"none", "role", "remove"},
                             user : Members \cup {NoMember},
                             read : MemberRoles, new : MemberRoles]]
  /\ invitation \in [Invitations -> [state : {"none", "open", "accepted", "expired"},
                                     user : Members \cup {NoMember}, role : MemberRoles]]

Idle == [step |-> "idle", user |-> NoMember, role |-> "VIEWER", locks |-> FALSE]
NoChange == [kind |-> "none", user |-> NoMember, read |-> "VIEWER", new |-> "VIEWER"]

TeamInit ==
  /\ member = [u \in Members |->
       IF u = Founder THEN [state |-> "active", role |-> "OWNER"]
       ELSE [state |-> "none", role |-> "VIEWER"]]
  /\ signedIn = [u \in Members |-> [live |-> TRUE, role |-> member[u].role]]
  /\ handler = [h \in Handlers |-> Idle]
  /\ change = [c \in Changes |-> NoChange]
  /\ invitation = [i \in Invitations |->
       [state |-> "none", user |-> NoMember, role |-> "VIEWER"]]

(* A request holds share locks on the rows of this user. *)
Locked(u) == \E h \in Handlers : handler[h].user = u /\ handler[h].locks

-----------------------------------------------------------------------------
(* Browser requests *)

(* browser_context: the session is checked, its role brought up to date and   *)
(* its last use written, which waits for locks.                               *)
RequestEnters(h, u) ==
  /\ handler[h].step = "idle"
  /\ signedIn[u].live /\ member[u].state = "active" /\ ~Locked(u)
  /\ signedIn' = [signedIn EXCEPT ![u].role = member[u].role]
  /\ handler' = [handler EXCEPT ![h] =
       [step |-> "entered", user |-> u, role |-> member[u].role, locks |-> FALSE]]
  /\ UNCHANGED <<member, change, invitation>>

(* A faulty guard that locks and leaves the role as browser_context read it.  *)
RoleAsRead(h) == handler[h].role

(* platform_owner_role_stability_guard: the role of the locked membership     *)
LockedRole(h) == member[handler[h].user].role

RequestLocks(h) ==
  LET u == handler[h].user IN
  /\ handler[h].step = "entered"
  /\ handler' = [handler EXCEPT ![h] =
       IF signedIn[u].live /\ member[u].state = "active"
       THEN [@ EXCEPT !.step = "locked", !.role = LockedRole(h), !.locks = TRUE]
       ELSE Idle]
  /\ UNCHANGED <<member, signedIn, change, invitation>>

(* csrf_guard finds the session again.  If its role is no longer that of the  *)
(* membership it writes and commits, and the commit ends the locks; the       *)
(* update waits for the locks of the session's other requests.                *)
RequestIsGuarded(h) ==
  LET u == handler[h].user
      stale == signedIn[u].role # member[u].role IN
  /\ handler[h].step = "locked"
  /\ stale => \A g \in Handlers \ {h} : handler[g].user = u => ~handler[g].locks
  /\ signedIn' = [signedIn EXCEPT ![u].role = member[u].role]
  /\ handler' = [handler EXCEPT ![h].step = "acting", ![h].locks = ~stale]
  /\ UNCHANGED <<member, change, invitation>>

RequestEnds(h) ==
  /\ handler[h].step = "acting"
  /\ handler' = [handler EXCEPT ![h] = Idle]
  /\ UNCHANGED <<member, signedIn, change, invitation>>

(* logout, revocation or the end of its lifetime *)
SessionEnds(u) ==
  /\ signedIn[u].live /\ ~Locked(u)
  /\ signedIn' = [signedIn EXCEPT ![u].live = FALSE]
  /\ UNCHANGED <<member, handler, change, invitation>>

-----------------------------------------------------------------------------
(* role_change and remove_member: read, then an update by primary key         *)

RoleChangeReads(c, u, new) ==
  /\ change[c].kind = "none" /\ member[u].state # "none"
  /\ member[u].role = "OWNER" => new = "OWNER"
  /\ change' = [change EXCEPT ![c] =
       [kind |-> "role", user |-> u, read |-> member[u].role, new |-> new]]
  /\ UNCHANGED <<member, signedIn, handler, invitation>>

RemovalReads(c, u) ==
  /\ change[c].kind = "none" /\ member[u].state = "active" /\ member[u].role # "OWNER"
  /\ change' = [change EXCEPT ![c] =
       [kind |-> "remove", user |-> u, read |-> member[u].role, new |-> member[u].role]]
  /\ UNCHANGED <<member, signedIn, handler, invitation>>

(* A role that was read as it is to be is not written. *)
ChangeWrites(c) ==
  LET u == change[c].user IN
  /\ change[c].kind # "none"
  /\ IF change[c].kind = "remove"
     THEN ~Locked(u) /\ member' = [member EXCEPT ![u].state = "removed"]
     ELSE IF change[c].new # change[c].read
     THEN ~Locked(u) /\ member' = [member EXCEPT ![u].role = change[c].new]
     ELSE UNCHANGED member
  /\ change' = [change EXCEPT ![c] = NoChange]
  /\ UNCHANGED <<signedIn, handler, invitation>>

-----------------------------------------------------------------------------
(* Invitations *)

Invite(i, u, role) ==
  /\ invitation[i].state = "none"
  /\ invitation' = [invitation EXCEPT ![i] = [state |-> "open", user |-> u, role |-> role]]
  /\ UNCHANGED <<member, signedIn, handler, change>>

InvitationExpires(i) ==
  /\ invitation[i].state = "open"
  /\ invitation' = [invitation EXCEPT ![i].state = "expired"]
  /\ UNCHANGED <<member, signedIn, handler, change>>

(* accept_selected_invitation and accept_legacy_invitation lock the           *)
(* invitation and the membership.  An active member keeps their role: the     *)
(* acceptance of another one is refused and the invitation stays open.        *)
InvitationIsAccepted(i) ==
  LET u == invitation[i].user IN
  /\ invitation[i].state = "open" /\ ~Locked(u)
  /\ member[u].state = "active" => member[u].role = invitation[i].role
  /\ member' = [member EXCEPT ![u] = [state |-> "active", role |-> invitation[i].role]]
  /\ invitation' = [invitation EXCEPT ![i].state = "accepted"]
  /\ UNCHANGED <<signedIn, handler, change>>

TeamNext ==
  \/ \E h \in Handlers : \/ RequestLocks(h) \/ RequestIsGuarded(h) \/ RequestEnds(h)
                         \/ \E u \in Members : RequestEnters(h, u)
  \/ \E u \in Members : SessionEnds(u)
  \/ \E c \in Changes : \/ ChangeWrites(c)
                        \/ \E u \in Members : \/ RemovalReads(c, u)
                             \/ \E new \in MemberRoles : RoleChangeReads(c, u, new)
  \/ \E i \in Invitations : \/ InvitationExpires(i) \/ InvitationIsAccepted(i)
       \/ \E u \in Members, role \in MemberRoles : Invite(i, u, role)

TeamSpec == TeamInit /\ [][TeamNext]_teamVars

-----------------------------------------------------------------------------
(* While a request acts under its locks, its session is live, its user is a   *)
(* member and the role it acts with is the member's, whatever changes,        *)
(* removals and logouts are under way ("a concurrent demotion cannot leave    *)
(* stale platform authority in the handler-visible context",                  *)
(* platform_owner.py); and the founder stays an active owner, although        *)
(* changes act on what they read and invitations name any role.               *)
AuthorityStands ==
  /\ \A h \in Handlers : handler[h].step = "acting" /\ handler[h].locks =>
       LET u == handler[h].user IN
       /\ signedIn[u].live /\ member[u].state = "active"
       /\ handler[h].role = member[u].role
  /\ member[Founder] = [state |-> "active", role |-> "OWNER"]
=============================================================================
