---------------------------- MODULE WorkspaceTeam ----------------------------
(***************************************************************************)
(* Accounts, the workspaces they work in, invites, roles, the transfer of  *)
(* ownership, the deletion of an account, and what all of it does to the   *)
(* sessions of the people concerned.                                       *)
(*                                                                         *)
(* A workspace is bootstrapped for one account and is named after it here. *)
(* A transaction is one step when every row that it reads and decides on   *)
(* is locked by it, or by a lock that all writers of the row take first.   *)
(* Two are not.  The deletion of an account looks for colleagues in the    *)
(* snapshot of the statement that then waits for the workspace: it is two  *)
(* steps, the row of the account locked in between.  The switch of a       *)
(* session to another workspace checks the membership, and becomes visible *)
(* later: two steps, the row of the session locked in between.             *)
(*                                                                         *)
(* Of the roles, recruiter, viewer and billing are "staff": the code that  *)
(* manages members does not tell them apart.                               *)
(***************************************************************************)
EXTENDS FiniteSets

CONSTANTS
    Users,      \* accounts; each has signed in once and so has its workspace
    Teams,      \* the accounts in whose workspaces people are invited
    Invites,    \* ids of invites
    Sessions,   \* ids of sessions; a session that was revoked may give its id to a new one
    None        \* nobody, no workspace

ASSUME TeamsAreOfUsers == Teams \subseteq Users
ASSUME NoneIsNobody == None \notin Users

VARIABLES
    account,    \* users.status
    workspace,  \* workspaces.status
    member,     \* workspace_members: role, status and inviter, by workspace and account
    invite,     \* workspace_invites
    session,    \* auth_sessions that are not revoked: whose, in which workspace
    target,     \* the workspace to which a session is being switched
    deleting,   \* the account whose deletion holds the fence and the account's row
    keeps       \* the workspaces with product rows, which are keyed to the account they were made for

vars == <<account, workspace, member, invite, session, target, deleting, keeps>>

Roles == {"owner", "admin", "staff"}
Invitable == {"admin", "staff"}         \* INVITABLE_ROLES
Managing == {"owner", "admin"}
Life == {"active", "deletion_pending", "deleted"}
Absent == [role |-> "staff", status |-> "absent", by |-> None]
Unsent == [status |-> "absent", workspace |-> None, to |-> None, role |-> "staff", by |-> None]
Dead == [user |-> None, workspace |-> None]

Init ==
    /\ account = [u \in Users |-> "active"]
    /\ workspace = [v \in Users |-> "active"]
    /\ member = [v \in Users |-> [u \in Users |->
                    IF u = v THEN [role |-> "owner", status |-> "active", by |-> None] ELSE Absent]]
    /\ invite = [i \in Invites |-> Unsent]
    /\ session = [s \in Sessions |-> Dead]
    /\ target = [s \in Sessions |-> None]
    /\ deleting = None
    /\ keeps = {}

Active(v, u) == member[v][u].status = "active"
Owns(v, u) == Active(v, u) /\ member[v][u].role = "owner"
\* The condition of every statement that lets a person work in a workspace.
Access(v, u) == Active(v, u) /\ workspace[v] = "active"
\* lockActorWorkspace, lockMembershipPair
Manages(v, u) == Access(v, u) /\ member[v][u].role \in Managing

\* Nobody else holds the row of the account FOR UPDATE.
RowIsFree(u) == deleting # u
\* No statement that is still running has the row of one of these sessions.
RowsAreFree(S) == \A s \in S : target[s] = None
SessionsOf(u) == {s \in Sessions : session[s].user = u}
SessionsIn(v, u) == {s \in SessionsOf(u) : session[s].workspace = v}
Revoke(S) == session' = [s \in Sessions |-> IF s \in S THEN Dead ELSE session[s]]

-----------------------------------------------------------------------------
(* Sessions *)

\* ensure_auth_user_workspace raises unless the account owns the workspace made for it.
HasHome(u) == workspace[u] = "active" /\ Owns(u, u)

Homeless(u) == None
\* assign_auth_workspace_context, for a row that is inserted without a workspace.
HomeOf(u) == u

\* INSERT INTO auth_sessions; the trigger assigns the workspace, the foreign key needs the account.
SignIn(s, u) ==
    /\ session[s] = Dead
    /\ account[u] = "active"
    /\ RowIsFree(u)
    /\ HasHome(u)
    /\ session' = [session EXCEPT ![s] = [user |-> u, workspace |-> HomeOf(u)]]
    /\ UNCHANGED <<account, workspace, member, invite, target, deleting, keeps>>

\* revokeAuthSession; readAuthSession does it too when the access of the session is lost.
SignOut(s) ==
    /\ RowsAreFree({s})
    /\ Revoke({s})
    /\ UNCHANGED <<account, workspace, member, invite, target, deleting, keeps>>

\* change_auth_session_workspace: the statement checks both memberships and writes the row.
Switch(s, v) ==
    LET u == session[s].user IN
    /\ session[s] # Dead
    /\ target[s] = None
    /\ session[s].workspace # v
    /\ account[u] = "active"
    /\ Access(session[s].workspace, u)
    /\ Access(v, u)
    /\ target' = [target EXCEPT ![s] = v]
    /\ UNCHANGED <<account, workspace, member, invite, session, deleting, keeps>>

\* The statement commits, after it has waited for the lock of the membership it refers to.
Switched(s) ==
    /\ target[s] # None
    /\ session' = [session EXCEPT ![s].workspace = target[s]]
    /\ target' = [target EXCEPT ![s] = None]
    /\ UNCHANGED <<account, workspace, member, invite, deleting, keeps>>

-----------------------------------------------------------------------------
(* Invites *)

Open(i) == invite[i].status = "open"
CanInvite(actorRole, role) == actorRole = "owner" \/ role = "staff"

\* inviteWorkspaceMember: an open invite of the same person is replaced; the address of a
\* deleted account is nobody's.
Invite(a, v, u, role, i) ==
    /\ invite[i].status = "absent"
    /\ v \in Teams
    /\ RowIsFree(a)
    /\ Manages(v, a)
    /\ CanInvite(member[v][a].role, role)
    /\ ~(Active(v, u) /\ account[u] = "active")
    /\ account[u] # "deleted"
    /\ invite' = [j \in Invites |->
          IF j = i THEN [status |-> "open", workspace |-> v, to |-> u, role |-> role, by |-> a]
          ELSE IF Open(j) /\ invite[j].workspace = v /\ invite[j].to = u
          THEN [invite[j] EXCEPT !.status = "revoked"] ELSE invite[j]]
    /\ UNCHANGED <<account, workspace, member, session, target, deleting, keeps>>

\* revokeWorkspaceInvite
RevokeInvite(a, i) ==
    /\ Open(i)
    /\ Manages(invite[i].workspace, a)
    /\ invite' = [invite EXCEPT ![i].status = "revoked"]
    /\ UNCHANGED <<account, workspace, member, session, target, deleting, keeps>>

\* acceptWorkspaceInvite: a new inviter is a foreign key, which waits for that account's row.
Accept(u, i) ==
    LET v == invite[i].workspace IN
    /\ Open(i)
    /\ invite[i].to = u
    /\ workspace[v] = "active"
    /\ account[u] = "active"
    /\ RowIsFree(u)
    /\ ~Active(v, u)
    /\ member[v][u].by = invite[i].by \/ RowIsFree(invite[i].by)
    /\ member' = [member EXCEPT ![v][u] =
                    [role |-> invite[i].role, status |-> "active", by |-> invite[i].by]]
    /\ invite' = [invite EXCEPT ![i].status = "accepted"]
    /\ UNCHANGED <<account, workspace, session, target, deleting, keeps>>

-----------------------------------------------------------------------------
(* Members *)

CanManageAnyone(actorRole, targetRole, nextRole) ==
    actorRole = "owner" \/ (targetRole # "admin" /\ nextRole # "admin")
\* canManageTarget; who is removed has no next role, here "staff" like the other plain ones.
CanManage(actorRole, targetRole, nextRole) ==
    /\ targetRole # "owner"
    /\ actorRole = "owner" \/ (targetRole # "admin" /\ nextRole # "admin")

\* mutateMember: the pair is locked, and so are the sessions of the target in the workspace.
Manage(a, v, u, nextRole) ==
    /\ a # u
    /\ Manages(v, a)
    /\ Active(v, u)
    /\ CanManage(member[v][a].role, member[v][u].role, nextRole)
    /\ RowsAreFree(SessionsIn(v, u))
    /\ Revoke(SessionsIn(v, u))

ChangeRole(a, v, u, role) ==
    /\ Manage(a, v, u, role)
    /\ member' = [member EXCEPT ![v][u].role = role]
    /\ UNCHANGED <<account, workspace, invite, target, deleting, keeps>>

Remove(a, v, u) ==
    /\ Manage(a, v, u, "staff")
    /\ member' = [member EXCEPT ![v][u].status = "removed"]
    /\ UNCHANGED <<account, workspace, invite, target, deleting, keeps>>

ShareOwnership(v, a, u) == [member EXCEPT ![v][u].role = "owner"]
HandOver(v, a, u) == [member EXCEPT ![v][a].role = "admin", ![v][u].role = "owner"]

\* transferWorkspaceOwnership
Transfer(a, v, u) ==
    /\ a # u
    /\ account[a] = "active" /\ account[u] = "active"
    /\ RowIsFree(a) /\ RowIsFree(u)
    /\ Access(v, a)
    /\ Owns(v, a)
    /\ Active(v, u) /\ ~Owns(v, u)
    /\ RowsAreFree(SessionsIn(v, a) \cup SessionsIn(v, u))
    /\ member' = HandOver(v, a, u)
    /\ Revoke(SessionsIn(v, a) \cup SessionsIn(v, u))
    /\ UNCHANGED <<account, workspace, invite, target, deleting, keeps>>

-----------------------------------------------------------------------------
(* Product rows, and the deletion of an account *)

\* auth_lock_owner_writes and auth_require_active_owner_write: whoever works in a workspace
\* writes rows of the account it was made for, which must be one of its members still.
Work(v, u) ==
    /\ account[u] = "active" /\ Access(v, u)
    /\ deleting = None
    /\ account[v] = "active" /\ Access(v, v)
    /\ keeps' = keeps \cup {v}
    /\ UNCHANGED <<account, workspace, member, invite, session, target, deleting>>

HasColleague(v, u) == \E c \in Users \ {u} : Active(v, c)
\* Rows of the account in a workspace that is another's by now.
KeptByAnother(u) ==
    u \in keeps /\ workspace[u] = "active" /\ \E o \in Users \ {u} : Owns(u, o)

\* requestAccountDeletion: the fence, the row of the account, and the snapshot of the statement
\* that looks for colleagues and then waits for the workspaces.
DeleteLook(u) ==
    /\ deleting = None
    /\ account[u] = "active"
    /\ \A v \in Users : Owns(v, u) /\ workspace[v] # "deleted" => ~HasColleague(v, u)
    /\ deleting' = u
    /\ UNCHANGED <<account, workspace, member, invite, session, target, keeps>>

SessionsAtHome(u) == SessionsIn(u, u)
\* WHERE session.user_id = $1
Doomed(u) == SessionsOf(u)

AllOwned(u) == {v \in Users : Owns(v, u)}
\* UPDATE workspaces ... AND NOT EXISTS (a colleague), in a snapshot of its own.
SoloOwned(u) == {v \in Users : Owns(v, u) /\ ~HasColleague(v, u)}

\* The rest of the transaction, once it has every lock.
DeleteEnd(u) ==
    /\ deleting = u
    /\ ~KeptByAnother(u)
    /\ RowsAreFree(Doomed(u))
    /\ workspace' = [v \in Users |-> IF v \in SoloOwned(u) THEN "deletion_pending" ELSE workspace[v]]
    /\ member' = [v \in Users |->
                    IF Active(v, u) THEN [member[v] EXCEPT ![u].status = "removed"] ELSE member[v]]
    /\ Revoke(Doomed(u))
    /\ account' = [account EXCEPT ![u] = "deletion_pending"]
    /\ deleting' = None
    /\ UNCHANGED <<invite, target, keeps>>

\* ROLLBACK: rows are kept by another, the lock timeout of five seconds, a deadlock, a crash.
DeleteAbort(u) ==
    /\ deleting = u
    /\ deleting' = None
    /\ UNCHANGED <<account, workspace, member, invite, session, target, keeps>>

\* purgeOneAccount
Purge(u) ==
    /\ account[u] = "deletion_pending"
    /\ RowsAreFree(SessionsOf(u))
    /\ account' = [account EXCEPT ![u] = "deleted"]
    /\ invite' = [i \in Invites |->
          IF invite[i].to = u THEN [invite[i] EXCEPT !.to = None] ELSE invite[i]]
    /\ member' = [v \in Users |->
          IF member[v][u].status = "absent" THEN member[v]
          ELSE [member[v] EXCEPT ![u].status = "removed"]]
    /\ workspace' = [v \in Users |->
          IF /\ workspace[v] = "deletion_pending"
             /\ member[v][u].status # "absent" /\ member[v][u].role = "owner"
             /\ ~HasColleague(v, u)
          THEN "deleted" ELSE workspace[v]]
    /\ Revoke(SessionsOf(u))
    /\ UNCHANGED <<target, deleting, keeps>>

-----------------------------------------------------------------------------
Next ==
    \/ \E s \in Sessions : SignOut(s) \/ Switched(s)
    \/ \E s \in Sessions, u \in Users : SignIn(s, u) \/ Switch(s, u)
    \/ \E a, u \in Users, v \in Teams, role \in Invitable, i \in Invites : Invite(a, v, u, role, i)
    \/ \E u \in Users, i \in Invites : RevokeInvite(u, i) \/ Accept(u, i)
    \/ \E a, v, u \in Users, role \in Invitable : ChangeRole(a, v, u, role)
    \/ \E a, v, u \in Users : Remove(a, v, u) \/ Transfer(a, v, u)
    \/ \E v \in Teams, u \in Users : Work(v, u)
    \/ \E u \in Users : DeleteLook(u) \/ DeleteEnd(u) \/ DeleteAbort(u) \/ Purge(u)

Spec == Init /\ [][Next]_vars

-----------------------------------------------------------------------------
(* Properties *)

\* The values of the variables.
TypeOK ==
    /\ account \in [Users -> Life]
    /\ workspace \in [Users -> Life]
    /\ member \in [Users -> [Users -> [role : Roles, status : {"absent", "active", "removed"},
                                       by : Users \cup {None}]]]
    /\ invite \in [Invites -> [status : {"absent", "open", "accepted", "revoked"},
                               workspace : Users \cup {None}, to : Users \cup {None},
                               role : Invitable, by : Users \cup {None}]]
    /\ session \in [Sessions -> [user : Users, workspace : Users] \cup {Dead}]
    /\ target \in [Sessions -> Users \cup {None}]
    /\ deleting \in Users \cup {None}
    /\ keeps \subseteq Users

\* Transfers, invites and returns never make a second owner of a workspace.
OneOwnerAtMost == \A v, a, u \in Users : Owns(v, a) /\ Owns(v, u) => a = u

\* Nobody is left in a workspace that is being deleted, whoever was accepting an invite to
\* it while its owner left.
LeavingWorkspacesAreEmpty ==
    \A v, u \in Users : workspace[v] # "active" => ~Active(v, u)

\* An account that is being deleted has no session, also not one that was being opened or
\* switched at that time, and no membership.
LeaversHaveNothing ==
    \A u \in Users : account[u] # "active" =>
        SessionsOf(u) = {} /\ \A v \in Users : ~Active(v, u)

HasOwner(v) == \E u \in Users : Owns(v, u)

\* A workspace loses its owner only by the deletion of the owner's account, in no other way
\* that members are managed.
OwnersLeaveByDeletion ==
    [][\A v, u \in Users : Owns(v, u) /\ account'[u] = "active" => HasOwner(v)']_vars

\* A concurrent invite does not orphan a workspace while the account of its owner is deleted.
NoOrphans == \A v \in Users : workspace[v] = "active" => HasOwner(v)

\* Who hands over a workspace can sign in again.
EveryoneCanSignIn == \A u \in Users : account[u] = "active" => HasHome(u)

\* Who has been removed from a workspace has no session there any more.
RemovalEndsSessions ==
    \A s \in Sessions : session[s] # Dead => Active(session[s].workspace, session[s].user)
=============================================================================
