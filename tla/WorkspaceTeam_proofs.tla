------------------------- MODULE WorkspaceTeam_proofs -------------------------
(***************************************************************************)
(* Proofs about WorkspaceTeam, for every set of accounts, teams, invites   *)
(* and sessions.                                                           *)
(***************************************************************************)
EXTENDS WorkspaceTeam, TLAPS

-----------------------------------------------------------------------------
(* Typing *)

Membership == [role : Roles, status : {"absent", "active", "removed"}, by : Users \cup {None}]
InviteRow == [status : {"absent", "open", "accepted", "revoked"}, workspace : Users \cup {None},
              to : Users \cup {None}, role : Invitable, by : Users \cup {None}]
SessionRow == [user : Users, workspace : Users] \cup {Dead}

MembersTyped == member \in [Users -> [Users -> Membership]]
\* An open invite is to a workspace and by a member of it.
InvitesTyped ==
    /\ invite \in [Invites -> InviteRow]
    /\ \A i \in Invites : Open(i) => invite[i].workspace \in Users
\* Only a session that is not revoked is being switched.
SessionsTyped ==
    /\ session \in [Sessions -> SessionRow]
    /\ target \in [Sessions -> Users \cup {None}]
    /\ \A s \in Sessions : target[s] # None => session[s] # Dead
AccountsTyped ==
    /\ account \in [Users -> Life] /\ workspace \in [Users -> Life]
    /\ deleting \in Users \cup {None} /\ keeps \subseteq Users
Typed == MembersTyped /\ InvitesTyped /\ SessionsTyped /\ AccountsTyped

LEMMA InitTyped == Init => Typed
<1> SUFFICES ASSUME Init PROVE Typed
  OBVIOUS
<1>1. MembersTyped
  <2>1. Absent \in Membership /\ [role |-> "owner", status |-> "active", by |-> None] \in Membership
    BY DEF Absent, Membership, Roles
  <2> QED BY <2>1 DEF Init, MembersTyped
<1>2. InvitesTyped
  <2>1. Unsent \in InviteRow /\ Unsent.status # "open"
    BY DEF Unsent, InviteRow, Invitable
  <2> QED BY <2>1 DEF Init, InvitesTyped, Open
<1>3. SessionsTyped
  BY DEF Init, SessionsTyped, SessionRow
<1>4. AccountsTyped
  BY TeamsAreOfUsers DEF Init, AccountsTyped, Life
<1> QED BY <1>1, <1>2, <1>3, <1>4 DEF Typed

\* What every step does to a membership: nothing, a new role that is no owner's, a new
\* member with such a role, an end, or one of the two parts of a transfer.
LEMMA AcceptMoves ==
    ASSUME Typed, NEW u \in Users, NEW i \in Invites, Accept(u, i)
    PROVE  LET v == invite[i].workspace IN
           /\ v \in Users /\ workspace[v] = "active" /\ account[u] = "active" /\ ~Active(v, u)
           /\ MembersTyped'
           /\ member'[v][u].role \in Invitable /\ member'[v][u].status = "active"
           /\ \A w, c \in Users : <<w, c>> # <<v, u>> => member'[w][c] = member[w][c]
<1> DEFINE v == invite[i].workspace
           row == [role |-> invite[i].role, status |-> "active", by |-> invite[i].by]
<1>1. v \in Users /\ invite[i] \in InviteRow
  BY DEF Accept, Typed, InvitesTyped
<1>2. row \in Membership /\ row.role \in Invitable /\ row.status = "active"
  BY <1>1 DEF Membership, InviteRow, Roles, Invitable
<1>3. member' = [member EXCEPT ![v][u] = row]
  BY DEF Accept
<1>4. workspace[v] = "active" /\ account[u] = "active" /\ ~Active(v, u)
  BY DEF Accept
<1> HIDE DEF v, row
<1>5. /\ MembersTyped' /\ member'[v][u] = row
      /\ \A w, c \in Users : <<w, c>> # <<v, u>> => member'[w][c] = member[w][c]
  BY <1>1, <1>2, <1>3 DEF Typed, MembersTyped
<1> QED BY <1>1, <1>2, <1>4, <1>5 DEF v

LEMMA ChangeRoleMoves ==
    ASSUME Typed, NEW a \in Users, NEW v \in Users, NEW u \in Users, NEW role \in Invitable,
           ChangeRole(a, v, u, role)
    PROVE  /\ MembersTyped'
           /\ Active(v, u) /\ ~Owns(v, u)
           /\ member'[v][u].role \in Invitable /\ member'[v][u].status = member[v][u].status
           /\ \A w, c \in Users : <<w, c>> # <<v, u>> => member'[w][c] = member[w][c]
<1> DEFINE row == [member[v][u] EXCEPT !.role = role]
<1>1. member[v][u] \in Membership
  BY DEF Typed, MembersTyped
<1>2. row \in Membership /\ row.role = role /\ row.status = member[v][u].status
  BY <1>1 DEF Membership, Roles, Invitable
<1>3. member' = [member EXCEPT ![v][u] = row]
  BY DEF ChangeRole, Typed, MembersTyped
<1>4. Active(v, u) /\ ~Owns(v, u)
  BY DEF ChangeRole, Manage, CanManage, Owns
<1> HIDE DEF row
<1> QED BY <1>2, <1>3, <1>4 DEF Typed, MembersTyped

LEMMA RemoveMoves ==
    ASSUME Typed, NEW a \in Users, NEW v \in Users, NEW u \in Users, Remove(a, v, u)
    PROVE  /\ MembersTyped'
           /\ ~Owns(v, u)
           /\ member'[v][u].status = "removed"
           /\ \A w, c \in Users : <<w, c>> # <<v, u>> => member'[w][c] = member[w][c]
<1> DEFINE row == [member[v][u] EXCEPT !.status = "removed"]
<1>1. member[v][u] \in Membership
  BY DEF Typed, MembersTyped
<1>2. row \in Membership /\ row.status = "removed"
  BY <1>1 DEF Membership
<1>3. member' = [member EXCEPT ![v][u] = row]
  BY DEF Remove, Typed, MembersTyped
<1>4. ~Owns(v, u)
  BY DEF Remove, Manage, CanManage, Owns
<1> HIDE DEF row
<1> QED BY <1>2, <1>3, <1>4 DEF Typed, MembersTyped

LEMMA TransferMoves ==
    ASSUME Typed, NEW a \in Users, NEW v \in Users, NEW u \in Users, Transfer(a, v, u)
    PROVE  /\ MembersTyped'
           /\ a # u /\ Owns(v, a) /\ Active(v, u) /\ workspace[v] = "active"
           /\ member'[v][a].role = "admin" /\ member'[v][a].status = "active"
           /\ member'[v][u].role = "owner" /\ member'[v][u].status = "active"
           /\ \A w, c \in Users : <<w, c>> \notin {<<v, a>>, <<v, u>>} => member'[w][c] = member[w][c]
<1> DEFINE left == [member[v][a] EXCEPT !.role = "admin"]
           right == [member[v][u] EXCEPT !.role = "owner"]
<1>1. member[v][a] \in Membership /\ member[v][u] \in Membership
  BY DEF Typed, MembersTyped
<1>2. a # u /\ Owns(v, a) /\ Active(v, u) /\ workspace[v] = "active"
  BY DEF Transfer, Access
<1>3. /\ left \in Membership /\ left.role = "admin" /\ left.status = "active"
      /\ right \in Membership /\ right.role = "owner" /\ right.status = "active"
  BY <1>1, <1>2 DEF Membership, Roles, Owns, Active
<1>4. member' = [member EXCEPT ![v] = [member[v] EXCEPT ![a] = left, ![u] = right]]
  BY <1>2 DEF Transfer, HandOver, Typed, MembersTyped
<1> HIDE DEF left, right
<1> QED BY <1>2, <1>3, <1>4 DEF Typed, MembersTyped

\* The deletion and the purge of an account end its memberships and touch nobody else's.
LEMMA LeaveMoves ==
    ASSUME Typed, NEW u \in Users, DeleteEnd(u) \/ Purge(u)
    PROVE  /\ MembersTyped'
           /\ \A w \in Users : member'[w][u].status # "active"
           /\ \A w \in Users, c \in Users \ {u} : member'[w][c] = member[w][c]
<1>1. \A w \in Users : member[w] \in [Users -> Membership] /\ member[w][u] \in Membership
  BY DEF Typed, MembersTyped
<1>2. \A w \in Users : /\ [member[w][u] EXCEPT !.status = "removed"] \in Membership
                       /\ [member[w][u] EXCEPT !.status = "removed"].status = "removed"
  BY <1>1 DEF Membership
<1>3. \A w \in Users : \/ member[w][u].status # "active" /\ member'[w] = member[w]
                       \/ member'[w] = [member[w] EXCEPT ![u] = [member[w][u] EXCEPT !.status = "removed"]]
  <2>1. CASE DeleteEnd(u)
    BY <1>1, <2>1 DEF DeleteEnd, Active
  <2>2. CASE Purge(u)
    BY <1>1, <2>2 DEF Purge
  <2> QED BY <2>1, <2>2
<1>4. member' = [w \in Users |-> member'[w]]
  <2>1. CASE DeleteEnd(u)
    BY <2>1 DEF DeleteEnd
  <2>2. CASE Purge(u)
    BY <2>2 DEF Purge
  <2> QED BY <2>1, <2>2
<1>5. ASSUME NEW w \in Users
      PROVE  member'[w] \in [Users -> Membership] /\ member'[w][u].status # "active"
  <2> DEFINE row == [member[w][u] EXCEPT !.status = "removed"]
  <2>1. CASE member[w][u].status # "active" /\ member'[w] = member[w]
    BY <1>1, <2>1
  <2>2. CASE member'[w] = [member[w] EXCEPT ![u] = row]
    <3>1. row \in Membership /\ row.status = "removed" /\ member[w] \in [Users -> Membership]
      BY <1>1, <1>2
    <3> HIDE DEF row
    <3> QED BY <2>2, <3>1
  <2> QED BY <1>3, <2>1, <2>2
<1>6. MembersTyped'
  BY <1>4, <1>5 DEF MembersTyped
<1>7. \A w \in Users, c \in Users \ {u} : member'[w][c] = member[w][c]
  BY <1>1, <1>3
<1> QED BY <1>5, <1>6, <1>7

\* Nothing else changes a membership.
LEMMA OthersKeepMembers ==
    ASSUME [Next]_vars
    PROVE  \/ UNCHANGED member
           \/ \E u \in Users, i \in Invites : Accept(u, i)
           \/ \E a, v, u \in Users, role \in Invitable : ChangeRole(a, v, u, role)
           \/ \E a, v, u \in Users : Remove(a, v, u)
           \/ \E a, v, u \in Users : Transfer(a, v, u)
           \/ \E u \in Users : DeleteEnd(u) \/ Purge(u)
BY DEF Next, vars, SignOut, Switched, SignIn, Switch, Invite, RevokeInvite, Work, DeleteLook,
       DeleteAbort

LEMMA NextMembers == ASSUME Typed, [Next]_vars PROVE MembersTyped'
<1>1. CASE UNCHANGED member
  BY <1>1 DEF Typed, MembersTyped
<1> QED
  BY <1>1, OthersKeepMembers, AcceptMoves, ChangeRoleMoves, RemoveMoves, TransferMoves, LeaveMoves

LEMMA RevokeTyped ==
    ASSUME Typed, NEW S \in SUBSET Sessions, RowsAreFree(S), Revoke(S), UNCHANGED target
    PROVE  SessionsTyped'
BY DEF Typed, SessionsTyped, SessionRow, RowsAreFree, Revoke

LEMMA NextSessions == ASSUME Typed, [Next]_vars PROVE SessionsTyped'
<1>1. CASE UNCHANGED <<session, target>>
  BY <1>1 DEF Typed, SessionsTyped
<1>2. ASSUME NEW s \in Sessions, NEW u \in Users, SignIn(s, u) PROVE SessionsTyped'
  <2>1. [user |-> u, workspace |-> HomeOf(u)] \in SessionRow /\ [user |-> u, workspace |-> HomeOf(u)] # Dead
    BY NoneIsNobody DEF SessionRow, HomeOf, Dead
  <2> QED BY <1>2, <2>1 DEF SignIn, Typed, SessionsTyped
<1>3. ASSUME NEW s \in Sessions, SignOut(s) PROVE SessionsTyped'
  BY <1>3, RevokeTyped DEF SignOut
<1>4. ASSUME NEW s \in Sessions, NEW v \in Users, Switch(s, v) PROVE SessionsTyped'
  BY <1>4 DEF Switch, Typed, SessionsTyped
<1>5. ASSUME NEW s \in Sessions, Switched(s) PROVE SessionsTyped'
  <2> DEFINE row == [session[s] EXCEPT !.workspace = target[s]]
  <2>1. target[s] \in Users /\ session[s] \in [user : Users, workspace : Users]
    BY <1>5 DEF Switched, Typed, SessionsTyped, SessionRow
  <2>2. row \in SessionRow
    BY <2>1 DEF SessionRow
  <2>3. session' = [session EXCEPT ![s] = row] /\ target' = [target EXCEPT ![s] = None]
    BY <1>5 DEF Switched, Typed, SessionsTyped
  <2> HIDE DEF row
  <2> QED BY <2>2, <2>3 DEF Typed, SessionsTyped
<1>6. ASSUME NEW a \in Users, NEW v \in Users, NEW u \in Users, NEW role, Manage(a, v, u, role),
             UNCHANGED target
      PROVE  SessionsTyped'
  BY <1>6, RevokeTyped DEF Manage, SessionsIn, SessionsOf
<1>7. ASSUME NEW a \in Users, NEW v \in Users, NEW u \in Users, Transfer(a, v, u) PROVE SessionsTyped'
  <2>1. SessionsIn(v, a) \cup SessionsIn(v, u) \in SUBSET Sessions
    BY DEF SessionsIn, SessionsOf
  <2> QED BY <1>7, <2>1, RevokeTyped DEF Transfer
<1>8. ASSUME NEW u \in Users, DeleteEnd(u) PROVE SessionsTyped'
  BY <1>8, RevokeTyped DEF DeleteEnd, Doomed, SessionsOf
<1>9. ASSUME NEW u \in Users, Purge(u) PROVE SessionsTyped'
  BY <1>9, RevokeTyped DEF Purge, SessionsOf
<1> QED
  BY <1>1, <1>2, <1>3, <1>4, <1>5, <1>6, <1>7, <1>8, <1>9
  DEF Next, vars, Invite, RevokeInvite, Accept, ChangeRole, Remove, Work, DeleteLook, DeleteAbort

LEMMA NextInvites == ASSUME Typed, [Next]_vars PROVE InvitesTyped'
<1>1. CASE UNCHANGED invite
  BY <1>1 DEF Typed, InvitesTyped, Open
<1>2. ASSUME NEW i \in Invites, NEW row \in InviteRow, row.status # "open",
             invite' = [invite EXCEPT ![i] = row]
      PROVE  InvitesTyped'
  BY <1>2 DEF Typed, InvitesTyped, Open
<1>3. ASSUME NEW i \in Invites, NEW status \in {"accepted", "revoked"},
             invite' = [invite EXCEPT ![i].status = status]
      PROVE  InvitesTyped'
  <2> DEFINE row == [invite[i] EXCEPT !.status = status]
  <2>1. invite[i] \in InviteRow
    BY DEF Typed, InvitesTyped
  <2>2. row \in InviteRow /\ row.status # "open"
    BY <2>1 DEF InviteRow
  <2>3. invite' = [invite EXCEPT ![i] = row]
    BY <1>3 DEF Typed, InvitesTyped
  <2> HIDE DEF row
  <2> QED BY <1>2, <2>2, <2>3
<1>4. ASSUME NEW a \in Users, NEW u \in Users, NEW v \in Teams, NEW role \in Invitable,
             NEW i \in Invites, Invite(a, v, u, role, i)
      PROVE  InvitesTyped'
  <2> DEFINE row == [status |-> "open", workspace |-> v, to |-> u, role |-> role, by |-> a]
             old(j) == [invite[j] EXCEPT !.status = "revoked"]
  <2>1. v \in Users
    BY TeamsAreOfUsers
  <2>2. row \in InviteRow /\ row.workspace \in Users
    BY <2>1 DEF InviteRow
  <2>3. \A j \in Invites : invite[j] \in InviteRow
    BY DEF Typed, InvitesTyped
  <2>4. \A j \in Invites : old(j) \in InviteRow /\ old(j).status = "revoked"
    BY <2>3 DEF InviteRow
  <2>5. \A j \in Invites : invite'[j] \in {row, old(j), invite[j]}
    BY <1>4 DEF Invite
  <2>6. invite' = [j \in Invites |-> invite'[j]]
    BY <1>4 DEF Invite
  <2> HIDE DEF row, old
  <2>7. \A j \in Invites : /\ invite'[j] \in InviteRow
                           /\ invite'[j].status = "open" => invite'[j].workspace \in Users
    BY <2>2, <2>3, <2>4, <2>5 DEF Typed, InvitesTyped, Open
  <2> QED BY <2>6, <2>7 DEF InvitesTyped, Open
<1>5. ASSUME NEW u \in Users, NEW i \in Invites, RevokeInvite(u, i) PROVE InvitesTyped'
  BY <1>3, <1>5 DEF RevokeInvite
<1>6. ASSUME NEW u \in Users, NEW i \in Invites, Accept(u, i) PROVE InvitesTyped'
  BY <1>3, <1>6 DEF Accept
<1>7. ASSUME NEW u \in Users, Purge(u) PROVE InvitesTyped'
  <2> DEFINE gone(j) == [invite[j] EXCEPT !.to = None]
  <2>1. \A j \in Invites : invite[j] \in InviteRow
    BY DEF Typed, InvitesTyped
  <2>2. \A j \in Invites : /\ gone(j) \in InviteRow /\ gone(j).status = invite[j].status
                           /\ gone(j).workspace = invite[j].workspace
    BY <2>1 DEF InviteRow
  <2>3. \A j \in Invites : invite'[j] \in {gone(j), invite[j]}
    BY <1>7 DEF Purge
  <2>4. invite' = [j \in Invites |-> invite'[j]]
    BY <1>7 DEF Purge
  <2> HIDE DEF gone
  <2>5. \A j \in Invites : /\ invite'[j] \in InviteRow
                           /\ invite'[j].status = "open" => invite'[j].workspace \in Users
    BY <2>1, <2>2, <2>3 DEF Typed, InvitesTyped, Open
  <2> QED BY <2>4, <2>5 DEF InvitesTyped, Open
<1> QED
  BY <1>1, <1>4, <1>5, <1>6, <1>7
  DEF Next, vars, SignOut, Switched, SignIn, Switch, ChangeRole, Remove, Transfer, Work,
      DeleteLook, DeleteEnd, DeleteAbort

LEMMA NextAccounts == ASSUME Typed, [Next]_vars PROVE AccountsTyped'
<1> USE DEF Typed, AccountsTyped
<1>1. CASE UNCHANGED <<account, workspace, deleting, keeps>>
  BY <1>1
<1>2. ASSUME NEW v \in Teams, NEW u \in Users, Work(v, u) PROVE AccountsTyped'
  BY <1>2, TeamsAreOfUsers DEF Work
<1>3. ASSUME NEW u \in Users, DeleteLook(u) \/ DeleteAbort(u) PROVE AccountsTyped'
  BY <1>3 DEF DeleteLook, DeleteAbort
<1>4. ASSUME NEW u \in Users, DeleteEnd(u) PROVE AccountsTyped'
  BY <1>4 DEF DeleteEnd, Life
<1>5. ASSUME NEW u \in Users, Purge(u) PROVE AccountsTyped'
  BY <1>5 DEF Purge, Life
<1> QED
  BY <1>1, <1>2, <1>3, <1>4, <1>5
  DEF Next, vars, SignOut, Switched, SignIn, Switch, Invite, RevokeInvite, Accept, ChangeRole,
      Remove, Transfer

LEMMA AlwaysTyped == Spec => []Typed
<1>1. Init => Typed
  BY InitTyped
<1>2. Typed /\ [Next]_vars => Typed'
  BY NextMembers, NextSessions, NextInvites, NextAccounts DEF Typed
<1> QED BY <1>1, <1>2, PTL DEF Spec

\* Type correctness, for any number of accounts, invites and sessions.
THEOREM TypeCorrect == Spec => []TypeOK
<1>1. Typed => TypeOK
  BY DEF Typed, MembersTyped, InvitesTyped, SessionsTyped, AccountsTyped, TypeOK, Membership,
         InviteRow, SessionRow
<1> QED BY <1>1, AlwaysTyped, PTL

-----------------------------------------------------------------------------
(* Ownership *)

LEMMA NextOneOwner == ASSUME Typed, OneOwnerAtMost, [Next]_vars PROVE OneOwnerAtMost'
<1>1. CASE UNCHANGED member
  BY <1>1 DEF OneOwnerAtMost, Owns, Active
<1>2. ASSUME NEW u \in Users, NEW i \in Invites, Accept(u, i) PROVE OneOwnerAtMost'
  BY <1>2, AcceptMoves DEF OneOwnerAtMost, Owns, Active, Invitable
<1>3. ASSUME NEW a \in Users, NEW v \in Users, NEW u \in Users, NEW role \in Invitable,
             ChangeRole(a, v, u, role)
      PROVE  OneOwnerAtMost'
  BY <1>3, ChangeRoleMoves DEF OneOwnerAtMost, Owns, Active, Invitable
<1>4. ASSUME NEW a \in Users, NEW v \in Users, NEW u \in Users, Remove(a, v, u) PROVE OneOwnerAtMost'
  BY <1>4, RemoveMoves DEF OneOwnerAtMost, Owns, Active
<1>5. ASSUME NEW a \in Users, NEW v \in Users, NEW u \in Users, Transfer(a, v, u) PROVE OneOwnerAtMost'
  <2>1. \A c \in Users : Owns(v, c)' => c = u
    BY <1>5, TransferMoves DEF OneOwnerAtMost, Owns, Active
  <2>2. \A w \in Users \ {v}, c \in Users : member'[w][c] = member[w][c]
    BY <1>5, TransferMoves
  <2> QED BY <2>1, <2>2 DEF OneOwnerAtMost, Owns, Active
<1>6. ASSUME NEW u \in Users, DeleteEnd(u) \/ Purge(u) PROVE OneOwnerAtMost'
  BY <1>6, LeaveMoves DEF OneOwnerAtMost, Owns, Active
<1> QED BY <1>1, <1>2, <1>3, <1>4, <1>5, <1>6, OthersKeepMembers

\* A workspace never has two owners.
THEOREM OneOwner == Spec => []OneOwnerAtMost
<1>1. Init => OneOwnerAtMost
  BY DEF Init, OneOwnerAtMost, Owns, Active, Absent
<1>2. Typed /\ OneOwnerAtMost /\ [Next]_vars => OneOwnerAtMost'
  BY NextOneOwner
<1> QED BY <1>1, <1>2, AlwaysTyped, PTL DEF Spec

LEMMA NextKept ==
    ASSUME Typed, [Next]_vars, NEW v \in Users, NEW u \in Users, Owns(v, u), account'[u] = "active"
    PROVE  HasOwner(v)'
<1>1. CASE member'[v][u] = member[v][u]
  BY <1>1 DEF HasOwner, Owns, Active
<1>2. ASSUME NEW c \in Users, NEW i \in Invites, Accept(c, i) PROVE HasOwner(v)'
  BY <1>1, <1>2, AcceptMoves DEF Owns
<1>3. ASSUME NEW a \in Users, NEW w \in Users, NEW c \in Users, NEW role \in Invitable,
             ChangeRole(a, w, c, role)
      PROVE  HasOwner(v)'
  BY <1>1, <1>3, ChangeRoleMoves
<1>4. ASSUME NEW a \in Users, NEW w \in Users, NEW c \in Users, Remove(a, w, c) PROVE HasOwner(v)'
  BY <1>1, <1>4, RemoveMoves
<1>5. ASSUME NEW a \in Users, NEW w \in Users, NEW c \in Users, Transfer(a, w, c) PROVE HasOwner(v)'
  <2>1. Owns(w, c)'
    BY <1>5, TransferMoves DEF Owns, Active
  <2>2. w # v => member'[v][u] = member[v][u]
    BY <1>5, TransferMoves
  <2> QED BY <1>1, <2>1, <2>2 DEF HasOwner
<1>6. ASSUME NEW c \in Users, DeleteEnd(c) \/ Purge(c) PROVE HasOwner(v)'
  <2>1. account'[c] # "active"
    BY <1>6 DEF DeleteEnd, Purge, Typed, AccountsTyped
  <2>2. c # u
    BY <2>1
  <2> QED BY <1>1, <1>6, <2>2, LeaveMoves
<1>7. CASE UNCHANGED member
  BY <1>1, <1>7
<1> QED BY <1>2, <1>3, <1>4, <1>5, <1>6, <1>7, OthersKeepMembers

\* A workspace loses its owner only by the deletion of the owner's account.
THEOREM OwnersLeave == Spec => OwnersLeaveByDeletion
<1> DEFINE Kept == \A v, u \in Users : Owns(v, u) /\ account'[u] = "active" => HasOwner(v)'
<1>1. Typed /\ [Next]_vars => [Kept]_vars
  BY NextKept
<1> QED BY <1>1, AlwaysTyped, PTL DEF Spec, OwnersLeaveByDeletion

-----------------------------------------------------------------------------
(* Deletion *)

\* A membership that is active after a step was it before, or an invite has been accepted.
LEMMA NewMembers ==
    ASSUME Typed, [Next]_vars, NEW v \in Users, NEW u \in Users, Active(v, u)'
    PROVE  Active(v, u) \/ (/\ workspace[v] = "active" /\ account[u] = "active"
                            /\ UNCHANGED <<workspace, account>>)
<1>1. CASE member'[v][u] = member[v][u]
  BY <1>1 DEF Active
<1> SUFFICES ASSUME member'[v][u] # member[v][u]
             PROVE  Active(v, u) \/ (/\ workspace[v] = "active" /\ account[u] = "active"
                                     /\ UNCHANGED <<workspace, account>>)
  BY <1>1
<1>2. ASSUME NEW c \in Users, NEW i \in Invites, Accept(c, i)
      PROVE  /\ workspace[v] = "active" /\ account[u] = "active"
             /\ UNCHANGED <<workspace, account>>
  <2>1. UNCHANGED <<workspace, account>>
    BY <1>2 DEF Accept
  <2> QED BY <1>2, <2>1, AcceptMoves
<1>3. ASSUME NEW a \in Users, NEW w \in Users, NEW c \in Users, NEW role \in Invitable,
             ChangeRole(a, w, c, role)
      PROVE  Active(v, u)
  <2>1. w = v /\ c = u
    BY <1>3, ChangeRoleMoves
  <2> QED BY <1>3, <2>1, ChangeRoleMoves
<1>4. ASSUME NEW a \in Users, NEW w \in Users, NEW c \in Users, Remove(a, w, c) PROVE FALSE
  <2>1. w = v /\ c = u
    BY <1>4, RemoveMoves
  <2> QED BY <1>4, <2>1, RemoveMoves DEF Active
<1>5. ASSUME NEW a \in Users, NEW w \in Users, NEW c \in Users, Transfer(a, w, c) PROVE Active(v, u)
  <2>1. w = v /\ u \in {a, c}
    BY <1>5, TransferMoves
  <2> QED BY <1>5, <2>1, TransferMoves DEF Owns
<1>6. ASSUME NEW c \in Users, DeleteEnd(c) \/ Purge(c) PROVE FALSE
  <2>1. c = u
    BY <1>6, LeaveMoves
  <2> QED BY <1>6, <2>1, LeaveMoves DEF Active
<1> QED BY <1>2, <1>3, <1>4, <1>5, <1>6, OthersKeepMembers

\* What becomes of a workspace: nothing, unless its only member goes, or it is gone already.
LEMMA WorkspaceMoves ==
    ASSUME Typed, [Next]_vars, NEW v \in Users, workspace'[v] # "active"
    PROVE  \/ workspace[v] # "active"
           \/ \A u \in Users : ~Active(v, u)'
<1>1. CASE workspace' = workspace
  BY <1>1
<1>2. ASSUME NEW c \in Users, Purge(c), workspace[v] = "active" PROVE FALSE
  BY <1>2 DEF Purge
<1>3. ASSUME NEW c \in Users, DeleteEnd(c), workspace[v] = "active"
      PROVE  \A u \in Users : ~Active(v, u)'
  <2>1. v \in SoloOwned(c)
    BY <1>3 DEF DeleteEnd
  <2>2. \A u \in Users \ {c} : member'[v][u] = member[v][u] /\ ~Active(v, u)
    BY <1>3, <2>1, LeaveMoves DEF SoloOwned, HasColleague
  <2>3. member'[v][c].status # "active"
    BY <1>3, LeaveMoves
  <2> QED BY <2>2, <2>3 DEF Active
<1> QED
  BY <1>1, <1>2, <1>3
  DEF Next, vars, SignOut, Switched, SignIn, Switch, Invite, RevokeInvite, Accept, ChangeRole,
      Remove, Transfer, Work, DeleteLook, DeleteAbort

\* Nobody stays in, or joins, a workspace that is being deleted.
THEOREM LeavingAreEmpty == Spec => []LeavingWorkspacesAreEmpty
<1>1. Init => LeavingWorkspacesAreEmpty
  BY DEF Init, LeavingWorkspacesAreEmpty
<1>2. Typed /\ LeavingWorkspacesAreEmpty /\ [Next]_vars => LeavingWorkspacesAreEmpty'
  BY NewMembers, WorkspaceMoves DEF LeavingWorkspacesAreEmpty
<1> QED BY <1>1, <1>2, AlwaysTyped, PTL DEF Spec

LEMMA RevokedSessions ==
    ASSUME Typed, NEW S \in SUBSET Sessions, Revoke(S), NEW s \in Sessions, session'[s].user \in Users
    PROVE  session[s].user = session'[s].user /\ s \notin S
BY NoneIsNobody DEF Typed, SessionsTyped, Revoke, Dead

\* The account of a session is active when the session begins, and never another later.
LEMMA NewSessions ==
    ASSUME Typed, [Next]_vars, NEW s \in Sessions, NEW u \in Users, session'[s].user = u
    PROVE  session[s].user = u \/ (account[u] = "active" /\ UNCHANGED account)
<1>1. CASE UNCHANGED session
  BY <1>1
<1>2. ASSUME NEW r \in Sessions, NEW c \in Users, SignIn(r, c)
      PROVE  session[s].user = u \/ (account[u] = "active" /\ UNCHANGED account)
  BY <1>2 DEF SignIn, Typed, SessionsTyped
<1>3. ASSUME NEW r \in Sessions, Switched(r) PROVE session[s].user = u
  <2>1. session[r] \in [user : Users, workspace : Users]
    BY <1>3 DEF Switched, Typed, SessionsTyped, SessionRow
  <2> QED BY <1>3, <2>1 DEF Switched, Typed, SessionsTyped
<1>4. ASSUME NEW S \in SUBSET Sessions, Revoke(S) PROVE session[s].user = u
  BY <1>4, RevokedSessions
<1>5. \A v, c \in Users : SessionsIn(v, c) \in SUBSET Sessions /\ SessionsOf(c) \in SUBSET Sessions
  BY DEF SessionsIn, SessionsOf
<1>6. ASSUME NEW r \in Sessions, SignOut(r) PROVE session[s].user = u
  BY <1>4, <1>6 DEF SignOut
<1>7. ASSUME NEW a \in Users, NEW v \in Users, NEW c \in Users, NEW role, Manage(a, v, c, role)
      PROVE  session[s].user = u
  BY <1>4, <1>5, <1>7 DEF Manage
<1>8. ASSUME NEW a \in Users, NEW v \in Users, NEW c \in Users, Transfer(a, v, c)
      PROVE  session[s].user = u
  <2>1. SessionsIn(v, a) \cup SessionsIn(v, c) \in SUBSET Sessions
    BY <1>5
  <2> QED BY <1>4, <1>8, <2>1 DEF Transfer
<1>9. ASSUME NEW c \in Users, DeleteEnd(c) \/ Purge(c) PROVE session[s].user = u
  BY <1>4, <1>5, <1>9 DEF DeleteEnd, Purge, Doomed
<1> QED
  BY <1>1, <1>2, <1>3, <1>6, <1>7, <1>8, <1>9
  DEF Next, vars, Switch, Invite, RevokeInvite, Accept, ChangeRole, Remove, Work, DeleteLook,
      DeleteAbort

\* An account that stops being active has no session and no membership from then on.
LEMMA AccountMoves ==
    ASSUME Typed, [Next]_vars, NEW u \in Users, account'[u] # "active", account[u] = "active"
    PROVE  SessionsOf(u)' = {} /\ \A v \in Users : ~Active(v, u)'
<1>1. ~UNCHANGED account
  OBVIOUS
<1>2. ASSUME NEW c \in Users, Purge(c) PROVE FALSE
  BY <1>2 DEF Purge, Typed, AccountsTyped
<1>3. ASSUME NEW c \in Users, DeleteEnd(c)
      PROVE  SessionsOf(u)' = {} /\ \A v \in Users : ~Active(v, u)'
  <2>1. c = u
    BY <1>3 DEF DeleteEnd, Typed, AccountsTyped
  <2>2. \A v \in Users : ~Active(v, u)'
    BY <1>3, <2>1, LeaveMoves DEF Active
  <2>3. \A s \in Sessions : session'[s].user # u
    <3>1. SessionsOf(u) \in SUBSET Sessions /\ Revoke(SessionsOf(u))
      BY <1>3, <2>1 DEF SessionsOf, DeleteEnd, Doomed
    <3> QED BY <3>1, RevokedSessions DEF SessionsOf
  <2> QED BY <2>2, <2>3 DEF SessionsOf
<1> QED
  BY <1>1, <1>2, <1>3
  DEF Next, vars, SignOut, Switched, SignIn, Switch, Invite, RevokeInvite, Accept, ChangeRole,
      Remove, Transfer, Work, DeleteLook, DeleteAbort

\* An account that is being deleted has no session and no membership.
THEOREM LeaversKeepNothing == Spec => []LeaversHaveNothing
<1>1. Init => LeaversHaveNothing
  BY DEF Init, LeaversHaveNothing
<1>2. ASSUME Typed, LeaversHaveNothing, [Next]_vars PROVE LeaversHaveNothing'
  <2> SUFFICES ASSUME NEW u \in Users, account'[u] # "active"
               PROVE  SessionsOf(u)' = {} /\ \A v \in Users : ~Active(v, u)'
    BY DEF LeaversHaveNothing
  <2>1. CASE account[u] = "active"
    BY <1>2, <2>1, AccountMoves
  <2>2. CASE account[u] # "active"
    <3>1. \A v \in Users : ~Active(v, u)'
      BY <1>2, <2>2, NewMembers DEF LeaversHaveNothing
    <3>2. \A s \in Sessions : session'[s].user # u
      BY <1>2, <2>2, NewSessions DEF LeaversHaveNothing, SessionsOf
    <3> QED BY <3>1, <3>2 DEF SessionsOf
  <2> QED BY <2>1, <2>2
<1> QED BY <1>1, <1>2, AlwaysTyped, PTL DEF Spec
=============================================================================
