\* One workspace that people are invited to, three accounts, two invites and two sessions.
CONSTANTS
    Users = {o, a, u}
    Teams = {o}
    Invites = {i1, i2}
    Sessions = {s1, s2}
    None = None
SPECIFICATION Spec
SYMMETRY Symmetry
INVARIANTS
    OneOwnerAtMost
    LeavingWorkspacesAreEmpty
    LeaversHaveNothing
PROPERTIES
    OwnersLeaveByDeletion
CHECK_DEADLOCK FALSE
