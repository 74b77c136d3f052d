--------------------------- MODULE MCWorkspaceTeam ---------------------------
\* Model-checking instances of WorkspaceTeam: invites, sessions and
\* the accounts in whose workspace nobody is invited are symmetric.
EXTENDS WorkspaceTeam, TLC

Symmetry == Permutations(Invites) \cup Permutations(Sessions) \cup Permutations(Users \ Teams)
=============================================================================
