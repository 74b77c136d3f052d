---------------------------- MODULE MCAuthSession ----------------------------
\* Model-checking instances of AuthSession: sessions, links and requests are symmetric.
EXTENDS AuthSession, TLC

Symmetry == Permutations(Sessions) \cup Permutations(Requests)
=============================================================================
