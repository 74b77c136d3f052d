---------------------------- MODULE MCDailyRadar ----------------------------
\* Model-checking instance of DailyRadar: the leases and profiles are symmetric.
EXTENDS DailyRadar, TLC

Symmetry == Permutations(Workers) \cup Permutations(Profiles)
=============================================================================
