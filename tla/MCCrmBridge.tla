----------------------------- MODULE MCCrmBridge -----------------------------
\* Model-checking instances of CrmBridge: attempts and bodies are symmetric.
EXTENDS CrmBridge, TLC

Symmetry == Permutations(Attempts) \cup Permutations(Bodies)
=============================================================================
