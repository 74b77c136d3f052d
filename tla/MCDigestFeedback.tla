-------------------------- MODULE MCDigestFeedback --------------------------
\* Model-checking instance of DigestFeedback: the invocations are symmetric.
EXTENDS DigestFeedback, TLC

Symmetry == Permutations(Digests)
=============================================================================
